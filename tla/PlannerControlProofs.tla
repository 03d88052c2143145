-------------------------- MODULE PlannerControlProofs --------------------------
(***************************************************************************)
(* The planner of agent.route and agent.flow, for any number of requests,  *)
(* any limits, any overlap of its calls and any number of resumes.         *)
(*                                                                         *)
(* No planner completes over an operation that is not settled, and no      *)
(* question is put to the human by two processes (NothingUnsettled); every *)
(* operation has one answer, which is all that the planner is ever told    *)
(* (AnsweredOnce).  The inductive invariant Inv says what an entry of the  *)
(* append queue means for the call that waits for it (QueueExact), what a  *)
(* call knows of its operation at each place (CallExact), and what a       *)
(* planner that has returned has left (PhaseExact).                        *)
(*                                                                         *)
(* Calls that came one after the other leave a journal that can be resumed *)
(* from, start the routes that were told, and keep to the budget           *)
(* (JournalAccepted, RoutesAreWhatWasTold, BudgetKept).  Their invariant   *)
(* CallsInv derives everything from the deliveries: the scope after k of   *)
(* them is the snapshot of the operation with index k.                     *)
(***************************************************************************)
EXTENDS PlannerControl, SequencesExt, FiniteSetTheorems, SequenceTheorems, FunctionTheorems,
        WellFoundedInduction, TLAPS

\* Who is in a queue.
Members(q) == {q[i] : i \in 1..Len(q)}

\* Nobody is in the queue twice.
NoRepeats(q) == \A i, j \in 1..Len(q) : q[i] = q[j] => i = j

Places == {"idle", "preparing", "prepared", "policy", "generated", "child", "executed",
           "recording", "result", "found", "asking", "marking", "told", "waiting",
           "delivering", "done", "threw"}
Operations == [status : {"none", "prepared", "completed", "ambiguous"},
               c : AllCalls \cup {None}, index : Nat, ok : BOOLEAN, try : Nat, snap : Scopes]
InProgress == [at : Places, c : AllCalls \cup {None}, op : Requests \cup {0}, seen : Nat,
               waits : Nat, index : Nat, order : Nat, path : Nat, ok : BOOLEAN, try : Nat,
               snap : Scopes]
Runs == Nat \X (Requests \cup {0}) \X Nat
Kinds == {"prepare", "complete", "ambiguous", "progress"}
Entries == [kind : Kinds \cup {"planner"}, req : Requests \cup {0}, op : Requests \cup {0}]

TypeOK ==
  /\ mode \in Modes /\ ops \in [Requests -> Operations] /\ delivered \in Nat
  /\ final \in Scopes \cup {None} /\ told \in SUBSET (Requests \X (Nat \X BOOLEAN))
  /\ phase \in {"down", "planning", "returned", "planned", "launched", "failed"}
  /\ scope \in Scopes /\ call \in [Requests -> InProgress] /\ queue \in Seq(Entries)
  /\ aborted \in BOOLEAN /\ resumes \in Nat /\ overlapped \in BOOLEAN
  /\ attempts \in [Requests -> Nat] /\ children \in SUBSET Runs
  /\ asked \in [AllCalls -> SUBSET Nat] /\ started \in SUBSET (SUBSET Registered)

-----------------------------------------------------------------------------
(* The members of a queue are what it is a queue of.                        *)
LEMMA MembersType ==
  ASSUME NEW S, NEW q \in Seq(S)
  PROVE  Members(q) \subseteq S /\ (Members(q) = {} <=> q = <<>>)
<1>1. \A i \in 1..Len(q) : q[i] \in S
  BY ElementOfSeq
<1>2. q # <<>> => 1 \in 1..Len(q)
  BY EmptySeq, LenProperties
<1>3. q = <<>> => 1..Len(q) = {}
  BY EmptySeq
<1> QED
  BY <1>1, <1>2, <1>3 DEF Members

(* The queue nobody is in.                                                  *)
LEMMA EmptyQueue == Members(<<>>) = {} /\ NoRepeats(<<>>) /\ \A S : <<>> \in Seq(S)
BY EmptySeq DEF Members, NoRepeats

(* push(): the queue keeps what it had, and who was not in it is in it once. *)
LEMMA AppendKeeps ==
  ASSUME NEW S, NEW q \in Seq(S), NEW x \in S
  PROVE  /\ Append(q, x) \in Seq(S) /\ Append(q, x) # <<>>
         /\ Len(Append(q, x)) = Len(q) + 1
         /\ \A i \in 1..Len(q) : Append(q, x)[i] = q[i]
         /\ Append(q, x)[Len(q) + 1] = x
         /\ Members(Append(q, x)) = Members(q) \cup {x}
         /\ Head(Append(q, x)) = IF q = <<>> THEN x ELSE Head(q)
         /\ NoRepeats(q) /\ x \notin Members(q) => NoRepeats(Append(q, x))
<1> DEFINE r == Append(q, x)
<1>1. /\ r \in Seq(S) /\ Len(q) \in Nat /\ Len(r) = Len(q) + 1
      /\ \A i \in 1..Len(q) : r[i] = q[i]
      /\ r[Len(q) + 1] = x
  BY AppendProperties, LenProperties
<1>2. q # <<>> => Len(q) > 0
  BY EmptySeq, LenProperties
<1>3. r # <<>> /\ Head(r) = r[1]
  <2>1. Len(r) # 0
    BY <1>1
  <2>2. r # <<>>
    BY <2>1, EmptySeq
  <2> QED
    BY <1>1, <2>2, HeadTailProperties
<1>4. q # <<>> => Head(q) = q[1]
  BY HeadTailProperties
<1>5. q = <<>> => Len(q) = 0
  BY EmptySeq
<1> HIDE DEF r
<1>6. \A i \in 1..Len(r) : i \in 1..Len(q) \/ i = Len(q) + 1
  BY <1>1
<1>7. Members(r) = Members(q) \cup {x}
  <2>1. 1..Len(r) = (1..Len(q)) \cup {Len(q) + 1}
    BY <1>1
  <2> QED
    BY <1>1, <2>1 DEF Members
<1>8. ASSUME NoRepeats(q), x \notin Members(q)
      PROVE  NoRepeats(r)
  <2>1. \A i \in 1..Len(q) : r[i] # x
    BY <1>1, <1>8 DEF Members
  <2> QED
    BY <1>1, <1>6, <1>8, <2>1 DEF NoRepeats
<1> QED
  BY <1>1, <1>2, <1>3, <1>4, <1>5, <1>7, <1>8 DEF r

(* shift(): the first one leaves, and is not in the queue any more.         *)
LEMMA TailKeeps ==
  ASSUME NEW S, NEW q \in Seq(S), q # <<>>
  PROVE  /\ Tail(q) \in Seq(S) /\ Head(q) \in S /\ Head(q) = q[1]
         /\ Len(q) \in Nat /\ Len(q) >= 1
         /\ Len(Tail(q)) = Len(q) - 1
         /\ \A i \in 1..Len(q) - 1 : Tail(q)[i] = q[i + 1]
         /\ Members(q) = Members(Tail(q)) \cup {Head(q)}
         /\ NoRepeats(q) => NoRepeats(Tail(q)) /\ Head(q) \notin Members(Tail(q))
<1>1. /\ Head(q) \in S /\ Tail(q) \in Seq(S) /\ Len(Tail(q)) = Len(q) - 1
      /\ \A i \in 1..Len(Tail(q)) : Tail(q)[i] = q[i + 1]
  BY HeadTailProperties
<1>2. Len(q) \in Nat /\ Len(q) >= 1
  BY EmptySeq, LenProperties
<1>3. Head(q) = q[1]
  BY HeadTailProperties
<1>4. \A i \in 1..Len(q) - 1 : Tail(q)[i] = q[i + 1] /\ i + 1 \in 1..Len(q)
  BY <1>1, <1>2
<1>5. Members(q) = Members(Tail(q)) \cup {Head(q)}
  <2>1. ASSUME NEW j \in 1..Len(q)
        PROVE  q[j] = Head(q) \/ q[j] \in Members(Tail(q))
    <3>1. CASE j = 1
      BY <1>3, <3>1
    <3>2. CASE j # 1
      <4>1. j - 1 \in 1..Len(Tail(q)) /\ Tail(q)[j - 1] = q[j]
        BY <1>1, <1>2, <3>2
      <4> QED
        BY <4>1 DEF Members
    <3> QED
      BY <3>1, <3>2
  <2>2. \A i \in 1..Len(Tail(q)) : Tail(q)[i] \in Members(q)
    BY <1>1, <1>4 DEF Members
  <2>3. Head(q) \in Members(q)
    BY <1>2, <1>3 DEF Members
  <2> QED
    BY <2>1, <2>2, <2>3 DEF Members
<1>6. ASSUME NoRepeats(q)
      PROVE  NoRepeats(Tail(q)) /\ Head(q) \notin Members(Tail(q))
  <2>1. \A i \in 1..Len(q) - 1 : q[i + 1] # q[1]
    BY <1>2, <1>6 DEF NoRepeats
  <2>2. ASSUME NEW i \in 1..Len(Tail(q)), NEW j \in 1..Len(Tail(q)), Tail(q)[i] = Tail(q)[j]
        PROVE  i = j
    <3>1. q[i + 1] = q[j + 1] /\ i + 1 \in 1..Len(q) /\ j + 1 \in 1..Len(q)
      BY <1>1, <1>4, <2>2
    <3>2. i + 1 = j + 1
      BY <1>6, <3>1 DEF NoRepeats
    <3> QED
      BY <1>1, <1>2, <3>2
  <2> QED
    BY <1>1, <1>3, <1>4, <2>1, <2>2 DEF NoRepeats, Members
<1> QED
  BY <1>1, <1>2, <1>3, <1>5, <1>6

-----------------------------------------------------------------------------
\* Where a call is that waits for an append of a kind.
PlaceOf(kind) == CASE kind = "prepare" -> "preparing" [] kind = "complete" -> "recording"
                   [] kind = "ambiguous" -> "marking" [] kind = "progress" -> "delivering"
Appending == {"preparing", "recording", "marking", "delivering"}

PlannerEntry == [kind |-> "planner", req |-> 0, op |-> 0]

QueueExact ==
  /\ NoRepeats(queue)
  /\ \A w \in Members(queue) : w.kind # "planner" =>
       w.req \in Requests /\ w.op = call[w.req].op /\ call[w.req].at = PlaceOf(w.kind)

CallExact(r) ==
  /\ call[r].at \notin {"idle", "threw"} => call[r].op \in Requests /\ call[r].c \in AllCalls
  /\ call[r].at \notin {"idle", "threw", "preparing"} => call[r].op \in Known
  /\ call[r].at = "policy" => call[r].c[1] \in {"route", "node", "execute"}
  /\ call[r].at = "preparing" => call[r].op = r /\ r \notin Known
  /\ call[r].at = "prepared" /\ IsAsk(call[r].c) => ops[call[r].op].c = call[r].c
  /\ call[r].at \in {"preparing", "prepared"} /\ IsAsk(call[r].c) =>
       asked[call[r].c] \subseteq {resumes}
  /\ call[r].at = "result" =>
       /\ Completed(call[r].op)
       /\ ops[call[r].op].try = call[r].try /\ ops[call[r].op].ok = call[r].ok

PhaseExact ==
  /\ phase = "planning" => final = None /\ \A w \in Members(queue) : w.kind # "planner"
  /\ phase # "planning" => \A r \in Requests : ~InCall(r)
  /\ phase = "returned" => Unsettled = {} /\ Members(queue) \subseteq {PlannerEntry}
  /\ phase \notin {"planning", "returned"} => queue = <<>>
  /\ final # None => Unsettled = {}

AskedExact ==
  \A c \in AllCalls : /\ \A p, q \in asked[c] : p = q
                      /\ asked[c] # {} => \E o \in Known : ops[o].c = c

Inv == TypeOK /\ (\A r \in Requests : CallExact(r)) /\ QueueExact /\ PhaseExact /\ AskedExact

-----------------------------------------------------------------------------
LEMMA EmptyTyped == emptyScope \in Scopes /\ noCall \in InProgress /\ noOp \in Operations
<1>1. emptyScope \in Scopes
  BY DEF emptyScope, Scopes
<1> HIDE DEF emptyScope
<1> QED
  BY <1>1 DEF noCall, noOp, InProgress, Operations, Places

(* The changes of one call that the actions share.                          *)
LEMMA BindsCall ==
  ASSUME TypeOK, NEW r \in Requests, NEW c \in AllCalls, NEW o \in Requests,
         NEW place \in Places, Binds(r, c, o, place)
  PROVE  /\ call' \in [Requests -> InProgress]
         /\ \A q \in Requests \ {r} : call'[q] = call[q]
         /\ call'[r].at = place /\ call'[r].c = c /\ call'[r].op = o
<1> DEFINE k == [noCall EXCEPT !.at = place, !.c = c, !.op = o, !.seen = delivered,
                               !.index = scope.control + 1]
<1>1. call' = [call EXCEPT ![r] = k]
  BY DEF Binds
<1>2. scope.control + 1 \in Nat /\ delivered \in Nat
  BY DEF TypeOK, Scopes
<1>3. k \in InProgress /\ k.at = place /\ k.c = c /\ k.op = o
  BY <1>2, EmptyTyped DEF InProgress
<1> HIDE DEF k
<1> QED
  BY <1>1, <1>3 DEF TypeOK

LEMMA EndsCall ==
  ASSUME TypeOK, NEW r \in Requests, NEW how \in Places, Ends(r, how)
  PROVE  /\ call' \in [Requests -> InProgress]
         /\ \A q \in Requests \ {r} : call'[q] = call[q]
         /\ call'[r].at = how /\ call'[r].c = call[r].c /\ call'[r].op = call[r].op
<1> DEFINE k == [noCall EXCEPT !.at = how, !.c = call[r].c, !.op = call[r].op]
<1>1. call' = [call EXCEPT ![r] = k]
  BY DEF Ends
<1>2. k \in InProgress /\ k.at = how /\ k.c = call[r].c /\ k.op = call[r].op
  BY EmptyTyped DEF InProgress, TypeOK
<1> HIDE DEF k
<1> QED
  BY <1>1, <1>2 DEF TypeOK

LEMMA GoesCall ==
  ASSUME TypeOK, NEW r \in Requests, NEW place \in Places, Goes(r, place)
  PROVE  /\ call' \in [Requests -> InProgress]
         /\ \A q \in Requests \ {r} : call'[q] = call[q]
         /\ call'[r].at = place /\ call'[r].c = call[r].c /\ call'[r].op = call[r].op
<1> DEFINE k == [call[r] EXCEPT !.at = place]
<1>1. call' = [call EXCEPT ![r] = k]
  BY DEF Goes, TypeOK
<1>2. k \in InProgress /\ k.at = place /\ k.c = call[r].c /\ k.op = call[r].op
  BY DEF InProgress, TypeOK
<1> HIDE DEF k
<1> QED
  BY <1>1, <1>2 DEF TypeOK

LEMMA EnqueuesEntry ==
  ASSUME TypeOK, NEW kind \in Kinds \cup {"planner"}, NEW r \in Requests \cup {0},
         NEW o \in Requests \cup {0}, Enqueues(kind, r, o)
  PROVE  LET w == [kind |-> kind, req |-> r, op |-> o]
         IN  /\ queue' \in Seq(Entries) /\ w \in Entries
             /\ Members(queue') = Members(queue) \cup {w}
             /\ NoRepeats(queue) /\ w \notin Members(queue) => NoRepeats(queue')
<1> DEFINE w == [kind |-> kind, req |-> r, op |-> o]
<1>1. w \in Entries /\ queue' = Append(queue, w)
  BY DEF Entries, Enqueues
<1> HIDE DEF w
<1>2. /\ queue' \in Seq(Entries) /\ Members(queue') = Members(queue) \cup {w}
      /\ NoRepeats(queue) /\ w \notin Members(queue) => NoRepeats(queue')
  BY <1>1, AppendKeeps DEF TypeOK
<1> QED
  BY <1>1, <1>2 DEF w

\* One call of a planner moves on by itself, or to wait for an append.
Moves(r) ==
  /\ phase = "planning" /\ UNCHANGED <<ops, delivered, final, phase, resumes>>
  /\ \A q \in Requests \ {r} : call'[q] = call[q]
  /\ call[r].at \notin Appending
  /\ \/ queue' = queue /\ call'[r].at \notin Appending
     \/ \E kind \in Kinds : /\ Enqueues(kind, r, call'[r].op)
                            /\ call'[r].at = PlaceOf(kind)
  /\ \A c \in AllCalls : asked'[c] = asked[c] \/ asked'[c] = asked[c] \cup {resumes}

LEMMA MovesKeeps ==
  ASSUME Inv, NEW r \in Requests, Moves(r), TypeOK', CallExact(r)', AskedExact'
  PROVE  Inv'
<1>1. /\ phase = "planning" /\ UNCHANGED <<ops, delivered, final, phase, resumes>>
      /\ \A q \in Requests \ {r} : call'[q] = call[q]
      /\ call[r].at \notin Appending
  BY DEF Moves
<1>2. \A q \in Requests : CallExact(q)'
  <2> SUFFICES ASSUME NEW q \in Requests \ {r} PROVE CallExact(q)'
    OBVIOUS
  <2>1. call'[q] = call[q] /\ CallExact(q)
    BY <1>1 DEF Inv
  <2>2. call[q].at \in {"preparing", "prepared"} /\ IsAsk(call[q].c) =>
          asked'[call[q].c] \subseteq {resumes}
    BY <2>1 DEF CallExact, Moves
  <2> QED
    BY <1>1, <2>1, <2>2 DEF CallExact, Known, Completed
<1>3. \A w \in Members(queue) : w.kind # "planner" /\ w \in Entries
  <2>1. Members(queue) \subseteq Entries
    BY MembersType DEF Inv, TypeOK
  <2> QED
    BY <1>1, <2>1 DEF Inv, PhaseExact
<1>4. \A w \in Members(queue) : w.req # r
  <2> SUFFICES ASSUME NEW w \in Members(queue), w.req = r PROVE FALSE
    OBVIOUS
  <2>1. call[r].at = PlaceOf(w.kind) /\ w.kind \in Kinds
    BY <1>3 DEF Inv, QueueExact, Entries
  <2> QED
    BY <1>1, <2>1 DEF PlaceOf, Appending, Kinds
<1>5. QueueExact' /\ \A w \in Members(queue') : w.kind # "planner"
  <2>1. CASE queue' = queue
    BY <1>1, <1>3, <1>4, <2>1 DEF Inv, QueueExact
  <2>2. ASSUME NEW kind \in Kinds, Enqueues(kind, r, call'[r].op), call'[r].at = PlaceOf(kind)
        PROVE  QueueExact' /\ \A w \in Members(queue') : w.kind # "planner"
    <3> DEFINE new == [kind |-> kind, req |-> r, op |-> call'[r].op]
    <3>1. call'[r].op \in Requests \cup {0}
      BY DEF TypeOK, InProgress
    <3>2. new \notin Members(queue)
      BY <1>4
    <3>3. Members(queue') = Members(queue) \cup {new} /\ NoRepeats(queue')
      <4>1. TypeOK /\ NoRepeats(queue)
        BY DEF Inv, QueueExact
      <4> QED
        BY <2>2, <3>1, <3>2, <4>1, EnqueuesEntry
    <3>4. \A w \in Members(queue) : w.req \in Requests /\ w.op = call'[w.req].op
                                    /\ call'[w.req].at = PlaceOf(w.kind)
      BY <1>1, <1>3, <1>4 DEF Inv, QueueExact
    <3>5. new.kind # "planner" /\ new.req = r /\ new.op = call'[r].op /\ new.kind = kind
      BY DEF Kinds
    <3> HIDE DEF new
    <3> QED
      BY <1>3, <2>2, <3>3, <3>4, <3>5 DEF QueueExact
  <2> QED
    BY <2>1, <2>2 DEF Moves
<1>6. PhaseExact'
  BY <1>1, <1>5 DEF Inv, PhaseExact
<1> QED
  BY <1>2, <1>5, <1>6 DEF Inv

(* A call that only moves does not ask the human.                           *)
LEMMA MovesQuietly ==
  ASSUME Inv, NEW r \in Requests, Moves(r), TypeOK', CallExact(r)', UNCHANGED asked
  PROVE  Inv'
<1>1. AskedExact'
  BY DEF Inv, AskedExact, Moves, Known
<1> QED
  BY <1>1, MovesKeeps

-----------------------------------------------------------------------------
LEMMA MayCallTyped ==
  ASSUME TypeOK, NEW r \in Requests, NEW c \in Calls[mode], MayCall(r, c)
  PROVE  /\ c \in AllCalls /\ phase = "planning" /\ call[r].at = "idle"
         /\ r \in Known => c = ops[r].c
BY DEF TypeOK, AllCalls, MayCall

(* A control call finds or creates its operation.                           *)
LEMMA ControlIssueKeeps ==
  ASSUME Inv, NEW r \in Requests, NEW c \in Calls[mode],
         CallAgain(r, c) \/ CallRebound(r, c) \/ CallUnmatched(r, c) \/ CallNew(r, c)
  PROVE  Inv'
<1>1. /\ TypeOK /\ MayCall(r, c) /\ ~IsAsk(c)
      /\ UNCHANGED <<mode, ops, delivered, final, told, phase, scope, aborted, resumes,
                     attempts, children, asked, started>>
      /\ overlapped' \in BOOLEAN
  BY DEF Inv, CallAgain, CallRebound, CallUnmatched, CallNew, durable, Overlaps
<1>2. c \in AllCalls /\ phase = "planning" /\ call[r].at = "idle"
  BY <1>1, MayCallTyped
<1>3. call[r].at \notin Appending
  BY <1>2 DEF Appending
<1>4. ASSUME NEW o \in Known, Binds(r, c, o, "prepared"), UNCHANGED queue
      PROVE  Inv'
  <2>0. o \in Requests
    BY DEF Known
  <2>1. /\ call' \in [Requests -> InProgress]
        /\ \A q \in Requests \ {r} : call'[q] = call[q]
        /\ call'[r].at = "prepared" /\ call'[r].c = c /\ call'[r].op = o
    BY <1>1, <1>2, <1>4, <2>0, BindsCall DEF Places
  <2>2. TypeOK'
    BY <1>1, <1>4, <2>1 DEF TypeOK
  <2>3. CallExact(r)'
    BY <1>1, <1>2, <2>0, <2>1 DEF CallExact, Known
  <2>4. Moves(r)
    BY <1>1, <1>2, <1>3, <1>4, <2>1 DEF Moves, Appending
  <2> QED
    BY <1>1, <2>2, <2>3, <2>4, MovesQuietly
<1>5. CASE CallAgain(r, c)
  BY <1>4, <1>5 DEF CallAgain
<1>6. CASE CallRebound(r, c)
  <2>1. PICK o \in Matching(c) : Binds(r, c, o, "prepared")
    BY <1>6 DEF CallRebound
  <2>2. o \in Known
    BY DEF Matching, Pending, Controls
  <2> QED
    BY <1>4, <1>6, <2>1, <2>2 DEF CallRebound
<1>7. CASE CallUnmatched(r, c)
  <2>1. Ends(r, "threw") /\ UNCHANGED queue
    BY <1>7 DEF CallUnmatched, Throws
  <2>2. /\ call' \in [Requests -> InProgress]
        /\ \A q \in Requests \ {r} : call'[q] = call[q]
        /\ call'[r].at = "threw"
    BY <1>1, <2>1, EndsCall DEF Places
  <2>3. TypeOK'
    BY <1>1, <2>1, <2>2 DEF TypeOK
  <2>4. CallExact(r)'
    BY <2>2 DEF CallExact
  <2>5. Moves(r)
    BY <1>1, <1>2, <1>3, <2>1, <2>2 DEF Moves, Appending
  <2> QED
    BY <1>1, <2>3, <2>4, <2>5, MovesQuietly
<1>8. CASE CallNew(r, c)
  <2>1. Binds(r, c, r, "preparing") /\ Enqueues("prepare", r, r) /\ r \notin Known
    BY <1>8 DEF CallNew
  <2>2. /\ call' \in [Requests -> InProgress]
        /\ \A q \in Requests \ {r} : call'[q] = call[q]
        /\ call'[r].at = "preparing" /\ call'[r].c = c /\ call'[r].op = r
    BY <1>1, <1>2, <2>1, BindsCall DEF Places
  <2>3. queue' \in Seq(Entries)
    BY <1>1, <2>1, EnqueuesEntry DEF Kinds
  <2>4. TypeOK'
    BY <1>1, <2>2, <2>3 DEF TypeOK
  <2>5. CallExact(r)'
    BY <1>1, <1>2, <2>1, <2>2 DEF CallExact, Known
  <2>6. Moves(r)
    BY <1>1, <1>2, <1>3, <2>1, <2>2 DEF Moves, Kinds, PlaceOf
  <2> QED
    BY <1>1, <2>4, <2>5, <2>6, MovesQuietly
<1> QED
  BY <1>5, <1>6, <1>7, <1>8

(* A question that finds nothing like it has not been asked by anyone.      *)
LEMMA AskIssueKeeps ==
  ASSUME Inv, NEW r \in Requests, NEW c \in Calls[mode],
         AskAgain(r, c) \/ AskBlocked(r, c) \/ AskNew(r, c)
  PROVE  Inv'
<1>1. /\ TypeOK /\ MayCall(r, c) /\ IsAsk(c)
      /\ UNCHANGED <<mode, ops, delivered, final, told, phase, scope, aborted, resumes, overlapped,
                     attempts, children, asked, started>>
  BY DEF Inv, AskAgain, AskBlocked, AskNew, durable, history
<1>2. c \in AllCalls /\ phase = "planning" /\ call[r].at = "idle"
  BY <1>1, MayCallTyped
<1>3. call[r].at \notin Appending
  BY <1>2 DEF Appending
<1>4. Asks \subseteq Requests /\ Asks \subseteq Known
  BY DEF Asks, Controls, Known
<1>5. CASE AskAgain(r, c)
  <2>1. PICK o \in Asks : Binds(r, c, o, "found")
    BY <1>5 DEF AskAgain
  <2>2. /\ call' \in [Requests -> InProgress]
        /\ \A q \in Requests \ {r} : call'[q] = call[q]
        /\ call'[r].at = "found" /\ call'[r].c = c /\ call'[r].op = o
    BY <1>1, <1>2, <1>4, <2>1, BindsCall DEF Places
  <2>3. UNCHANGED queue
    BY <1>5 DEF AskAgain
  <2>4. TypeOK'
    BY <1>1, <2>2, <2>3 DEF TypeOK
  <2>5. CallExact(r)'
    BY <1>1, <1>2, <1>4, <2>2 DEF CallExact, Known
  <2>6. Moves(r)
    BY <1>1, <1>2, <1>3, <2>2, <2>3 DEF Moves, Appending
  <2> QED
    BY <1>1, <2>4, <2>5, <2>6, MovesQuietly
<1>6. CASE AskBlocked(r, c)
  <2>1. CASE Ends(r, "threw") /\ UNCHANGED queue
    <3>1. /\ call' \in [Requests -> InProgress]
          /\ \A q \in Requests \ {r} : call'[q] = call[q]
          /\ call'[r].at = "threw"
      BY <1>1, <2>1, EndsCall DEF Places
    <3>2. TypeOK'
      BY <1>1, <2>1, <3>1 DEF TypeOK
    <3>3. CallExact(r)'
      BY <3>1 DEF CallExact
    <3>4. Moves(r)
      BY <1>1, <1>2, <1>3, <2>1, <3>1 DEF Moves, Appending
    <3> QED
      BY <1>1, <3>2, <3>3, <3>4, MovesQuietly
  <2>2. ASSUME NEW o \in AsksLike(c), Binds(r, c, o, "marking"), Enqueues("ambiguous", r, o)
        PROVE  Inv'
    <3>1. o \in Requests /\ o \in Known
      BY <1>4 DEF AsksLike
    <3>2. /\ call' \in [Requests -> InProgress]
          /\ \A q \in Requests \ {r} : call'[q] = call[q]
          /\ call'[r].at = "marking" /\ call'[r].c = c /\ call'[r].op = o
      BY <1>1, <1>2, <2>2, <3>1, BindsCall DEF Places
    <3>3. queue' \in Seq(Entries)
      BY <1>1, <2>2, <3>1, EnqueuesEntry DEF Kinds
    <3>4. TypeOK'
      BY <1>1, <3>2, <3>3 DEF TypeOK
    <3>5. CallExact(r)'
      BY <1>1, <1>2, <3>1, <3>2 DEF CallExact, Known
    <3>6. Moves(r)
      BY <1>1, <1>2, <1>3, <2>2, <3>2 DEF Moves, Kinds, PlaceOf
    <3> QED
      BY <1>1, <3>4, <3>5, <3>6, MovesQuietly
  <2> QED
    BY <1>6, <2>1, <2>2 DEF AskBlocked, Throws
<1>7. CASE AskNew(r, c)
  <2>1. /\ r \notin Known /\ \A o \in AsksLike(c) : ops[o].c # c
        /\ Binds(r, c, r, "preparing") /\ Enqueues("prepare", r, r)
    BY <1>7 DEF AskNew
  <2>2. asked[c] = {}
    <3>1. \A o \in Known : ops[o].c # c
      BY <1>1, <2>1 DEF AsksLike, Asks, Controls
    <3> QED
      BY <1>2, <3>1 DEF Inv, AskedExact
  <2>3. /\ call' \in [Requests -> InProgress]
        /\ \A q \in Requests \ {r} : call'[q] = call[q]
        /\ call'[r].at = "preparing" /\ call'[r].c = c /\ call'[r].op = r
    BY <1>1, <1>2, <2>1, BindsCall DEF Places
  <2>4. queue' \in Seq(Entries)
    BY <1>1, <2>1, EnqueuesEntry DEF Kinds
  <2>5. TypeOK'
    BY <1>1, <2>3, <2>4 DEF TypeOK
  <2>6. CallExact(r)'
    BY <1>1, <1>2, <2>1, <2>2, <2>3 DEF CallExact, Known
  <2>7. Moves(r)
    BY <1>1, <1>2, <1>3, <2>1, <2>3 DEF Moves, Kinds, PlaceOf
  <2> QED
    BY <1>1, <2>5, <2>6, <2>7, MovesQuietly
<1> QED
  BY <1>5, <1>6, <1>7

-----------------------------------------------------------------------------
LEMMA WhoCallsPlans ==
  ASSUME Inv, NEW r \in Requests, InCall(r)
  PROVE  /\ phase = "planning" /\ call[r].op \in Requests /\ call[r].c \in AllCalls
         /\ call[r] \in InProgress /\ ops[call[r].op] \in Operations
<1>1. phase = "planning"
  BY DEF Inv, PhaseExact
<1>2. call[r].at \notin {"idle", "threw"}
  BY DEF InCall
<1>3. call[r].op \in Requests /\ call[r].c \in AllCalls
  BY <1>2 DEF Inv, CallExact
<1> QED
  BY <1>1, <1>3 DEF Inv, TypeOK

(* A control call runs on by itself, until it has something to record.      *)
LEMMA BeginKeeps ==
  ASSUME Inv, NEW r \in Requests, BeginAmbiguous(r) \/ BeginReplay(r) \/ BeginExecute(r)
  PROVE  Inv'
<1>1. /\ TypeOK /\ CallExact(r) /\ call[r].at = "prepared" /\ ~IsAsk(call[r].c)
      /\ UNCHANGED <<mode, ops, delivered, final, told, phase, queue, aborted, resumes, overlapped,
                     asked, started>>
      /\ children' \in {children, Superseded(call[r].op)}
  BY DEF Inv, BeginAmbiguous, BeginReplay, BeginExecute, Execution, durable, history
<1>2. InCall(r) /\ call[r].at \notin Appending
  BY <1>1 DEF InCall, Appending
<1>3. /\ phase = "planning" /\ call[r].op \in Requests /\ call[r].c \in AllCalls
      /\ call[r] \in InProgress /\ ops[call[r].op] \in Operations
  BY <1>2, WhoCallsPlans
<1>7. children' \in SUBSET Runs
  <2>1. children \in SUBSET Runs
    BY <1>1 DEF TypeOK
  <2>2. ASSUME NEW p \in children, p[2] = call[r].op
        PROVE  <<p[1], call[r].op, 0>> \in Runs
    <3>1. p[1] \in Nat
      BY <2>1 DEF Runs
    <3> QED
      BY <1>3, <3>1 DEF Runs
  <2>3. Superseded(call[r].op) \subseteq Runs
    BY <2>1, <2>2 DEF Superseded
  <2> QED
    BY <1>1, <2>1, <2>3
<1>4. CASE BeginAmbiguous(r)
  <2> DEFINE k == [noCall EXCEPT !.at = "threw"]
  <2>1. k \in InProgress /\ k.at = "threw"
    BY EmptyTyped DEF InProgress, Places
  <2>2. call' = [call EXCEPT ![r] = k] /\ UNCHANGED <<scope, attempts>>
    BY <1>4 DEF BeginAmbiguous, history
  <2> HIDE DEF k
  <2>3. /\ call' \in [Requests -> InProgress] /\ call'[r].at = "threw"
        /\ \A q \in Requests \ {r} : call'[q] = call[q]
    BY <1>1, <2>1, <2>2 DEF TypeOK
  <2>4. TypeOK'
    BY <1>1, <1>7, <2>2, <2>3 DEF TypeOK
  <2>5. CallExact(r)'
    BY <2>3 DEF CallExact
  <2>6. Moves(r)
    BY <1>1, <1>2, <1>3, <2>3 DEF Moves, Appending
  <2> QED
    BY <1>1, <2>4, <2>5, <2>6, MovesQuietly
<1>5. CASE BeginReplay(r)
  <2> DEFINE o == call[r].op
  <2>1. PICK place \in {"result", "threw"} :
          /\ Completed(o) /\ scope' \in {ops[o].snap, scope}
          /\ call' = [call EXCEPT ![r] = [call[r] EXCEPT !.at = place, !.ok = ops[o].ok,
                                                         !.try = ops[o].try]]
    BY <1>1, <1>5 DEF BeginReplay, Restored, TypeOK
  <2> DEFINE k == [call[r] EXCEPT !.at = place, !.ok = ops[o].ok, !.try = ops[o].try]
  <2>2. /\ k \in InProgress /\ k.at = place /\ k.op = o /\ k.c = call[r].c
        /\ k.ok = ops[o].ok /\ k.try = ops[o].try
    BY <1>3 DEF InProgress, Operations, Places
  <2> HIDE DEF k
  <2>3. call' = [call EXCEPT ![r] = k]
    BY <2>1 DEF k
  <2>4. /\ call' \in [Requests -> InProgress] /\ call'[r] = k
        /\ \A q \in Requests \ {r} : call'[q] = call[q]
    BY <1>1, <2>2, <2>3 DEF TypeOK
  <2>5. scope' \in Scopes /\ attempts' = attempts
    BY <1>1, <1>3, <1>5, <2>1 DEF TypeOK, Operations, BeginReplay, history
  <2>6. TypeOK'
    BY <1>1, <1>7, <2>4, <2>5 DEF TypeOK
  <2>7. CallExact(r)'
    BY <1>1, <1>3, <2>1, <2>2, <2>4 DEF CallExact, Completed, Known
  <2>8. Moves(r)
    BY <1>1, <1>2, <1>3, <2>1, <2>2, <2>4 DEF Moves, Appending
  <2> QED
    BY <1>1, <2>6, <2>7, <2>8, MovesQuietly
<1>6. CASE BeginExecute(r)
  <2> DEFINE o == call[r].op
  <2>1. PICK place \in {"executed", "policy"}, ok \in BOOLEAN :
          /\ place = "policy" => call[r].c[1] \notin {"look", "validate"}
          /\ call' = [call EXCEPT ![r] = [call[r] EXCEPT !.at = place, !.order = scope.order,
                                                         !.ok = ok, !.try = attempts[o] + 1]]
    <3> DEFINE counts == scope.control < MaxControl
               within == Within(call[r].c[1])
               first == ~counts \/ ~within \/ call[r].c[1] \in {"look", "validate"}
    <3>1. call' = [call EXCEPT ![r] = [call[r] EXCEPT !.at = IF first THEN "executed" ELSE "policy",
                                         !.order = scope.order, !.ok = (counts /\ within),
                                         !.try = attempts[o] + 1]]
      BY <1>1, <1>6 DEF BeginExecute, TypeOK
    <3>2. (counts /\ within) \in BOOLEAN
      OBVIOUS
    <3>3. ~first => call[r].c[1] \notin {"look", "validate"}
      OBVIOUS
    <3> HIDE DEF counts, within, first
    <3> QED
      BY <3>1, <3>2, <3>3
  <2>2. PICK v \in {0, 1}, e \in {0, 1}, n \in {0, 1} :
          scope' = [scope EXCEPT !.control = @ + 1, !.validations = @ + v, !.executions = @ + e,
                                 !.order = @ + n]
    <3> DEFINE used(t) == IF scope.control < MaxControl /\ call[r].c[1] = t THEN 1 ELSE 0
    <3>1. scope' = [scope EXCEPT !.control = @ + 1,
                               !.validations = @ + used("validate"),
                               !.executions = @ + used("execute"),
                               !.order = @ + (IF Within(call[r].c[1]) THEN used("route") ELSE 0)]
      BY <1>6 DEF BeginExecute
    <3>2. \A t : used(t) \in {0, 1}
      OBVIOUS
    <3> HIDE DEF used
    <3>3. (IF Within(call[r].c[1]) THEN used("route") ELSE 0) \in {0, 1}
      BY <3>2
    <3> QED
      BY <3>1, <3>2, <3>3
  <2>3. attempts[o] + 1 \in Nat /\ attempts' \in [Requests -> Nat]
    BY <1>1, <1>3, <1>6 DEF TypeOK, BeginExecute
  <2> DEFINE k == [call[r] EXCEPT !.at = place, !.order = scope.order, !.ok = ok,
                                  !.try = attempts[o] + 1]
  <2>4. k \in InProgress /\ k.at = place /\ k.op = o /\ k.c = call[r].c
    <3>1. scope.order \in Nat /\ place \in Places
      BY <1>1 DEF TypeOK, Scopes, Places
    <3> QED
      BY <1>3, <2>3, <3>1 DEF InProgress
  <2> HIDE DEF k
  <2>5. call' = [call EXCEPT ![r] = k]
    BY <2>1 DEF k
  <2>6. /\ call' \in [Requests -> InProgress] /\ call'[r] = k
        /\ \A q \in Requests \ {r} : call'[q] = call[q]
    BY <1>1, <2>4, <2>5 DEF TypeOK
  <2>7. scope' \in Scopes
    <3>1. /\ scope.control + 1 \in Nat /\ scope.validations + v \in Nat
          /\ scope.executions + e \in Nat /\ scope.order + n \in Nat /\ scope \in Scopes
      BY <1>1 DEF TypeOK, Scopes
    <3> QED
      BY <2>2, <3>1 DEF Scopes
  <2>8. TypeOK'
    BY <1>1, <1>7, <2>3, <2>6, <2>7 DEF TypeOK
  <2>9. CallExact(r)'
    <3>1. \E m \in Modes : call[r].c \in Calls[m] /\ call[r].c[1] \in Tools(m)
      BY <1>1, <1>3, CallAssumption DEF AllCalls
    <3>2. place = "policy" => call[r].c[1] \in {"route", "node", "execute"}
      BY <2>1, <3>1 DEF Tools
    <3> QED
      BY <1>1, <1>3, <2>4, <2>6, <3>2 DEF CallExact, Known
  <2>10. Moves(r)
    BY <1>1, <1>2, <1>3, <2>4, <2>6 DEF Moves, Appending
  <2> QED
    BY <1>1, <2>8, <2>9, <2>10, MovesQuietly
<1> QED
  BY <1>4, <1>5, <1>6

LEMMA RefusesCall ==
  ASSUME TypeOK, NEW r \in Requests, Refuses(r)
  PROVE  /\ call' \in [Requests -> InProgress]
         /\ \A q \in Requests \ {r} : call'[q] = call[q]
         /\ call'[r].at = "executed" /\ call'[r].c = call[r].c /\ call'[r].op = call[r].op
<1> DEFINE k == [call[r] EXCEPT !.at = "executed", !.ok = FALSE]
<1>1. call' = [call EXCEPT ![r] = k]
  BY DEF Refuses, TypeOK
<1>2. k \in InProgress /\ k.at = "executed" /\ k.c = call[r].c /\ k.op = call[r].op
  <2>1. call[r] \in InProgress /\ "executed" \in Places
    BY DEF TypeOK, Places
  <2> QED
    BY <2>1 DEF InProgress
<1> HIDE DEF k
<1> QED
  BY <1>1, <1>2 DEF TypeOK

(* A Node has run, or a program.                                            *)
LEMMA ReturnsCall ==
  ASSUME TypeOK, NEW r \in Requests, Returns(r)
  PROVE  /\ call' \in [Requests -> InProgress]
         /\ \A q \in Requests \ {r} : call'[q] = call[q]
         /\ call'[r].at = "executed" /\ call'[r].c = call[r].c /\ call'[r].op = call[r].op
         /\ scope' \in Scopes /\ scope'.routes = scope.routes
         /\ scope'.control = scope.control /\ scope'.queued = scope.queued
         /\ scope' = scope \/ scope' = [scope EXCEPT !.results = @ + 1]
<1>1. CASE Goes(r, "executed") /\ scope' = [scope EXCEPT !.results = @ + 1]
  <2>1. scope.results + 1 \in Nat /\ scope \in Scopes
    BY DEF TypeOK, Scopes
  <2>2. /\ scope' \in Scopes /\ scope'.routes = scope.routes
        /\ scope'.control = scope.control /\ scope'.queued = scope.queued
    BY <1>1, <2>1 DEF Scopes
  <2> QED
    BY <1>1, <2>2, GoesCall DEF Places
<1>2. CASE Refuses(r) /\ UNCHANGED scope
  BY <1>2, RefusesCall DEF TypeOK
<1> QED
  BY <1>1, <1>2 DEF Returns

(* The policy, a Node and an abort move a call without the journal.         *)
LEMMA RunsKeeps ==
  ASSUME Inv, NEW r \in Requests,
         Policy(r) \/ GeneratedCall(r) \/ GeneratedEnds(r) \/ ChildEnds(r) \/ CallAborted(r)
  PROVE  Inv'
<1>1. /\ TypeOK /\ call[r].at \in {"policy", "generated", "child", "waiting", "prepared"}
      /\ UNCHANGED <<mode, ops, delivered, final, told, phase, queue, aborted, resumes, overlapped,
                     attempts, asked, started>>
  BY DEF Inv, Policy, GeneratedCall, GeneratedEnds, ChildEnds, CallAborted, Execution, Listening,
         durable, history
<1>2. InCall(r) /\ call[r].at \notin Appending
  BY <1>1 DEF InCall, Appending
<1>3. /\ phase = "planning" /\ call[r].op \in Requests /\ call[r].c \in AllCalls
      /\ call[r] \in InProgress
  BY <1>2, WhoCallsPlans
<1>4. /\ scope.control \in Nat /\ scope.routes + 1 \in Nat /\ scope.results + 1 \in Nat
      /\ scope.routes + 0 \in Nat /\ scope.routes \in Nat /\ scope \in Scopes
      /\ children \in SUBSET Runs
  BY <1>1 DEF TypeOK, Scopes
<1>5. ASSUME NEW place \in {"executed", "child", "generated", "threw"},
             call' \in [Requests -> InProgress], \A q \in Requests \ {r} : call'[q] = call[q],
             call'[r].at = place, call'[r].c = call[r].c, call'[r].op = call[r].op,
             scope' \in Scopes, children' \in SUBSET Runs
      PROVE  Inv'
  <2>1. TypeOK'
    BY <1>1, <1>5 DEF TypeOK
  <2>2. CallExact(r)'
    BY <1>1, <1>3, <1>5 DEF Inv, CallExact, Known
  <2>3. Moves(r)
    BY <1>1, <1>2, <1>3, <1>5 DEF Moves, Appending
  <2> QED
    BY <1>1, <2>1, <2>2, <2>3, MovesQuietly
<1>6. ASSUME NEW place \in {"executed", "child", "generated", "threw"},
             Goes(r, place) \/ Ends(r, place) \/ (place = "executed" /\ Refuses(r)),
             scope' \in Scopes, children' \in SUBSET Runs
      PROVE  Inv'
  <2>1. place \in Places
    BY DEF Places
  <2> QED
    BY <1>1, <1>5, <1>6, <2>1, GoesCall, EndsCall, RefusesCall
<1>7. ASSUME Returns(r), UNCHANGED children PROVE Inv'
  <2>1. /\ call' \in [Requests -> InProgress] /\ \A q \in Requests \ {r} : call'[q] = call[q]
        /\ call'[r].at = "executed" /\ call'[r].c = call[r].c /\ call'[r].op = call[r].op
        /\ scope' \in Scopes
    BY <1>1, <1>7, ReturnsCall
  <2> QED
    BY <1>4, <1>5, <1>7, <2>1
<1>8. CASE Policy(r)
  <2>1. CASE Refuses(r) /\ UNCHANGED <<scope, children>>
    BY <1>4, <1>6, <2>1
  <2>2. CASE ~ (Refuses(r) /\ UNCHANGED <<scope, children>>)
    <3> DEFINE tool == call[r].c[1]
               place == CASE tool = "route" -> "executed" [] tool = "node" -> "child"
                          [] tool = "execute" -> "generated"
               n == IF tool \in {"route", "node"} THEN 1 ELSE 0
               number == IF tool = "node" THEN scope.routes + 1 ELSE 0
               new == IF tool = "route" THEN {[order |-> call[r].order, op |-> call[r].op]} ELSE {}
               run == IF tool = "route" THEN {} ELSE {<<PathNumber, call[r].op, number>>}
               k == [call[r] EXCEPT !.path = PathNumber, !.at = place]
    <3>1. /\ call' = [call EXCEPT ![r] = k]
          /\ scope' = [scope EXCEPT !.routes = @ + n, !.queued = @ \cup new]
          /\ children' = children \cup run
      BY <1>1, <1>8, <2>2 DEF Policy, TypeOK
    <3>2. n \in {0, 1} /\ new \in SUBSET Registered
      BY <1>3 DEF Registered, InProgress
    <3>3. scope' \in Scopes
      <4> HIDE DEF n, new, place, run, k
      <4> QED
        BY <1>4, <3>1, <3>2 DEF Scopes
    <3>4. run \in SUBSET Runs
      BY <1>3, <1>4 DEF Runs, PathNumber
    <3>5. tool \in {"route", "node", "execute"}
      BY <1>8 DEF Policy, Inv, CallExact
    <3>6. place \in {"executed", "child", "generated", "threw"} /\ place \in Places
      BY <3>5 DEF Places
    <3>7. PathNumber \in Nat
      BY <1>4 DEF PathNumber
    <3> HIDE DEF place, tool, n, new, run, number
    <3>8. k \in InProgress /\ k.at = place /\ k.c = call[r].c /\ k.op = call[r].op
      BY <1>3, <3>6, <3>7 DEF InProgress
    <3> HIDE DEF k
    <3>9. /\ call' \in [Requests -> InProgress] /\ call'[r] = k
          /\ \A q \in Requests \ {r} : call'[q] = call[q]
      BY <1>1, <3>1, <3>8 DEF TypeOK
    <3>10. children' \in SUBSET Runs
      BY <1>4, <3>1, <3>4
    <3> QED
      BY <1>5, <3>3, <3>6, <3>8, <3>9, <3>10
  <2> QED
    BY <2>1, <2>2
<1>9. CASE GeneratedCall(r)
  <2>1. CASE Refuses(r) /\ UNCHANGED <<scope, children>>
    BY <1>4, <1>6, <2>1
  <2>2. CASE ~ (Refuses(r) /\ UNCHANGED <<scope, children>>)
    <3>1. PICK nodes \in 1..(MaxRoutes + 1) :
            /\ scope' = [scope EXCEPT !.routes = @ + nodes] /\ Goes(r, "child")
            /\ children' = children \cup {<<call[r].path, call[r].op, n>> :
                                            n \in (scope.routes + 1)..(scope.routes + nodes)}
      BY <1>9, <2>2 DEF GeneratedCall
    <3>2. scope.routes + nodes \in Nat
      BY <1>4, <3>1, LimitAssumption
    <3>3. scope' \in Scopes
      BY <1>4, <3>1, <3>2 DEF Scopes
    <3>4. \A n \in (scope.routes + 1)..(scope.routes + nodes) : n \in Nat
      BY <1>4, <3>2
    <3>5. \A n \in (scope.routes + 1)..(scope.routes + nodes) :
            <<call[r].path, call[r].op, n>> \in Runs
      BY <1>3, <3>4 DEF Runs, InProgress
    <3>6. children' \in SUBSET Runs
      BY <1>4, <3>1, <3>5
    <3> QED
      BY <1>6, <3>1, <3>3, <3>6
  <2> QED
    BY <2>1, <2>2
<1>10. CASE ChildEnds(r)
  <2>1. children' = children
    BY <1>10 DEF ChildEnds, history
  <2>2. CASE Returns(r)
    BY <1>7, <2>1, <2>2
  <2>3. CASE (Goes(r, "generated") \/ Refuses(r)) /\ UNCHANGED scope
    BY <1>4, <1>6, <2>1, <2>3
  <2> QED
    BY <1>10, <2>2, <2>3 DEF ChildEnds
<1>11. CASE CallAborted(r)
  <2>1. Ends(r, "threw") /\ scope' = scope /\ children' = children
    BY <1>11 DEF CallAborted, Throws, history
  <2> QED
    BY <1>4, <1>6, <2>1
<1>12. CASE GeneratedEnds(r)
  <2>1. children' = children /\ Returns(r)
    BY <1>12 DEF GeneratedEnds, history
  <2> QED
    BY <1>7, <2>1
<1> QED
  BY <1>8, <1>9, <1>10, <1>11, <1>12

(* A call goes to wait for an append, or on without one.                    *)
LEMMA WaitsKeeps ==
  ASSUME Inv, NEW r \in Requests, InCall(r), call[r].at \notin Appending,
         UNCHANGED <<mode, ops, delivered, final, phase, aborted, resumes, overlapped,
                     attempts, children, asked, started>>,
         scope' \in Scopes, told' \in SUBSET (Requests \X (Nat \X BOOLEAN)),
         call' \in [Requests -> InProgress], \A q \in Requests \ {r} : call'[q] = call[q],
         call'[r].op = call[r].op, call'[r].c = call[r].c,
         \/ queue' = queue /\ call'[r].at \in Places \ (Appending \cup {"policy", "prepared", "result"})
         \/ \E kind \in Kinds \ {"prepare"} : /\ Enqueues(kind, r, call[r].op)
                                              /\ call'[r].at = PlaceOf(kind)
  PROVE  Inv'
<1>1. phase = "planning" /\ call[r].op \in Requests /\ call[r].c \in AllCalls /\ TypeOK
  BY WhoCallsPlans DEF Inv
<1>2. queue' \in Seq(Entries)
  <2>1. CASE queue' = queue
    BY <1>1, <2>1 DEF TypeOK
  <2>2. ASSUME NEW kind \in Kinds \ {"prepare"}, Enqueues(kind, r, call[r].op)
        PROVE  queue' \in Seq(Entries)
    BY <1>1, <2>2, EnqueuesEntry
  <2> QED
    BY <2>1, <2>2
<1>3. TypeOK'
  BY <1>1, <1>2 DEF TypeOK
<1>4. call'[r].at \notin {"policy", "prepared", "preparing", "result"}
  BY DEF PlaceOf, Kinds, Appending
<1>5. CallExact(r)'
  BY <1>1, <1>4 DEF Inv, CallExact, Known, InCall, Appending
<1>6. Moves(r)
  BY <1>1 DEF Moves
<1> QED
  BY <1>3, <1>5, <1>6, MovesQuietly

LEMMA RecordKeeps == ASSUME Inv, NEW r \in Requests, Record(r) PROVE Inv'
<1>1. /\ TypeOK /\ call[r].at = "executed"
      /\ UNCHANGED <<mode, ops, delivered, final, told, phase, scope, aborted, resumes, overlapped,
                     attempts, children, asked, started>>
  BY DEF Inv, Record, durable, history
<1>2. InCall(r) /\ call[r].at \notin Appending
  BY <1>1 DEF InCall, Appending
<1>3. scope' \in Scopes /\ told' \in SUBSET (Requests \X (Nat \X BOOLEAN))
  BY <1>1 DEF TypeOK
<1>4. CASE Throws(r) /\ UNCHANGED queue
  <2>1. "threw" \in Places \ (Appending \cup {"policy", "prepared", "result"})
    BY DEF Places, Appending
  <2> QED
    BY <1>1, <1>2, <1>3, <1>4, <2>1, EndsCall, WaitsKeeps DEF Throws
<1>5. CASE /\ call' = [call EXCEPT ![r] = [@ EXCEPT !.at = "recording", !.snap = freedomSnapshot]]
           /\ Enqueues("complete", r, call[r].op)
  <2> DEFINE k == [call[r] EXCEPT !.at = "recording", !.snap = scope]
  <2>1. call' = [call EXCEPT ![r] = k]
    BY <1>1, <1>5 DEF freedomSnapshot, TypeOK
  <2>2. k \in InProgress /\ k.at = "recording" /\ k.op = call[r].op /\ k.c = call[r].c
    <3>1. call[r] \in InProgress /\ scope \in Scopes /\ "recording" \in Places
      BY <1>1 DEF TypeOK, Places
    <3> QED
      BY <3>1 DEF InProgress
  <2> HIDE DEF k
  <2>3. /\ call' \in [Requests -> InProgress] /\ call'[r] = k
        /\ \A q \in Requests \ {r} : call'[q] = call[q]
    BY <1>1, <2>1, <2>2 DEF TypeOK
  <2>4. "complete" \in Kinds \ {"prepare"} /\ PlaceOf("complete") = "recording"
    BY DEF Kinds, PlaceOf
  <2> QED
    BY <1>1, <1>2, <1>3, <1>5, <2>2, <2>3, <2>4, WaitsKeeps
<1> QED
  BY <1>4, <1>5 DEF Record

(* The answer in the journal is the one that the planner gets.              *)
LEMMA AskFoundKeeps == ASSUME Inv, NEW r \in Requests, AskFound(r) PROVE Inv'
<1>1. /\ TypeOK /\ call[r].at = "found"
      /\ UNCHANGED <<mode, ops, delivered, final, told, phase, scope, aborted, resumes, overlapped,
                     attempts, children, asked, started>>
  BY DEF Inv, AskFound, durable, history
<1>2. InCall(r) /\ call[r].at \notin Appending
  BY <1>1 DEF InCall, Appending
<1>3. /\ phase = "planning" /\ call[r].op \in Requests /\ call[r].c \in AllCalls
      /\ call[r] \in InProgress /\ ops[call[r].op] \in Operations
  BY <1>2, WhoCallsPlans
<1>4. CASE Completed(call[r].op)
  <2> DEFINE o == call[r].op
             k == [call[r] EXCEPT !.at = "result", !.ok = ops[o].ok, !.try = ops[o].try]
  <2>1. call' = [call EXCEPT ![r] = k] /\ UNCHANGED queue
    BY <1>1, <1>4 DEF AskFound, TypeOK
  <2>2. /\ k \in InProgress /\ k.at = "result" /\ k.op = o /\ k.c = call[r].c
        /\ k.ok = ops[o].ok /\ k.try = ops[o].try
    <3>1. "result" \in Places
      BY DEF Places
    <3> QED
      BY <1>3, <3>1 DEF InProgress, Operations
  <2> HIDE DEF k
  <2>3. /\ call' \in [Requests -> InProgress] /\ call'[r] = k
        /\ \A q \in Requests \ {r} : call'[q] = call[q]
    BY <1>1, <2>1, <2>2 DEF TypeOK
  <2>4. TypeOK'
    BY <1>1, <2>1, <2>3 DEF TypeOK
  <2>5. CallExact(r)'
    BY <1>1, <1>3, <1>4, <2>2, <2>3 DEF CallExact, Completed, Known
  <2>6. Moves(r)
    BY <1>1, <1>2, <1>3, <2>1, <2>2, <2>3 DEF Moves, Appending
  <2> QED
    BY <1>1, <2>4, <2>5, <2>6, MovesQuietly
<1>5. CASE ~Completed(call[r].op)
  <2>1. Goes(r, "marking") /\ Enqueues("ambiguous", r, call[r].op)
    BY <1>5 DEF AskFound
  <2>2. "ambiguous" \in Kinds \ {"prepare"} /\ PlaceOf("ambiguous") = "marking"
        /\ "marking" \in Places
    BY DEF Kinds, PlaceOf, Places
  <2>3. scope' \in Scopes /\ told' \in SUBSET (Requests \X (Nat \X BOOLEAN))
    BY <1>1 DEF TypeOK
  <2> QED
    BY <1>1, <1>2, <2>1, <2>2, <2>3, GoesCall, WaitsKeeps
<1> QED
  BY <1>4, <1>5

(* The human is asked: by this process, and by no other one.                *)
LEMMA PresentKeeps == ASSUME Inv, NEW r \in Requests, Present(r) PROVE Inv'
<1>1. /\ TypeOK /\ call[r].at = "prepared" /\ IsAsk(call[r].c)
      /\ attempts' = [attempts EXCEPT ![call[r].op] = @ + 1]
      /\ call' = [call EXCEPT ![r] = [@ EXCEPT !.at = "asking", !.ok = TRUE,
                                              !.try = attempts[call[r].op] + 1]]
      /\ asked' = [asked EXCEPT ![call[r].c] = @ \cup {resumes}]
      /\ UNCHANGED <<mode, ops, delivered, final, told, phase, scope, queue, aborted, resumes,
                     overlapped, children, started>>
  BY DEF Inv, Present, durable
<1>2. InCall(r) /\ call[r].at \notin Appending
  BY <1>1 DEF InCall, Appending
<1>3. /\ phase = "planning" /\ call[r].op \in Requests /\ call[r].c \in AllCalls
      /\ call[r] \in InProgress
  BY <1>2, WhoCallsPlans
<1>4. attempts[call[r].op] + 1 \in Nat /\ attempts' \in [Requests -> Nat]
  BY <1>1, <1>3 DEF TypeOK
<1> DEFINE k == [call[r] EXCEPT !.at = "asking", !.ok = TRUE, !.try = attempts[call[r].op] + 1]
<1>5. call' = [call EXCEPT ![r] = k]
  BY <1>1 DEF TypeOK
<1>6. k \in InProgress /\ k.at = "asking" /\ k.op = call[r].op /\ k.c = call[r].c
  <2>1. "asking" \in Places
    BY DEF Places
  <2> QED
    BY <1>3, <1>4, <2>1 DEF InProgress
<1> HIDE DEF k
<1>7. /\ call' \in [Requests -> InProgress] /\ call'[r] = k
      /\ \A q \in Requests \ {r} : call'[q] = call[q]
  BY <1>1, <1>5, <1>6 DEF TypeOK
<1>8. /\ asked' \in [AllCalls -> SUBSET Nat]
      /\ asked'[call[r].c] = asked[call[r].c] \cup {resumes}
      /\ \A c \in AllCalls : c # call[r].c => asked'[c] = asked[c]
  BY <1>1, <1>3 DEF TypeOK
<1>9. TypeOK'
  BY <1>1, <1>4, <1>7, <1>8 DEF TypeOK
<1>10. CallExact(r)'
  BY <1>1, <1>3, <1>6, <1>7 DEF Inv, CallExact, Known
<1>11. Moves(r)
  BY <1>1, <1>2, <1>3, <1>6, <1>7, <1>8 DEF Moves, Appending
<1>12. AskedExact'
  <2>1. /\ asked[call[r].c] \subseteq {resumes}
        /\ call[r].op \in Known /\ ops[call[r].op].c = call[r].c
    BY <1>1 DEF Inv, CallExact
  <2> QED
    BY <1>1, <1>8, <2>1 DEF Inv, AskedExact, Known
<1> QED
  BY <1>9, <1>10, <1>11, <1>12, MovesKeeps

LEMMA AnsweredKeeps ==
  ASSUME Inv, NEW r \in Requests, Answered(r) \/ AskFails(r)
  PROVE  Inv'
<1>1. /\ TypeOK /\ call[r].at = "asking"
      /\ UNCHANGED <<mode, ops, delivered, final, told, phase, scope, aborted, resumes, overlapped,
                     attempts, children, asked, started>>
  BY DEF Inv, Answered, AskFails, durable, history
<1>2. InCall(r) /\ call[r].at \notin Appending
  BY <1>1 DEF InCall, Appending
<1>3. scope' \in Scopes /\ told' \in SUBSET (Requests \X (Nat \X BOOLEAN))
  BY <1>1 DEF TypeOK
<1>4. CASE Answered(r)
  <2>1. PICK ok \in BOOLEAN :
          call' = [call EXCEPT ![r] = [call[r] EXCEPT !.at = "recording", !.ok = ok]]
    BY <1>1, <1>4 DEF Answered, TypeOK
  <2> DEFINE k == [call[r] EXCEPT !.at = "recording", !.ok = ok]
  <2>2. k \in InProgress /\ k.at = "recording" /\ k.op = call[r].op /\ k.c = call[r].c
    <3>1. call[r] \in InProgress /\ "recording" \in Places
      BY <1>1 DEF TypeOK, Places
    <3> QED
      BY <3>1 DEF InProgress
  <2> HIDE DEF k
  <2>3. /\ call' \in [Requests -> InProgress] /\ call'[r] = k
        /\ \A q \in Requests \ {r} : call'[q] = call[q]
    BY <1>1, <2>1, <2>2 DEF TypeOK, k
  <2>4. "complete" \in Kinds \ {"prepare"} /\ PlaceOf("complete") = "recording"
    BY DEF Kinds, PlaceOf
  <2>5. Enqueues("complete", r, call[r].op)
    BY <1>4 DEF Answered
  <2> QED
    BY <1>1, <1>2, <1>3, <2>2, <2>3, <2>4, <2>5, WaitsKeeps
<1>5. CASE AskFails(r)
  <2>1. Goes(r, "marking") /\ Enqueues("ambiguous", r, call[r].op)
    BY <1>5 DEF AskFails
  <2>2. "ambiguous" \in Kinds \ {"prepare"} /\ PlaceOf("ambiguous") = "marking"
        /\ "marking" \in Places
    BY DEF Kinds, PlaceOf, Places
  <2> QED
    BY <1>1, <1>2, <1>3, <2>1, <2>2, GoesCall, WaitsKeeps
<1> QED
  BY <1>4, <1>5

LEMMA IncorporateKeeps == ASSUME Inv, NEW r \in Requests, Incorporate(r) PROVE Inv'
<1>1. /\ TypeOK /\ call[r].at = "result"
      /\ told' = told \cup {<<call[r].op, <<call[r].try, call[r].ok>>>>}
      /\ Ends(r, "done") \/ Ends(r, "told")
      /\ UNCHANGED <<mode, ops, delivered, final, phase, scope, queue, aborted, resumes, overlapped,
                     attempts, children, asked, started>>
  BY DEF Inv, Incorporate, durable, history
<1>2. InCall(r) /\ call[r].at \notin Appending
  BY <1>1 DEF InCall, Appending
<1>3. call[r].op \in Requests /\ call[r] \in InProgress
  BY <1>2, WhoCallsPlans
<1>4. scope' \in Scopes /\ told' \in SUBSET (Requests \X (Nat \X BOOLEAN))
  BY <1>1, <1>3 DEF TypeOK, InProgress
<1>5. {"done", "told"} \subseteq Places \ (Appending \cup {"policy", "prepared", "result"})
  BY DEF Places, Appending
<1> QED
  BY <1>1, <1>2, <1>4, <1>5, EndsCall, WaitsKeeps

(* Results are delivered in the order of their indexes.                     *)
LEMMA CompleteKeeps ==
  ASSUME Inv, NEW r \in Requests, Complete(r) \/ Woken(r)
  PROVE  Inv'
<1>1. /\ TypeOK /\ call[r].at \in {"told", "waiting"}
      /\ UNCHANGED <<mode, ops, delivered, final, told, phase, aborted, resumes, overlapped,
                     attempts, children, asked, started>>
  BY DEF Inv, Complete, Woken, durable, history
<1>2. InCall(r) /\ call[r].at \notin Appending
  BY <1>1 DEF InCall, Appending
<1>3. /\ call[r].op \in Requests /\ call[r] \in InProgress /\ ops[call[r].op] \in Operations
  BY <1>2, WhoCallsPlans
<1>4. told' \in SUBSET (Requests \X (Nat \X BOOLEAN)) /\ scope \in Scopes
  BY <1>1 DEF TypeOK
<1>5. {"threw", "waiting"} \subseteq Places \ (Appending \cup {"policy", "prepared", "result"})
      /\ "delivering" \in Places
  BY DEF Places, Appending
<1>6. CASE Throws(r) /\ UNCHANGED <<scope, queue>>
  BY <1>1, <1>2, <1>4, <1>5, <1>6, EndsCall, WaitsKeeps DEF Throws
<1>7. CASE WaitsFor(r)
  <2> DEFINE k == [call[r] EXCEPT !.at = "waiting", !.waits = delivered + 1]
  <2>1. call' = [call EXCEPT ![r] = k] /\ UNCHANGED <<scope, queue>>
    BY <1>1, <1>7 DEF WaitsFor, TypeOK
  <2>2. k \in InProgress /\ k.at = "waiting" /\ k.op = call[r].op /\ k.c = call[r].c
    <3>1. delivered + 1 \in Nat /\ "waiting" \in Places
      BY <1>1, <1>5 DEF TypeOK
    <3> QED
      BY <1>3, <3>1 DEF InProgress
  <2> HIDE DEF k
  <2>3. /\ call' \in [Requests -> InProgress] /\ call'[r] = k
        /\ \A q \in Requests \ {r} : call'[q] = call[q]
    BY <1>1, <2>1, <2>2 DEF TypeOK
  <2> QED
    BY <1>1, <1>2, <1>4, <1>5, <2>1, <2>2, <2>3, WaitsKeeps
<1>8. CASE /\ scope' = Restored(ops[call[r].op].snap) /\ Goes(r, "delivering")
           /\ Enqueues("progress", r, call[r].op)
  <2>1. scope' \in Scopes
    BY <1>3, <1>8 DEF Restored, Operations
  <2>2. "progress" \in Kinds \ {"prepare"} /\ PlaceOf("progress") = "delivering"
    BY DEF Kinds, PlaceOf
  <2> QED
    BY <1>1, <1>2, <1>4, <1>5, <1>8, <2>1, <2>2, GoesCall, WaitsKeeps
<1> QED
  BY <1>6, <1>7, <1>8 DEF Complete, Woken, Delivers

-----------------------------------------------------------------------------
(* An operation that is marked keeps everything but its status.             *)
LEMMA MarkTyped ==
  ASSUME TypeOK, NEW o \in Requests,
         ops' = [ops EXCEPT ![o].status = IF @ = "completed" THEN @ ELSE "ambiguous"]
  PROVE  /\ ops' \in [Requests -> Operations]
         /\ \A p \in Requests \ {o} : ops'[p] = ops[p]
         /\ ops'[o].status = IF Completed(o) THEN "completed" ELSE "ambiguous"
         /\ ops'[o].c = ops[o].c /\ ops'[o].index = ops[o].index
         /\ (Completed(o) => ops'[o] = ops[o])
<1> DEFINE status == IF ops[o].status = "completed" THEN ops[o].status ELSE "ambiguous"
           k == [ops[o] EXCEPT !.status = status]
<1>1. ops' = [ops EXCEPT ![o] = k]
  BY DEF TypeOK
<1>2. ops[o] \in Operations
  BY DEF TypeOK
<1>3. status \in {"none", "prepared", "completed", "ambiguous"}
  BY <1>2 DEF Operations
<1>4. k \in Operations /\ k.status = status /\ k.c = ops[o].c /\ k.index = ops[o].index
  BY <1>2, <1>3 DEF Operations
<1>5. ops[o].status = "completed" => k = ops[o]
  BY <1>2 DEF Operations
<1> HIDE DEF k
<1>6. /\ ops' \in [Requests -> Operations] /\ ops'[o] = k
      /\ \A p \in Requests \ {o} : ops'[p] = ops[p]
  BY <1>1, <1>4 DEF TypeOK
<1> QED
  BY <1>4, <1>5, <1>6 DEF Completed

(* Nothing of a process survives in its memory.                             *)
LEMMA DownKeeps ==
  ASSUME Inv, Down, phase' \in {"down", "launched", "failed"},
         UNCHANGED <<mode, delivered, final, told, resumes, overlapped, attempts, children, asked>>,
         started' \in SUBSET (SUBSET Registered),
         \/ UNCHANGED ops
         \/ /\ final = None
            /\ \E o \in Known : ops' = [ops EXCEPT ![o].status = IF @ = "completed" THEN @
                                                                 ELSE "ambiguous"]
  PROVE  Inv'
<1>1. /\ scope' = emptyScope /\ call' = [r \in Requests |-> noCall] /\ queue' = <<>>
      /\ aborted' = FALSE
  BY DEF Down
<1>2. /\ ops' \in [Requests -> Operations] /\ Known' = Known
      /\ \A o \in Requests : ops'[o].c = ops[o].c
  <2>1. CASE UNCHANGED ops
    BY <2>1 DEF Inv, TypeOK, Known
  <2>2. ASSUME NEW o \in Known,
               ops' = [ops EXCEPT ![o].status = IF @ = "completed" THEN @ ELSE "ambiguous"]
        PROVE  /\ ops' \in [Requests -> Operations] /\ Known' = Known
               /\ \A p \in Requests : ops'[p].c = ops[p].c
    <3>1. o \in Requests /\ ops[o].status # "none" /\ TypeOK
      BY DEF Known, Inv
    <3>2. /\ ops' \in [Requests -> Operations]
          /\ \A p \in Requests \ {o} : ops'[p] = ops[p]
          /\ ops'[o].status = IF Completed(o) THEN "completed" ELSE "ambiguous"
          /\ ops'[o].c = ops[o].c /\ (Completed(o) => ops'[o] = ops[o])
      BY ONLY <2>2, <3>1, MarkTyped
    <3> QED
      BY <3>1, <3>2 DEF Known
  <2> QED
    BY <2>1, <2>2
<1>3. /\ scope' \in Scopes /\ call' \in [Requests -> InProgress] /\ queue' \in Seq(Entries)
      /\ \A r \in Requests : call'[r].at = "idle"
      /\ Members(queue') = {} /\ NoRepeats(queue')
  BY <1>1, EmptyTyped, EmptyQueue DEF noCall
<1>4. TypeOK'
  BY <1>1, <1>2, <1>3 DEF Inv, TypeOK
<1>5. \A r \in Requests : CallExact(r)' /\ ~InCall(r)'
  BY <1>3 DEF CallExact, InCall
<1>6. QueueExact'
  BY <1>3 DEF QueueExact
<1>7. final' # None => Unsettled' = {}
  BY DEF Inv, PhaseExact, Unsettled, Known, Controls, Completed
<1>8. PhaseExact'
  BY <1>1, <1>5, <1>7 DEF PhaseExact
<1>9. AskedExact'
  BY <1>2 DEF Inv, AskedExact, Known
<1> QED
  BY <1>4, <1>5, <1>6, <1>8, <1>9 DEF Inv

LEMMA EndingsKeep ==
  ASSUME Inv, Launch \/ PlannerRefused \/ Fail \/ Stop
  PROVE  Inv'
<1>1. CASE Launch
  <2>1. started' \in SUBSET (SUBSET Registered)
    <3>1. scope.queued \in SUBSET Registered /\ started \in SUBSET (SUBSET Registered)
      BY DEF Inv, TypeOK, Scopes
    <3> QED
      BY <1>1, <3>1 DEF Launch
  <2> QED
    BY <1>1, <2>1, DownKeeps DEF Launch, durable
<1>2. CASE PlannerRefused
  <2>1. \A o \in Unsettled : o \in Known
    BY DEF Unsettled
  <2>2. final = None /\ started \in SUBSET (SUBSET Registered)
    BY <1>2 DEF PlannerRefused, Inv, PhaseExact, TypeOK
  <2> QED
    BY <1>2, <2>1, <2>2, DownKeeps DEF PlannerRefused, history
<1>3. CASE Fail \/ Stop
  <2>1. started \in SUBSET (SUBSET Registered)
    BY DEF Inv, TypeOK
  <2> QED
    BY <1>3, <2>1, DownKeeps DEF Fail, Stop, durable, history
<1> QED
  BY <1>1, <1>2, <1>3

LEMMA PlannerReturnsKeeps == ASSUME Inv, PlannerReturns PROVE Inv'
<1>1. /\ phase = "planning" /\ queue = <<>> /\ (\A r \in Requests : ~InCall(r)) /\ Unsettled = {}
      /\ phase' = "returned" /\ Enqueues("planner", 0, 0)
      /\ UNCHANGED <<mode, ops, delivered, final, told, scope, call, aborted, resumes, overlapped,
                     attempts, children, asked, started>>
  BY DEF PlannerReturns, Settled, durable, history
<1>2. Members(queue) = {} /\ NoRepeats(queue) /\ TypeOK
  BY <1>1, EmptyQueue DEF Inv
<1>3. /\ queue' \in Seq(Entries) /\ Members(queue') = {PlannerEntry} /\ NoRepeats(queue')
  BY <1>1, <1>2, EnqueuesEntry DEF PlannerEntry
<1>4. TypeOK'
  BY <1>1, <1>2, <1>3 DEF TypeOK
<1>5. (\A r \in Requests : CallExact(r)') /\ AskedExact'
  BY <1>1 DEF Inv, CallExact, AskedExact, Known, Completed
<1>6. QueueExact'
  BY <1>3 DEF QueueExact, PlannerEntry
<1>7. PhaseExact'
  BY <1>1, <1>3 DEF PhaseExact, Inv, InCall, Unsettled, Known, Controls, Completed
<1> QED
  BY <1>4, <1>5, <1>6, <1>7 DEF Inv

(* Nothing happens, or the activation is aborted.                           *)
LEMMA StillKeeps ==
  ASSUME Inv, aborted' \in BOOLEAN,
         UNCHANGED <<mode, ops, delivered, final, told, phase, scope, call, queue, resumes,
                     overlapped, attempts, children, asked, started>>
  PROVE  Inv'
<1>1. TypeOK'
  BY DEF Inv, TypeOK
<1>2. Known' = Known /\ (\A o : Completed(o)' <=> Completed(o)) /\ Unsettled' = Unsettled
  BY DEF Known, Completed, Controls, Unsettled
<1>3. \A r \in Requests : CallExact(r)'
  BY <1>2 DEF Inv, CallExact
<1>4. QueueExact' /\ AskedExact'
  BY <1>2 DEF Inv, QueueExact, AskedExact
<1>5. PhaseExact'
  BY <1>2 DEF Inv, PhaseExact, InCall
<1> QED
  BY <1>1, <1>3, <1>4, <1>5 DEF Inv

(* Another process starts with nothing in progress.                         *)
LEMMA ResumeKeeps == ASSUME Inv, Resume PROVE Inv'
<1>1. /\ phase = "down" /\ resumes' = resumes + 1
      /\ UNCHANGED <<mode, ops, delivered, final, told, call, queue, aborted, overlapped,
                     attempts, children, asked, started>>
  BY DEF Resume, durable, history
<1>2. queue = <<>> /\ (\A r \in Requests : ~InCall(r)) /\ Members(queue) = {} /\ TypeOK
  BY <1>1, EmptyQueue DEF Inv, PhaseExact
<1>3. scope' \in Scopes /\ phase' \in {"planned", "planning", "failed"}
      /\ (phase' = "planning" => final = None)
  <2>1. CASE final # None /\ scope' = Restored(final) /\ phase' = "planned"
    BY <1>2, <2>1 DEF Restored, TypeOK
  <2>2. CASE /\ final = None /\ Acceptable /\ phase' = "planning"
             /\ scope' = IF delivered = 0 THEN emptyScope
                         ELSE Restored(ops[CHOOSE o \in Delivered(delivered) : TRUE].snap)
    <3>1. CASE delivered = 0
      BY <2>2, <3>1, EmptyTyped
    <3>2. CASE delivered # 0
      <4>1. delivered \in 1..delivered
        BY <1>2, <3>2 DEF TypeOK
      <4>2. Delivered(delivered) # {}
        BY <2>2, <3>2, <4>1 DEF Acceptable
      <4>3. (CHOOSE o \in Delivered(delivered) : TRUE) \in Requests
        BY <4>2 DEF Delivered, Controls, Known
      <4> QED
        BY <1>2, <2>2, <3>2, <4>3 DEF Restored, TypeOK, Operations
    <3> QED
      BY <2>2, <3>1, <3>2
  <2>3. CASE phase' = "failed" /\ UNCHANGED scope
    BY <1>2, <2>3 DEF TypeOK
  <2> QED
    BY <2>1, <2>2, <2>3 DEF Resume
<1>4. TypeOK'
  BY <1>1, <1>2, <1>3 DEF TypeOK
<1>5. \A r \in Requests : CallExact(r)'
  BY <1>1, <1>2 DEF Inv, CallExact, InCall, Known, Completed
<1>6. QueueExact' /\ AskedExact'
  BY <1>1 DEF Inv, QueueExact, AskedExact, Known
<1>7. PhaseExact'
  BY <1>1, <1>2, <1>3 DEF PhaseExact, Inv, InCall, Unsettled, Known, Controls, Completed
<1> QED
  BY <1>4, <1>5, <1>6, <1>7 DEF Inv

-----------------------------------------------------------------------------
\* What the call knows whose append has reached the disk, and what it may do.
Lands(w) ==
  /\ phase = "planning" /\ final = None /\ TypeOK
  /\ w.req \in Requests /\ w.op = call[w.req].op /\ call[w.req].at = PlaceOf(w.kind)
  /\ w.op \in Requests /\ call[w.req].c \in AllCalls
  /\ \A q \in Requests \ {w.req} : call'[q] = call[q]
  /\ queue' \in Seq(Entries) /\ NoRepeats(queue')
  /\ Members(queue') \subseteq Members(queue)
  /\ \A v \in Members(queue') : v.req # w.req

LEMMA LandsKeeps ==
  ASSUME Inv, NEW w \in Members(queue), Lands(w),
         UNCHANGED <<mode, final, told, phase, scope, aborted, resumes, overlapped,
                     attempts, children, asked, started>>,
         delivered' \in Nat, ops' \in [Requests -> Operations],
         call' \in [Requests -> InProgress], CallExact(w.req)',
         \A o \in Requests \ {w.op} : ops'[o] = ops[o],
         Completed(w.op) => ops'[w.op] = ops[w.op],
         w.op \in Known => w.op \in Known' /\ ops'[w.op].c = ops[w.op].c,
         w.op \notin Known => call[w.req].at = "preparing"
  PROVE  Inv'
<1>1. TypeOK'
  BY DEF Lands, TypeOK
<1>2. ASSUME NEW q \in Requests \ {w.req} PROVE CallExact(q)'
  <2>1. call'[q] = call[q] /\ CallExact(q) /\ UNCHANGED <<asked, resumes>> /\ CallExact(w.req)
    BY DEF Inv, Lands
  <2>2. \A o \in Known : o \in Known' /\ ops'[o].c = ops[o].c
    BY DEF Known
  <2>3. \A o \in Requests : Completed(o) => ops'[o] = ops[o]
    OBVIOUS
  <2>4. call[q].at = "preparing" => q \notin Known'
    <3>1. call[q].at = "preparing" => q \notin Known
      BY <2>1 DEF CallExact
    <3>2. w.op = q => w.op \in Known \/ w.op = w.req
      BY <2>1 DEF CallExact, Lands
    <3> QED
      BY <3>1, <3>2 DEF Known
  <2>5. call[q].at = "result" => call[q].op \in Requests /\ Completed(call[q].op)
    BY <2>1 DEF CallExact
  <2> QED
    BY <2>1, <2>2, <2>3, <2>4, <2>5 DEF CallExact, Completed
<1>3. QueueExact'
  BY DEF Lands, QueueExact, Inv
<1>4. PhaseExact'
  BY DEF Lands, PhaseExact, Inv
<1>5. AskedExact'
  <2>1. \A o \in Known : o \in Known' /\ ops'[o].c = ops[o].c
    BY DEF Known
  <2> QED
    BY <2>1 DEF AskedExact, Inv
<1> QED
  BY <1>1, <1>2, <1>3, <1>4, <1>5 DEF Inv

LEMMA AppendKeepsInv == ASSUME Inv, Append1 PROVE Inv'
<1> SUFFICES ASSUME NEW w, w = Head(queue) PROVE Inv'
  OBVIOUS
<1> DEFINE r == w.req
           o == w.op
<1>1. /\ queue # <<>> /\ queue' = Tail(queue) /\ TypeOK /\ queue \in Seq(Entries)
      /\ NoRepeats(queue)
  BY DEF Append1, Inv, TypeOK, QueueExact
<1>2. /\ w \in Entries /\ w \in Members(queue) /\ Members(queue) \subseteq Entries
      /\ queue' \in Seq(Entries) /\ NoRepeats(queue')
      /\ Members(queue) = Members(queue') \cup {w} /\ w \notin Members(queue')
  BY <1>1, TailKeeps, MembersType
<1>3. /\ UNCHANGED <<mode, told, scope, aborted, resumes, overlapped,
                     attempts, children, asked, started>>
      /\ \/ w.kind = "prepare" /\ Prepared(r, o)
         \/ w.kind = "complete" /\ Done(r, o)
         \/ w.kind = "ambiguous" /\ Marked(r, o)
         \/ w.kind = "progress" /\ Progress(r, o)
         \/ w.kind = "planner" /\ Planned
  BY DEF Append1, history
<1>4. phase \in {"planning", "returned"}
  BY <1>1 DEF Inv, PhaseExact
<1>5. CASE phase = "returned"
  <2>1. w = PlannerEntry /\ Members(queue') = {} /\ Unsettled = {}
    BY <1>2, <1>5 DEF Inv, PhaseExact
  <2>2. Planned /\ queue' = <<>>
    BY <1>2, <1>3, <2>1, MembersType DEF PlannerEntry
  <2>3. final' = scope /\ phase' = "planned" /\ UNCHANGED <<ops, delivered, call>>
    BY <2>2 DEF Planned
  <2>4. TypeOK'
    BY <1>1, <1>2, <1>3, <2>3 DEF TypeOK
  <2>5. (\A q \in Requests : CallExact(q)') /\ AskedExact'
    BY <1>3, <2>3 DEF Inv, CallExact, AskedExact, Known, Completed
  <2>6. QueueExact' /\ PhaseExact'
    BY <1>2, <1>5, <2>1, <2>2, <2>3
       DEF QueueExact, Inv, PhaseExact, InCall, Unsettled, Known, Controls, Completed
  <2> QED
    BY <2>4, <2>5, <2>6 DEF Inv
<1>6. CASE phase = "planning"
  <2>1. w.kind \in Kinds
    BY <1>2, <1>6 DEF Inv, PhaseExact, Entries
  <2>2. r \in Requests /\ o = call[r].op /\ call[r].at = PlaceOf(w.kind)
    BY <1>2, <2>1 DEF Inv, QueueExact, Kinds
  <2>3. call[r].at \in Appending
    BY <2>1, <2>2 DEF PlaceOf, Kinds, Appending
  <2>4. /\ o \in Requests /\ call[r].c \in AllCalls /\ call[r] \in InProgress
        /\ ops[o] \in Operations /\ (o \in Known \/ call[r].at = "preparing")
    BY <1>1, <2>2, <2>3 DEF Inv, CallExact, Appending, TypeOK
  <2>5. \A v \in Members(queue') : v.req # r
    <3> SUFFICES ASSUME NEW v \in Members(queue'), v.req = r PROVE FALSE
      OBVIOUS
    <3>1. v \in Entries /\ v # w /\ v \in Members(queue)
      BY <1>2
    <3>2. v.kind \in Kinds
      BY <1>6, <3>1 DEF Inv, PhaseExact, Entries
    <3>3. v.op = o /\ PlaceOf(v.kind) = PlaceOf(w.kind)
      BY <2>2, <3>1, <3>2 DEF Inv, QueueExact, Kinds
    <3>4. v.kind = w.kind
      BY <2>1, <3>2, <3>3 DEF PlaceOf, Kinds
    <3> QED
      BY <1>2, <3>1, <3>3, <3>4 DEF Entries
  <2>6. ASSUME \A q \in Requests \ {r} : call'[q] = call[q] PROVE Lands(w)
    BY <1>1, <1>2, <1>6, <2>2, <2>4, <2>5, <2>6 DEF Lands, Inv, PhaseExact
  <2> HIDE DEF r, o
  <2>7. CASE w.kind = "prepare" /\ Prepared(r, o)
    <3> DEFINE k == [call[r] EXCEPT !.at = "prepared", !.index = 0]
               new == [noOp EXCEPT !.status = "prepared", !.c = call[r].c, !.index = call[r].index]
    <3>1. /\ ops' = [ops EXCEPT ![o] = new] /\ call' = [call EXCEPT ![r] = k]
          /\ UNCHANGED <<delivered, final, phase>>
      BY <1>1, <2>7 DEF Prepared, TypeOK
    <3>2. k \in InProgress /\ k.at = "prepared" /\ k.op = call[r].op /\ k.c = call[r].c
      <4>1. "prepared" \in Places /\ 0 \in Nat
        BY DEF Places
      <4> QED
        BY <2>4, <4>1 DEF InProgress
    <3>3. new \in Operations /\ new.status = "prepared" /\ new.c = call[r].c
      BY <2>4, EmptyTyped DEF Operations, InProgress
    <3> HIDE DEF k, new
    <3>4. /\ call' \in [Requests -> InProgress] /\ call'[r] = k
          /\ \A q \in Requests \ {r} : call'[q] = call[q]
          /\ ops' \in [Requests -> Operations] /\ ops'[o] = new
          /\ \A p \in Requests \ {o} : ops'[p] = ops[p]
      BY <1>1, <2>2, <2>4, <3>1, <3>2, <3>3 DEF TypeOK
    <3>5. call[r].at = "preparing"
      BY <2>2, <2>7 DEF PlaceOf
    <3>6. o \notin Known /\ ~Completed(o) /\ (IsAsk(call[r].c) => asked[call[r].c] \subseteq {resumes})
      BY <2>2, <3>5 DEF Inv, CallExact, Known, Completed
    <3>7. CallExact(r)'
      BY <1>3, <2>2, <2>4, <3>2, <3>3, <3>4, <3>6 DEF CallExact, Known
    <3> QED
      BY <1>2, <1>3, <2>6, <3>1, <3>4, <3>5, <3>6, <3>7, LandsKeeps DEF r, o, TypeOK, Lands
  <2>8. CASE w.kind = "complete" /\ Done(r, o)
    <3>1. call[r].at = "recording" /\ o \in Known
      BY <2>2, <2>4, <2>8 DEF PlaceOf
    <3>2. UNCHANGED <<delivered, final, phase>>
      BY <2>8 DEF Done
    <3>3. CASE ops[o].status = "prepared"
      <4> DEFINE k == [call[r] EXCEPT !.at = "result", !.snap = emptyScope]
                 new == [ops[o] EXCEPT !.status = "completed", !.ok = call[r].ok,
                                       !.try = call[r].try, !.snap = call[r].snap]
      <4>1. ops' = [ops EXCEPT ![o] = new] /\ call' = [call EXCEPT ![r] = k]
        BY <1>1, <2>8, <3>3 DEF Done, TypeOK
      <4>2. /\ k \in InProgress /\ k.at = "result" /\ k.op = call[r].op /\ k.c = call[r].c
            /\ k.ok = call[r].ok /\ k.try = call[r].try
        <5>1. "result" \in Places
          BY DEF Places
        <5> QED
          BY <2>4, <5>1, EmptyTyped DEF InProgress
      <4>3. /\ new \in Operations /\ new.status = "completed" /\ new.c = ops[o].c
            /\ new.ok = call[r].ok /\ new.try = call[r].try
        BY <2>4 DEF Operations, InProgress
      <4> HIDE DEF k, new
      <4>4. /\ call' \in [Requests -> InProgress] /\ call'[r] = k
            /\ \A q \in Requests \ {r} : call'[q] = call[q]
            /\ ops' \in [Requests -> Operations] /\ ops'[o] = new
            /\ \A p \in Requests \ {o} : ops'[p] = ops[p]
        BY <1>1, <2>2, <2>4, <4>1, <4>2, <4>3 DEF TypeOK
      <4>5. ~Completed(o) /\ o \in Known'
        BY <2>4, <3>3, <4>3, <4>4 DEF Completed, Known
      <4>6. CallExact(r)'
        BY <2>2, <2>4, <4>2, <4>3, <4>4, <4>5 DEF CallExact, Completed
      <4> QED
        BY <1>2, <1>3, <2>6, <3>1, <3>2, <4>3, <4>4, <4>5, <4>6, LandsKeeps DEF r, o, TypeOK, Lands
    <3>4. CASE ops[o].status # "prepared"
      <4>1. UNCHANGED ops /\ Ends(r, "threw")
        BY <2>8, <3>4 DEF Done, Throws
      <4>2. /\ call' \in [Requests -> InProgress] /\ call'[r].at = "threw"
            /\ \A q \in Requests \ {r} : call'[q] = call[q]
        BY <1>1, <2>2, <4>1, EndsCall DEF Places
      <4>3. CallExact(r)'
        BY <4>2 DEF CallExact
      <4>4. Known' = Known /\ ops' \in [Requests -> Operations]
        BY <1>1, <4>1 DEF Known, TypeOK
      <4> QED
        BY <1>2, <1>3, <2>6, <3>1, <3>2, <4>1, <4>2, <4>3, <4>4, LandsKeeps DEF r, o, TypeOK, Lands
    <3> QED
      BY <3>3, <3>4
  <2>9. CASE w.kind = "ambiguous" /\ Marked(r, o)
    <3>1. call[r].at = "marking" /\ o \in Known
      BY <2>2, <2>4, <2>9 DEF PlaceOf
    <3>2. /\ ops' = [ops EXCEPT ![o].status = IF @ = "completed" THEN @ ELSE "ambiguous"]
          /\ Ends(r, "threw") /\ UNCHANGED <<delivered, final, phase>>
      BY <2>9 DEF Marked, Throws
    <3>3. /\ call' \in [Requests -> InProgress] /\ call'[r].at = "threw"
          /\ \A q \in Requests \ {r} : call'[q] = call[q]
      BY <1>1, <2>2, <3>2, EndsCall DEF Places
    <3>4. /\ ops' \in [Requests -> Operations]
          /\ \A p \in Requests \ {o} : ops'[p] = ops[p]
          /\ ops'[o].status = IF Completed(o) THEN "completed" ELSE "ambiguous"
          /\ ops'[o].c = ops[o].c /\ (Completed(o) => ops'[o] = ops[o])
      BY <1>1, <2>4, <3>2, MarkTyped
    <3>5. o \in Known'
      BY <2>4, <3>4 DEF Known
    <3>6. CallExact(r)'
      BY <3>3 DEF CallExact
    <3> QED
      BY <1>2, <1>3, <2>6, <3>1, <3>2, <3>3, <3>4, <3>5, <3>6, LandsKeeps DEF r, o, TypeOK, Lands
  <2>10. CASE w.kind = "progress" /\ Progress(r, o)
    <3>1. call[r].at = "delivering" /\ o \in Known
      BY <2>2, <2>4, <2>10 DEF PlaceOf
    <3>2. delivered' = ops[o].index /\ Ends(r, "done") /\ UNCHANGED <<ops, final, phase>>
      BY <2>10 DEF Progress
    <3>3. /\ call' \in [Requests -> InProgress] /\ call'[r].at = "done"
          /\ call'[r].op = call[r].op /\ call'[r].c = call[r].c
          /\ \A q \in Requests \ {r} : call'[q] = call[q]
      BY <1>1, <2>2, <3>2, EndsCall DEF Places
    <3>4. Known' = Known /\ ops' \in [Requests -> Operations] /\ delivered' \in Nat
      BY <1>1, <2>4, <3>2 DEF Known, TypeOK, Operations
    <3>5. CallExact(r)'
      BY <2>2, <2>4, <3>1, <3>3, <3>4 DEF CallExact
    <3> QED
      BY <1>2, <1>3, <2>6, <3>1, <3>2, <3>3, <3>4, <3>5, LandsKeeps DEF r, o, TypeOK, Lands
  <2> QED
    BY <1>3, <2>1, <2>7, <2>8, <2>9, <2>10 DEF r, o, Kinds
<1> QED
  BY <1>4, <1>5, <1>6

-----------------------------------------------------------------------------
LEMMA InitInv == Init => Inv
<1> SUFFICES ASSUME Init PROVE Inv
  OBVIOUS
<1>1. Known = {} /\ queue = <<>> /\ Members(queue) = {} /\ NoRepeats(queue)
  BY EmptyQueue DEF Init, Known, noOp
<1>2. \A r \in Requests : call[r] = noCall /\ call[r].at = "idle"
  BY DEF Init, noCall
<1>3. TypeOK
  BY EmptyTyped, EmptyQueue DEF Init, TypeOK
<1>4. (\A r \in Requests : CallExact(r)) /\ QueueExact
  BY <1>1, <1>2 DEF CallExact, QueueExact
<1>5. PhaseExact /\ AskedExact
  BY <1>1 DEF Init, PhaseExact, AskedExact
<1> QED
  BY <1>3, <1>4, <1>5 DEF Inv

LEMMA NextInv == Inv /\ [Next]_vars => Inv'
<1> SUFFICES ASSUME Inv, [Next]_vars PROVE Inv'
  OBVIOUS
<1>1. ASSUME NEW r \in Requests, Issue(r) PROVE Inv'
  BY <1>1, ControlIssueKeeps, AskIssueKeeps DEF Issue
<1>2. ASSUME NEW r \in Requests, Proceed(r) PROVE Inv'
  BY <1>2, BeginKeeps, RunsKeeps, RecordKeeps, AskFoundKeeps, PresentKeeps, AnsweredKeeps,
     IncorporateKeeps, CompleteKeeps DEF Proceed
<1>3. CASE Append1 \/ PlannerReturns \/ Resume
  BY <1>3, AppendKeepsInv, PlannerReturnsKeeps, ResumeKeeps
<1>4. CASE Launch \/ PlannerRefused \/ Fail \/ Stop
  BY <1>4, EndingsKeep
<1>5. CASE Abort \/ UNCHANGED vars
  <2>1. aborted' \in BOOLEAN
    BY <1>5 DEF Inv, TypeOK, Abort, vars
  <2> QED
    BY <1>5, <2>1, StillKeeps DEF Abort, vars, durable, history
<1> QED
  BY <1>1, <1>2, <1>3, <1>4, <1>5 DEF Next

(* The model is well typed, whatever its bounds.                            *)
THEOREM TypeCorrect == Spec => []TypeOK
<1>1. Inv => TypeOK
  BY DEF Inv
<1> QED
  BY <1>1, InitInv, NextInv, PTL DEF Spec

(* No planner completes over an operation without a delivered result, and a *)
(* question is put to the human by one process.                             *)
THEOREM PlannerSettles == Spec => []NothingUnsettled
<1>1. Inv => NothingUnsettled
  <2> SUFFICES ASSUME Inv PROVE NothingUnsettled
    OBVIOUS
  <2>1. ASSUME final # None, NEW o \in Known
        PROVE  Completed(o) /\ (o \in Controls => ops[o].index <= delivered)
    <3>1. o \notin Unsettled
      BY <2>1 DEF Inv, PhaseExact
    <3>2. ops[o].index \in Nat /\ delivered \in Nat
      BY DEF Inv, TypeOK, Known, Operations
    <3> QED
      BY <3>1, <3>2 DEF Unsettled
  <2>2. ASSUME NEW c \in AllCalls
        PROVE  Cardinality(asked[c]) <= 1
    <3>1. CASE asked[c] = {}
      BY <3>1, FS_EmptySet
    <3>2. CASE asked[c] # {}
      <4>1. PICK p : asked[c] = {p}
        BY <3>2 DEF Inv, AskedExact
      <4>2. Cardinality({p}) = 1
        BY FS_Singleton
      <4> QED
        BY <4>1, <4>2
    <3> QED
      BY <3>1, <3>2
  <2> QED
    BY <2>1, <2>2 DEF NothingUnsettled
<1> QED
  BY <1>1, InitInv, NextInv, PTL DEF Spec

-----------------------------------------------------------------------------
\* The answer of an operation, as AnswerOnce sees it.
AnswerOf(o) == IF Completed(o) THEN <<ops[o].try, ops[o].ok>> ELSE None

(* A step that gives no operation a result gives none another one.          *)
LEMMA SameAnswers ==
  ASSUME UNCHANGED told,
         \A o \in Requests : ops'[o] = ops[o] \/ (~Completed(o) /\ ~Completed(o)')
  PROVE  UNCHANGED <<[o \in Requests |-> AnswerOf(o)], told>>
BY DEF AnswerOf, Completed

(* The first result of an operation is its answer.                          *)
LEMMA DoneDecides ==
  ASSUME Inv, Append1
  PROVE  \/ UNCHANGED <<[o \in Requests |-> AnswerOf(o)], told>>
         \/ \E o \in Requests : Answers!Decide(o) /\ UNCHANGED told
<1> SUFFICES ASSUME NEW w, w = Head(queue)
             PROVE  \/ UNCHANGED <<[o \in Requests |-> AnswerOf(o)], told>>
                    \/ \E o \in Requests : Answers!Decide(o) /\ UNCHANGED told
  OBVIOUS
<1>1. /\ w \in Members(queue) /\ w \in Entries /\ TypeOK /\ told' = told
  BY TailKeeps, MembersType DEF Inv, TypeOK, Append1
<1>2. w.kind # "planner" => /\ w.req \in Requests /\ w.op = call[w.req].op
                            /\ call[w.req].at = PlaceOf(w.kind)
  BY <1>1 DEF Inv, QueueExact
<1>3. CASE w.kind = "prepare" /\ Prepared(w.req, w.op)
  <2>1. call[w.req].at = "preparing"
    BY <1>2, <1>3 DEF PlaceOf
  <2>2. w.op \in Requests /\ ~Completed(w.op)
    BY <1>2, <1>3, <2>1 DEF Inv, CallExact, Known, Completed
  <2>3. /\ ~Completed(w.op)' /\ \A o \in Requests \ {w.op} : ops'[o] = ops[o]
    BY <1>1, <1>3, <2>2 DEF Prepared, noOp, Completed, TypeOK
  <2> QED
    BY <1>1, <2>2, <2>3, SameAnswers
<1>4. CASE w.kind = "complete" /\ Done(w.req, w.op)
  <2>1. call[w.req].at = "recording"
    BY <1>2, <1>4 DEF PlaceOf
  <2>2. w.op \in Requests /\ call[w.req] \in InProgress
    BY <1>1, <1>2, <1>4, <2>1 DEF Inv, CallExact, TypeOK
  <2>3. CASE UNCHANGED ops
    BY <1>1, <2>3, SameAnswers
  <2>4. CASE ops[w.op].status = "prepared" /\ ~UNCHANGED ops
    <3> DEFINE k == call[w.req]
               new == [ops[w.op] EXCEPT !.status = "completed", !.ok = k.ok, !.try = k.try,
                                        !.snap = k.snap]
    <3>1. ops' = [ops EXCEPT ![w.op] = new]
      BY <1>1, <1>4, <2>2, <2>4 DEF Done, TypeOK
    <3>2. new.status = "completed" /\ new.ok = k.ok /\ new.try = k.try
      BY <1>1, <2>2 DEF TypeOK, Operations
    <3> HIDE DEF new
    <3>3. /\ ~Completed(w.op) /\ Completed(w.op)'
          /\ ops'[w.op].try = k.try /\ ops'[w.op].ok = k.ok
          /\ \A o \in Requests \ {w.op} : ops'[o] = ops[o]
      BY <1>1, <2>2, <2>4, <3>1, <3>2 DEF Completed, TypeOK
    <3>4. AnswerOf(w.op) = None /\ AnswerOf(w.op)' = <<k.try, k.ok>>
      BY <3>3 DEF AnswerOf
    <3>5. \A o \in Requests \ {w.op} : AnswerOf(o)' = AnswerOf(o)
      BY <3>3 DEF AnswerOf, Completed
    <3>6. <<k.try, k.ok>> \in Nat \X BOOLEAN
      BY <2>2 DEF InProgress
    <3> HIDE DEF k
    <3>7. Answers!Decide(w.op)
      BY <2>2, <3>4, <3>5, <3>6 DEF Answers!Decide, AnswerOf
    <3> QED
      BY <1>1, <2>2, <3>7
  <2> QED
    BY <1>4, <2>3, <2>4 DEF Done
<1>5. CASE w.kind = "ambiguous" /\ Marked(w.req, w.op)
  <2>1. call[w.req].at = "marking"
    BY <1>2, <1>5 DEF PlaceOf
  <2>2. w.op \in Requests
    BY <1>2, <1>5, <2>1 DEF Inv, CallExact
  <2>3. /\ \A p \in Requests \ {w.op} : ops'[p] = ops[p]
        /\ ops'[w.op].status = IF Completed(w.op) THEN "completed" ELSE "ambiguous"
        /\ (Completed(w.op) => ops'[w.op] = ops[w.op])
    BY <1>1, <1>5, <2>2, MarkTyped DEF Marked
  <2> QED
    BY <1>1, <2>2, <2>3, SameAnswers DEF Completed
<1>6. CASE UNCHANGED ops
  BY <1>1, <1>6, SameAnswers
<1> QED
  BY <1>3, <1>4, <1>5, <1>6 DEF Append1, Progress, Planned

(* The planner is told the answer of the journal.                           *)
LEMMA IncorporateTells ==
  ASSUME Inv, NEW r \in Requests, Incorporate(r)
  PROVE  \E o \in Requests : /\ UNCHANGED [p \in Requests |-> AnswerOf(p)]
                             /\ Answers!Tell(o)
<1>1. /\ call[r].at = "result" /\ ops' = ops
      /\ told' = told \cup {<<call[r].op, <<call[r].try, call[r].ok>>>>}
  BY DEF Incorporate, durable
<1> DEFINE o == call[r].op
<1>2. /\ o \in Requests /\ Completed(o) /\ ops[o].try = call[r].try /\ ops[o].ok = call[r].ok
      /\ call[r] \in InProgress
  BY <1>1 DEF Inv, CallExact, TypeOK
<1>4. <<call[r].try, call[r].ok>> # None
  BY <1>2, NoneAssumption DEF InProgress
<1>5. UNCHANGED [p \in Requests |-> AnswerOf(p)]
  BY <1>1 DEF AnswerOf, Completed
<1>6. PICK p \in Requests : p = o
  BY <1>2
<1>7. AnswerOf(p)' = <<call[r].try, call[r].ok>>
  BY <1>1, <1>2, <1>6 DEF AnswerOf, Completed
<1>8. Answers!Tell(p)
  BY <1>1, <1>4, <1>6, <1>7 DEF Answers!Tell, AnswerOf
<1> QED
  BY <1>5, <1>8

(* Every operation has one answer, and the planner is told nothing else,    *)
(* in the first process or in another one.                                  *)
THEOREM OneAnswer == Spec => AnsweredOnce
<1>1. Init => Answers!Init
  BY DEF Init, Answers!Init, Completed, noOp
<1>2. Inv /\ [Next]_vars =>
        [Answers!Next]_<<[o \in Requests |-> IF Completed(o) THEN <<ops[o].try, ops[o].ok>>
                                             ELSE None], told>>
  <2> SUFFICES ASSUME Inv, [Next]_vars
               PROVE  \/ UNCHANGED <<[o \in Requests |-> AnswerOf(o)], told>>
                      \/ Answers!Next
    BY DEF AnswerOf
  <2>1. CASE Append1
    BY <2>1, DoneDecides DEF Answers!Next
  <2>2. ASSUME NEW r \in Requests, Incorporate(r) PROVE Answers!Next
    <3>1. PICK o \in Requests : /\ UNCHANGED [p \in Requests |-> AnswerOf(p)]
                                /\ Answers!Tell(o)
      BY <2>2, IncorporateTells
    <3> QED
      BY <3>1 DEF Answers!Next, AnswerOf
  <2>3. CASE PlannerRefused
    <3>1. PICK o \in Unsettled :
            ops' = [ops EXCEPT ![o].status = IF @ = "completed" THEN @ ELSE "ambiguous"]
      BY <2>3 DEF PlannerRefused
    <3>2. o \in Requests /\ TypeOK /\ told' = told
      BY <2>3 DEF Unsettled, Known, Inv, PlannerRefused
    <3>3. /\ \A p \in Requests \ {o} : ops'[p] = ops[p]
          /\ ops'[o].status = IF Completed(o) THEN "completed" ELSE "ambiguous"
          /\ (Completed(o) => ops'[o] = ops[o])
      BY <3>1, <3>2, MarkTyped
    <3> QED
      BY <3>2, <3>3, SameAnswers DEF Completed
  <2>4. CASE UNCHANGED <<ops, told>>
    BY <2>4, SameAnswers
  <2>5. ASSUME NEW r \in Requests, Issue(r) PROVE UNCHANGED <<ops, told>>
    BY <2>5 DEF Issue, CallAgain, CallRebound, CallUnmatched, CallNew, AskAgain, AskBlocked,
                AskNew, durable
  <2>6. ASSUME NEW r \in Requests, Proceed(r), ~Incorporate(r) PROVE UNCHANGED <<ops, told>>
    BY <2>6 DEF Proceed, BeginAmbiguous, BeginReplay, BeginExecute, Policy, GeneratedCall,
                GeneratedEnds, ChildEnds, CallAborted, Record, AskFound, Present, Answered, AskFails, Complete,
                Woken, durable
  <2>7. CASE PlannerReturns \/ Launch \/ Fail \/ Abort \/ Stop \/ Resume \/ UNCHANGED vars
    BY <2>4, <2>7 DEF PlannerReturns, Launch, Fail, Abort, Stop, Resume, vars, durable
  <2> QED
    BY <2>1, <2>2, <2>3, <2>4, <2>5, <2>6, <2>7 DEF Next
<1> QED
  BY <1>1, <1>2, InitInv, NextInv, PTL DEF Spec, AnsweredOnce, Answers!Spec

-----------------------------------------------------------------------------
(* Calls that came one after the other.  The scope after k deliveries is    *)
(* the snapshot of the operation with index k, and everything else is       *)
(* stated by it: what the call in flight has done to it, what a snapshot    *)
(* holds, and what was decided for a Node that has been run.                *)

\* A control call in progress.
Flight(r) == InCall(r) /\ ~IsAsk(call[r].c)

AfterDelivery(k, s) == IF k = 0 THEN s = emptyScope
                                ELSE \E o \in Delivered(k) : s = ops[o].snap
QueuedOps(s) == {q.op : q \in s.queued}
\* The operations that have registered a route, and what each of them has spent of
\* max_routes: the numbers of its Nodes, or 0 for the route it has registered.
IsRoute(o) == Completed(o) /\ ops[o].c[1] = "route" /\ ops[o].ok
RouteOps(k) == {o \in Controls : ops[o].index <= k /\ IsRoute(o)}
Ran(o) == {p[3] : p \in {q \in children : q[2] = o /\ q[3] > 0}}
Uses(o) == IF IsRoute(o) THEN {0} ELSE Ran(o)
Counted(k) == {x \in Requests \X (0..MaxRoutes) :
                 x[1] \in Controls /\ ops[x[1]].index <= k /\ x[2] \in Uses(x[1])}

\* What a call leaves of a scope.
Leaves(o, c, ok, nodes, s, t) ==
  LET registers == c[1] = "route" /\ ok
  IN  /\ t.control = s.control + 1 /\ s.routes <= t.routes
      /\ QueuedOps(t) = QueuedOps(s) \cup {p \in {o} : registers}
      /\ registers => s.routes < t.routes
      /\ \A n \in nodes : n <= t.routes

\* A question and a control call do not share an operation.
KindExact(r) ==
  /\ call[r].at = "idle" => call[r].op = 0
  /\ phase = "down" => call[r].at = "idle"
  /\ call[r].at \notin {"idle", "threw", "preparing", "done"} =>
       /\ ops[call[r].op].c[1] = call[r].c[1]
       /\ ~IsAsk(call[r].c) => ops[call[r].op].c = call[r].c
  /\ call[r].at \in {"found", "asking", "marking"} => IsAsk(call[r].c)
  /\ call[r].at \in {"policy", "generated", "child", "executed", "told", "waiting", "delivering"}
       => ~IsAsk(call[r].c)

ToldExact == \A t \in told : /\ t[1] \in Known /\ Completed(t[1])
                             /\ t[2] = <<ops[t[1]].try, ops[t[1]].ok>>

IndexExact ==
  \A o \in Controls :
    /\ ops[o].index \in 1..(delivered + 1)
    /\ \A p \in Controls : ops[o].index = ops[p].index => o = p
    /\ ops[o].index <= delivered => Completed(o) /\ <<o, <<ops[o].try, ops[o].ok>>>> \in told

SnapsExact ==
  \A o \in Controls : Completed(o) =>
    /\ ops[o].snap.control = ops[o].index
    /\ QueuedOps(ops[o].snap) = RouteOps(ops[o].index)
    /\ IsFiniteSet(Counted(ops[o].index))
    /\ Cardinality(Counted(ops[o].index)) <= ops[o].snap.routes

\* Every Node was run for a control call, under its index, and in its last execution
\* with the numbers that follow the routes of the scope before it.
NodesExact ==
  \A p \in children :
    /\ p[2] \in Controls /\ p[1] = ops[p[2]].index
    /\ ops[p[2]].c[1] \in {"node", "execute"} /\ p[3] \in 0..MaxRoutes
    /\ p[3] # 0 => \A s \in Scopes : AfterDelivery(p[1] - 1, s) => s.routes < p[3]

\* The call in flight, from the scope s before it.
FlightExact(r) ==
  LET at == call[r].at
      o  == call[r].op
      c  == call[r].c
  IN  /\ at = "preparing" =>
           /\ call[r].index = delivered + 1
           /\ \A p \in Controls : ops[p].index <= delivered
      /\ at # "preparing" => o \in Controls
      /\ at \notin {"preparing", "prepared"} => ops[o].index = delivered + 1
      /\ at \in {"preparing", "prepared"} => call[r].seen = delivered
      /\ at \in {"policy", "generated", "child", "executed", "recording"} =>
           ops[o].status = "prepared"
      /\ at \in {"result", "told", "delivering"} => Completed(o)
      /\ at \in {"told", "delivering"} => <<o, <<ops[o].try, ops[o].ok>>>> \in told
      /\ at = "delivering" => scope = ops[o].snap
      /\ at # "waiting"
      /\ at = "policy" => Ran(o) = {}
      /\ at = "generated" => c[1] = "execute"
      /\ at = "child" => c[1] \in {"node", "execute"}
      /\ at \in {"generated", "child"} => call[r].path = delivered + 1
      /\ \A s \in Scopes : AfterDelivery(delivered, s) =>
           /\ at = "policy" => call[r].ok /\ scope.routes = s.routes
           /\ at \in {"policy", "generated", "child"} =>
                Leaves(o, <<"node">>, FALSE, Ran(o), s, scope)
           /\ at = "executed" => Leaves(o, c, call[r].ok, Ran(o), s, scope)
           /\ at = "recording" => Leaves(o, c, call[r].ok, Ran(o), s, call[r].snap)

\* No operation that the planner has still to be told of.
Behind(o) == o \in Asks \cup {0} \/ (o \in Controls /\ ops[o].index <= delivered)

\* Between two calls the scope is that of the last delivery, unless the
\* activation is being aborted, and no call has given up an operation of which
\* the planner has still to be told.
BetweenExact ==
  /\ \/ phase = "returned"
     \/ phase = "planning" /\ ~aborted
        /\ \A r \in Requests : Flight(r) => call[r].at \in {"preparing", "prepared"}
     => AfterDelivery(delivered, scope)
  /\ phase = "planning" /\ ~aborted =>
       \A r \in Requests : call[r].at = "threw" => Behind(call[r].op)

\* What a planner has left is the scope of the last delivery.
FinalExact ==
  /\ final # None => AfterDelivery(delivered, final)
  /\ phase = "planned" => final # None /\ scope = final
  /\ phase = "returned" => final = None
  /\ started # {} => final # None
  /\ \A routes \in started : routes = final.queued

OneAfterTheOther ==
  /\ \A r, q \in Requests : Flight(r) /\ Flight(q) => r = q
  /\ IndexExact /\ SnapsExact /\ NodesExact
  /\ \A r \in Requests : Flight(r) => FlightExact(r)
  /\ \A k \in 1..delivered : Delivered(k) # {}
  /\ BetweenExact /\ FinalExact

CallsInv == /\ (\A r \in Requests : KindExact(r)) /\ ToldExact
            /\ Regular => OneAfterTheOther

-----------------------------------------------------------------------------
LEMMA ControlsTyped ==
  ASSUME Inv, NEW o \in Controls
  PROVE  /\ o \in Requests /\ o \in Known /\ ops[o] \in Operations /\ ops[o].index \in Nat
         /\ ops[o].snap \in Scopes /\ ~IsAsk(ops[o].c)
         /\ delivered \in Nat /\ 0 \notin Requests
<1>1. o \in Requests /\ o \in Known /\ ~IsAsk(ops[o].c)
  BY DEF Controls, Known
<1>2. ops[o] \in Operations /\ delivered \in Nat
  BY <1>1 DEF Inv, TypeOK
<1> QED
  BY <1>1, <1>2, CallAssumption DEF Operations

(* The scope of a delivery is one, and there is one.                        *)
LEMMA AfterUnique ==
  ASSUME IndexExact, NEW k, NEW s, NEW t, AfterDelivery(k, s), AfterDelivery(k, t)
  PROVE  s = t
<1>1. CASE k = 0
  BY <1>1 DEF AfterDelivery
<1>2. CASE k # 0
  <2>1. PICK o \in Delivered(k) : s = ops[o].snap
    BY <1>2 DEF AfterDelivery
  <2>2. PICK p \in Delivered(k) : t = ops[p].snap
    BY <1>2 DEF AfterDelivery
  <2>3. o = p
    BY <2>1, <2>2 DEF Delivered, IndexExact
  <2> QED
    BY <2>1, <2>2, <2>3
<1> QED
  BY <1>1, <1>2

LEMMA AfterExists ==
  ASSUME Inv, NEW k \in 0..delivered, \A j \in 1..delivered : Delivered(j) # {}
  PROVE  \E s \in Scopes : AfterDelivery(k, s)
<1>1. CASE k = 0
  BY <1>1, EmptyTyped DEF AfterDelivery
<1>2. CASE k # 0
  <2>1. k \in 1..delivered
    BY <1>2 DEF Inv, TypeOK
  <2>2. PICK o \in Delivered(k) : TRUE
    BY <2>1
  <2>3. ops[o].snap \in Scopes
    BY <2>2, ControlsTyped DEF Delivered
  <2> QED
    BY <1>2, <2>2, <2>3 DEF AfterDelivery
<1> QED
  BY <1>1, <1>2

LEMMA AfterExact ==
  ASSUME Inv, IndexExact, SnapsExact, NEW k \in Nat, NEW s, AfterDelivery(k, s)
  PROVE  /\ s \in Scopes /\ s.control = k /\ QueuedOps(s) = RouteOps(k)
         /\ IsFiniteSet(Counted(k)) /\ Cardinality(Counted(k)) <= s.routes
         /\ s = emptyScope \/ \E o \in Controls : Completed(o) /\ s = ops[o].snap
<1>1. CASE k = 0
  <2>1. s = emptyScope
    BY <1>1 DEF AfterDelivery
  <2>2. \A o \in Controls : ~(ops[o].index <= 0)
    <3> SUFFICES ASSUME NEW o \in Controls PROVE ~(ops[o].index <= 0)
      OBVIOUS
    <3>1. ops[o].index \in 1..(delivered + 1) /\ delivered \in Nat
      BY ControlsTyped DEF IndexExact
    <3> QED
      BY <3>1
  <2>3. Counted(0) = {} /\ RouteOps(0) = {}
    BY <2>2 DEF Counted, RouteOps
  <2>4. s.control = 0 /\ s.routes = 0 /\ QueuedOps(s) = {}
    BY <2>1 DEF emptyScope, QueuedOps
  <2> QED
    BY <1>1, <2>1, <2>3, <2>4, EmptyTyped, FS_EmptySet
<1>2. CASE k # 0
  <2>1. PICK o \in Delivered(k) : s = ops[o].snap
    BY <1>2 DEF AfterDelivery
  <2>2. o \in Controls /\ Completed(o) /\ ops[o].index = k
    BY DEF Delivered
  <2> QED
    BY <2>1, <2>2, ControlsTyped DEF SnapsExact
<1> QED
  BY <1>1, <1>2

(* What is stated by the operations alone.                                  *)
LEMMA SameOps ==
  ASSUME UNCHANGED ops
  PROVE  /\ Known' = Known /\ Controls' = Controls /\ Asks' = Asks
         /\ \A o : Completed(o)' <=> Completed(o)
         /\ \A o : IsRoute(o)' <=> IsRoute(o)
         /\ \A k : Delivered(k)' = Delivered(k)
         /\ \A k, s : AfterDelivery(k, s)' <=> AfterDelivery(k, s)
         /\ \A k : RouteOps(k)' = RouteOps(k)
<1>1. Known' = Known /\ \A o : Completed(o)' <=> Completed(o)
  BY DEF Known, Completed
<1>2. Controls' = Controls /\ \A o : IsRoute(o)' <=> IsRoute(o)
  BY <1>1 DEF Controls, IsRoute
<1>3. \A k : Delivered(k)' = Delivered(k) /\ RouteOps(k)' = RouteOps(k)
  BY <1>1, <1>2 DEF Delivered, RouteOps
<1> QED
  BY <1>1, <1>2, <1>3 DEF AfterDelivery, Asks

(* A step that leaves the operations and the Nodes leaves what they say.    *)
LEMMA SameRecords ==
  ASSUME Inv, UNCHANGED <<ops, delivered, children>>, told \subseteq told'
  PROVE  /\ IndexExact => IndexExact'
         /\ SnapsExact => SnapsExact'
         /\ NodesExact => NodesExact'
         /\ \A k : Counted(k)' = Counted(k)
<1>1. /\ Controls' = Controls
      /\ \A o : Completed(o)' <=> Completed(o)
      /\ \A o : IsRoute(o)' <=> IsRoute(o)
      /\ \A k, s : AfterDelivery(k, s)' <=> AfterDelivery(k, s)
      /\ \A k : RouteOps(k)' = RouteOps(k)
  BY SameOps
<1>2. \A k : Counted(k)' = Counted(k)
  BY <1>1 DEF Counted, Uses, Ran
<1>3. IndexExact => IndexExact'
  BY <1>1 DEF IndexExact
<1>4. SnapsExact => SnapsExact'
  BY <1>1, <1>2 DEF SnapsExact, QueuedOps
<1>5. NodesExact => NodesExact'
  BY <1>1 DEF NodesExact
<1> QED
  BY <1>2, <1>3, <1>4, <1>5

LEMMA RegularBefore ==
  ASSUME Regular', overlapped => overlapped',
         \A o \in Controls : Completed(o) => o \in Controls' /\ Completed(o)'
                                             /\ ops'[o].snap = ops[o].snap
  PROVE  Regular
BY DEF Regular, Restorable

-----------------------------------------------------------------------------
(* Kinds: a step changes one call, and the calls of no operation.           *)
LEMMA KindsKeep ==
  ASSUME Inv, CallsInv, NEW r \in Requests, KindExact(r)',
         \A q \in Requests \ {r} : call'[q] = call[q],
         \A o \in Known : ops'[o].c = ops[o].c, phase' # "down"
  PROVE  \A q \in Requests : KindExact(q)'
<1> SUFFICES ASSUME NEW q \in Requests \ {r} PROVE KindExact(q)'
  OBVIOUS
<1>1. call'[q] = call[q] /\ KindExact(q) /\ CallExact(q)
  BY DEF CallsInv, Inv
<1> QED
  BY <1>1 DEF KindExact, CallExact

(* A call that moves on by itself leaves the journal, and is alone if it    *)
(* touches the scope.                                                       *)
CallMoves(r) ==
  /\ phase = "planning"
  /\ UNCHANGED <<ops, delivered, final, phase, aborted, started>>
  /\ overlapped => overlapped'
  /\ \A q \in Requests \ {r} : call'[q] = call[q]
  /\ told \subseteq told'

LEMMA CallMovesKeeps ==
  ASSUME Inv, CallsInv, NEW r \in Requests, CallMoves(r), KindExact(r)', ToldExact',
         Regular /\ OneAfterTheOther /\ ~overlapped' =>
           /\ \A q \in Requests \ {r} : Flight(q) => ~Flight(r)' /\ UNCHANGED <<scope, children>>
           /\ Flight(r)' => FlightExact(r)'
           /\ SnapsExact' /\ NodesExact' /\ BetweenExact'
  PROVE  CallsInv'
<1>0. /\ phase = "planning" /\ UNCHANGED <<ops, delivered, final, phase, aborted, started>>
      /\ overlapped => overlapped'
      /\ \A q \in Requests \ {r} : call'[q] = call[q]
      /\ told \subseteq told'
  BY DEF CallMoves
<1>1. \A q \in Requests : KindExact(q)'
  BY <1>0, KindsKeep
<1>2. SUFFICES ASSUME Regular' PROVE OneAfterTheOther'
  BY <1>1 DEF CallsInv
<1>3. /\ Known' = Known /\ Controls' = Controls /\ Asks' = Asks
      /\ \A o : Completed(o)' <=> Completed(o)
      /\ \A k : Delivered(k)' = Delivered(k)
      /\ \A k, s : AfterDelivery(k, s)' <=> AfterDelivery(k, s)
  BY <1>0, SameOps
<1>4. Regular /\ OneAfterTheOther /\ ~overlapped'
  BY <1>0, <1>2, <1>3, RegularBefore DEF CallsInv, Regular
<1>5. /\ \A q \in Requests \ {r} : Flight(q) => ~Flight(r)' /\ UNCHANGED <<scope, children>>
      /\ Flight(r)' => FlightExact(r)'
      /\ SnapsExact' /\ NodesExact' /\ BetweenExact'
  BY <1>4
<1>6. \A q \in Requests \ {r} : Flight(q)' <=> Flight(q)
  BY <1>0 DEF Flight, InCall
<1>7. \A p, q \in Requests : Flight(p)' /\ Flight(q)' => p = q
  BY <1>4, <1>5, <1>6 DEF OneAfterTheOther
<1>8. IndexExact'
  BY <1>0, <1>3, <1>4 DEF OneAfterTheOther, IndexExact
<1>9. ASSUME NEW q \in Requests \ {r}, Flight(q)
      PROVE  FlightExact(q)'
  <2>1. call'[q] = call[q] /\ scope' = scope /\ children' = children /\ FlightExact(q) /\ InCall(q)
    BY <1>0, <1>4, <1>5, <1>9 DEF OneAfterTheOther, Flight
  <2>2. call[q].at \in {"executed", "recording"} => ops[call[q].op].status = "prepared"
    BY <2>1 DEF FlightExact
  <2> QED
    BY <1>0, <1>3, <2>1, <2>2 DEF FlightExact, Leaves, Ran
<1>10. FinalExact'
  BY <1>0, <1>3, <1>4 DEF OneAfterTheOther, FinalExact
<1>11. \A k \in 1..delivered' : Delivered(k)' # {}
  BY <1>0, <1>3, <1>4 DEF OneAfterTheOther
<1> QED
  BY <1>5, <1>6, <1>7, <1>8, <1>9, <1>10, <1>11 DEF OneAfterTheOther

-----------------------------------------------------------------------------
(* Calls that begin.                                                        *)
LEMMA BindsAt ==
  ASSUME TypeOK, NEW r \in Requests, NEW c \in AllCalls, NEW o \in Requests,
         NEW place \in Places, Binds(r, c, o, place)
  PROVE  call'[r].seen = delivered /\ call'[r].index = scope.control + 1
<1> DEFINE k == [noCall EXCEPT !.at = place, !.c = c, !.op = o, !.seen = delivered,
                               !.index = scope.control + 1]
<1>1. call' = [call EXCEPT ![r] = k]
  BY DEF Binds
<1>2. scope.control + 1 \in Nat /\ delivered \in Nat
  BY DEF TypeOK, Scopes
<1>3. k.seen = delivered /\ k.index = scope.control + 1
  BY <1>2, EmptyTyped DEF InProgress
<1> HIDE DEF k
<1> QED
  BY <1>1, <1>3 DEF TypeOK

\* No control call is in flight, and the scope is that of the last delivery.
LEMMA NoFlightBefore ==
  ASSUME Inv, NEW r \in Requests, NEW c \in Calls[mode], MayCall(r, c), ~IsAsk(c), Overlaps,
         Regular, OneAfterTheOther, ~overlapped'
  PROVE  /\ \A q \in Requests : ~Flight(q)
         /\ AfterDelivery(delivered, scope) /\ phase = "planning" /\ ~aborted
         /\ \A q \in Requests : call[q].at = "threw" => Behind(call[q].op)
<1>1. phase = "planning" /\ ~aborted
  BY DEF MayCall
<1>2. \A q \in Requests : ~Flight(q)
  BY DEF Overlaps, Flight
<1> QED
  BY <1>1, <1>2 DEF OneAfterTheOther, BetweenExact

LEMMA BindsOldKeeps ==
  ASSUME Inv, CallsInv, NEW r \in Requests, NEW c \in Calls[mode], MayCall(r, c), ~IsAsk(c),
         NEW o \in Controls, ops[o].c = c,
         Binds(r, c, o, "prepared"), Overlaps,
         UNCHANGED <<mode, durable, told, phase, scope, queue, aborted, resumes, attempts,
                     children, asked, started>>
  PROVE  CallsInv'
<1>1. /\ TypeOK /\ phase = "planning" /\ ~aborted /\ call[r].at = "idle" /\ c \in AllCalls
      /\ UNCHANGED <<ops, delivered, final, told, phase, scope, aborted, children, started>>
      /\ overlapped => overlapped'
      /\ o \in Requests /\ o \in Known
  <2>1. TypeOK
    BY DEF Inv
  <2>2. c \in AllCalls
    BY <2>1, MayCallTyped
  <2>3. o \in Requests /\ o \in Known
    BY ControlsTyped
  <2> QED
    BY <2>1, <2>2, <2>3 DEF MayCall, durable, Overlaps
<1>2. /\ \A q \in Requests \ {r} : call'[q] = call[q]
      /\ call'[r].at = "prepared" /\ call'[r].c = c /\ call'[r].op = o
      /\ call'[r].seen = delivered
  BY <1>1, BindsCall, BindsAt DEF Places
<1>3. KindExact(r)' /\ ToldExact'
  BY <1>1, <1>2 DEF KindExact, ToldExact, Known, Completed, CallsInv
<1>4. CallMoves(r)
  BY <1>1, <1>2 DEF CallMoves
<1>5. ASSUME Regular, OneAfterTheOther, ~overlapped'
      PROVE  /\ \A q \in Requests \ {r} : Flight(q) => ~Flight(r)' /\ UNCHANGED <<scope, children>>
             /\ Flight(r)' => FlightExact(r)'
             /\ SnapsExact' /\ NodesExact' /\ BetweenExact'
  <2>1. /\ \A q \in Requests : ~Flight(q)
        /\ AfterDelivery(delivered, scope)
        /\ \A q \in Requests : call[q].at = "threw" => Behind(call[q].op)
    BY <1>5, NoFlightBefore
  <2>3. /\ Controls' = Controls /\ Asks' = Asks
        /\ \A k, s : AfterDelivery(k, s)' <=> AfterDelivery(k, s)
    BY <1>1, SameOps
  <2>4. FlightExact(r)'
    BY <1>1, <1>2, <2>3 DEF FlightExact
  <2>5. BetweenExact'
    BY <1>1, <1>2, <2>1, <2>3 DEF BetweenExact, Behind, Flight, InCall
  <2> QED
    BY <1>1, <1>5, <2>1, <2>4, <2>5, SameRecords DEF OneAfterTheOther
<1> QED
  BY <1>3, <1>4, <1>5, CallMovesKeeps

LEMMA ControlIssueOrdered ==
  ASSUME Inv, CallsInv, NEW r \in Requests, NEW c \in Calls[mode],
         CallAgain(r, c) \/ CallRebound(r, c) \/ CallUnmatched(r, c) \/ CallNew(r, c)
  PROVE  CallsInv'
<1>1. /\ TypeOK /\ MayCall(r, c) /\ ~IsAsk(c) /\ Overlaps
      /\ UNCHANGED <<mode, durable, ops, delivered, final, told, phase, scope, aborted, resumes,
                     attempts, children, asked, started>>
      /\ overlapped => overlapped'
  BY DEF Inv, CallAgain, CallRebound, CallUnmatched, CallNew, durable, Overlaps
<1>2. c \in AllCalls /\ phase = "planning" /\ call[r].at = "idle" /\ (r \in Known => c = ops[r].c)
  BY <1>1, MayCallTyped
<1>3. call[r].op = 0 /\ KindExact(r)
  BY <1>2 DEF CallsInv, KindExact
<1>4. CASE CallAgain(r, c)
  <2>1. r \in Known /\ Binds(r, c, r, "prepared") /\ UNCHANGED queue
    BY <1>4 DEF CallAgain
  <2>2. r \in Controls
    BY <1>1, <1>2, <2>1 DEF Controls
  <2> QED
    BY <1>1, <1>2, <2>1, <2>2, BindsOldKeeps
<1>5. CASE CallRebound(r, c)
  <2>1. PICK o \in Matching(c) : Binds(r, c, o, "prepared")
    BY <1>5 DEF CallRebound
  <2>2. o \in Controls /\ ops[o].c = c
    BY DEF Matching, Pending
  <2>3. UNCHANGED queue
    BY <1>5 DEF CallRebound
  <2> QED
    BY <1>1, <2>1, <2>2, <2>3, BindsOldKeeps
<1>6. CASE CallUnmatched(r, c)
  <2>1. /\ \A q \in Requests \ {r} : call'[q] = call[q]
        /\ call'[r].at = "threw" /\ call'[r].op = 0
    BY <1>1, <1>3, <1>6, EndsCall DEF CallUnmatched, Throws, Places
  <2>2. KindExact(r)' /\ ToldExact' /\ CallMoves(r)
    BY <1>1, <1>2, <2>1 DEF KindExact, ToldExact, Known, Completed, CallsInv, CallMoves
  <2>3. ASSUME Regular, OneAfterTheOther, ~overlapped'
        PROVE  /\ \A q \in Requests \ {r} : Flight(q) => ~Flight(r)' /\ UNCHANGED <<scope, children>>
               /\ Flight(r)' => FlightExact(r)'
               /\ SnapsExact' /\ NodesExact' /\ BetweenExact'
    <3>1. /\ \A q \in Requests : ~Flight(q)
          /\ AfterDelivery(delivered, scope)
          /\ \A q \in Requests : call[q].at = "threw" => Behind(call[q].op)
      BY <1>1, <2>3, NoFlightBefore
    <3>2. /\ Controls' = Controls /\ Asks' = Asks
          /\ \A k, s : AfterDelivery(k, s)' <=> AfterDelivery(k, s)
      BY <1>1, SameOps
    <3>3. ~Flight(r)'
      BY <2>1 DEF Flight, InCall
    <3>4. BetweenExact'
      BY <1>1, <1>2, <2>1, <3>1, <3>2 DEF BetweenExact, Behind
    <3> QED
      BY <1>1, <2>3, <3>1, <3>3, <3>4, SameRecords DEF OneAfterTheOther
  <2> QED
    BY <2>2, <2>3, CallMovesKeeps
<1>7. CASE CallNew(r, c)
  <2>1. Binds(r, c, r, "preparing") /\ Pending = {} /\ r \notin Known
    BY <1>7 DEF CallNew
  <2>2. /\ \A q \in Requests \ {r} : call'[q] = call[q]
        /\ call'[r].at = "preparing" /\ call'[r].c = c /\ call'[r].op = r
        /\ call'[r].seen = delivered /\ call'[r].index = scope.control + 1
    BY <1>1, <1>2, <2>1, BindsCall, BindsAt DEF Places
  <2>3. KindExact(r)' /\ ToldExact' /\ CallMoves(r)
    BY <1>1, <1>2, <2>2 DEF KindExact, ToldExact, Known, Completed, CallsInv, CallMoves
  <2>4. ASSUME Regular, OneAfterTheOther, ~overlapped'
        PROVE  /\ \A q \in Requests \ {r} : Flight(q) => ~Flight(r)' /\ UNCHANGED <<scope, children>>
               /\ Flight(r)' => FlightExact(r)'
               /\ SnapsExact' /\ NodesExact' /\ BetweenExact'
    <3>1. /\ \A q \in Requests : ~Flight(q)
          /\ AfterDelivery(delivered, scope)
          /\ \A q \in Requests : call[q].at = "threw" => Behind(call[q].op)
      BY <1>1, <2>4, NoFlightBefore
    <3>2. /\ Controls' = Controls /\ Asks' = Asks
          /\ \A k, s : AfterDelivery(k, s)' <=> AfterDelivery(k, s)
      BY <1>1, SameOps
    <3>3. scope.control = delivered
      BY <1>1, <2>4, <3>1, AfterExact DEF OneAfterTheOther, TypeOK
    <3>4. ASSUME NEW p \in Controls PROVE ops[p].index <= delivered
      <4>1. ASSUME ~(ops[p].index <= delivered) PROVE p \notin Bound
        <5> SUFFICES ASSUME NEW q \in Requests, call[q].op = p,
                            call[q].at \notin {"idle", "preparing", "prepared", "done"}
                     PROVE  FALSE
          BY DEF Bound
        <5>1. ~Behind(p)
          BY <4>1, <3>4, ControlsTyped DEF Asks, Behind
        <5>2. InCall(q) /\ IsAsk(call[q].c)
          BY <3>1, <4>1, <5>1 DEF InCall, Flight
        <5>3. KindExact(q)
          BY DEF CallsInv
        <5>4. ops[p].c[1] = call[q].c[1]
          BY <5>2, <5>3 DEF KindExact, InCall
        <5> QED
          BY <5>2, <5>4, ControlsTyped DEF IsAsk
      <4>2. ops[p].index \in Nat /\ delivered \in Nat
        BY ControlsTyped
      <4> QED
        BY <2>1, <4>1, <4>2 DEF Pending
    <3>5. FlightExact(r)'
      BY <1>1, <2>2, <3>2, <3>3, <3>4 DEF FlightExact
    <3>6. BetweenExact'
      BY <1>1, <1>2, <2>2, <3>1, <3>2 DEF BetweenExact, Behind
    <3> QED
      BY <1>1, <2>4, <3>1, <3>5, <3>6, SameRecords DEF OneAfterTheOther
  <2> QED
    BY <2>3, <2>4, CallMovesKeeps
<1> QED
  BY <1>4, <1>5, <1>6, <1>7

-----------------------------------------------------------------------------
(* The call in flight goes on.                                              *)
LEMMA InFlight ==
  ASSUME Inv, CallsInv, NEW r \in Requests, Flight(r), Regular, OneAfterTheOther
  PROVE  /\ FlightExact(r) /\ phase = "planning" /\ call[r].at \notin {"idle", "done", "threw"}
         /\ \A q \in Requests \ {r} : ~Flight(q)
         /\ call[r].op \in Requests /\ call[r].c \in AllCalls
         /\ call[r] \in InProgress /\ ops[call[r].op] \in Operations /\ scope \in Scopes
         /\ delivered \in Nat
         /\ \E s \in Scopes : AfterDelivery(delivered, s)
<1>1. InCall(r)
  BY DEF Flight
<1>2. delivered \in Nat /\ delivered \in 0..delivered
  BY DEF Inv, TypeOK
<1>3. \E s \in Scopes : AfterDelivery(delivered, s)
  BY <1>2, AfterExists DEF OneAfterTheOther
<1> QED
  BY <1>1, <1>2, <1>3, WhoCallsPlans DEF OneAfterTheOther, Inv, TypeOK, InCall

(* A control call that ends with an error.                                  *)
LEMMA FlightThrows ==
  ASSUME Inv, CallsInv, NEW r \in Requests, CallMoves(r), Flight(r), ToldExact',
         UNCHANGED <<scope, children>>,
         call'[r].at = "threw",
         Regular /\ OneAfterTheOther =>
            aborted \/ (Behind(call'[r].op) /\ call[r].at \in {"preparing", "prepared"})
  PROVE  CallsInv'
<1>1. /\ phase = "planning"
      /\ UNCHANGED <<ops, delivered, final, phase, aborted, started>>
      /\ \A q \in Requests \ {r} : call'[q] = call[q]
      /\ told \subseteq told'
  BY DEF CallMoves
<1>2. KindExact(r)'
  BY <1>1 DEF KindExact
<1>3. ASSUME Regular, OneAfterTheOther
      PROVE  /\ \A q \in Requests \ {r} : Flight(q) => ~Flight(r)' /\ UNCHANGED <<scope, children>>
             /\ Flight(r)' => FlightExact(r)'
             /\ SnapsExact' /\ NodesExact' /\ BetweenExact'
  <2>1. ~Flight(r)'
    BY DEF Flight, InCall
  <2>2. /\ Controls' = Controls /\ Asks' = Asks
        /\ \A k, s : AfterDelivery(k, s)' <=> AfterDelivery(k, s)
    BY <1>1, SameOps
  <2>3. \A q \in Requests \ {r} : ~Flight(q)
    BY <1>3, InFlight
  <2>4. BetweenExact'
    BY <1>1, <1>3, <2>1, <2>2, <2>3 DEF OneAfterTheOther, BetweenExact, Behind
  <2> QED
    BY <1>1, <1>3, <2>1, <2>3, <2>4, SameRecords DEF OneAfterTheOther
<1> QED
  BY <1>2, <1>3, CallMovesKeeps

(* A control call that goes on, with the scope as it makes it.              *)
LEMMA FlightGoes ==
  ASSUME Inv, CallsInv, NEW r \in Requests, CallMoves(r), Flight(r), ToldExact',
         call'[r].at \notin {"idle", "preparing", "prepared", "threw", "found", "asking", "marking"},
         call'[r].op = call[r].op, call'[r].c = call[r].c, call[r].at # "preparing",
         Regular /\ OneAfterTheOther =>
            /\ call'[r].at # "done" => FlightExact(r)'
            /\ call'[r].at # "done"
            /\ children' = children \/ (SnapsExact' /\ NodesExact')
  PROVE  CallsInv'
<1>1. /\ phase = "planning"
      /\ UNCHANGED <<ops, delivered, final, phase, aborted, started>>
      /\ \A q \in Requests \ {r} : call'[q] = call[q]
      /\ told \subseteq told'
  BY DEF CallMoves
<1>2. KindExact(r)'
  <2>1. KindExact(r) /\ call[r].at \notin {"idle", "threw", "preparing", "done"} /\ ~IsAsk(call[r].c)
    BY DEF CallsInv, Flight, InCall
  <2> QED
    BY <1>1, <2>1 DEF KindExact
<1>3. ASSUME Regular, OneAfterTheOther
      PROVE  /\ \A q \in Requests \ {r} : Flight(q) => ~Flight(r)' /\ UNCHANGED <<scope, children>>
             /\ Flight(r)' => FlightExact(r)'
             /\ SnapsExact' /\ NodesExact' /\ BetweenExact'
  <2>1. Flight(r)'
    BY <1>3 DEF Flight, InCall
  <2>2. /\ Controls' = Controls /\ Asks' = Asks
        /\ \A k, s : AfterDelivery(k, s)' <=> AfterDelivery(k, s)
    BY <1>1, SameOps
  <2>3. \A q \in Requests \ {r} : ~Flight(q)
    BY <1>3, InFlight
  <2>4. BetweenExact'
    BY <1>1, <1>3, <2>1, <2>2 DEF OneAfterTheOther, BetweenExact, Behind
  <2> QED
    BY <1>1, <1>3, <2>1, <2>3, <2>4, SameRecords DEF OneAfterTheOther
<1> QED
  BY <1>2, <1>3, CallMovesKeeps

LEMMA SameTold == ASSUME CallsInv, UNCHANGED <<ops, told>> PROVE ToldExact'
BY DEF CallsInv, ToldExact, Known, Completed

LEMMA BeginAmbiguousOrdered ==
  ASSUME Inv, CallsInv, NEW r \in Requests, BeginAmbiguous(r) PROVE CallsInv'
<1>1. /\ TypeOK /\ call[r].at = "prepared" /\ ~IsAsk(call[r].c)
      /\ UNCHANGED <<ops, delivered, final, phase, aborted, started, told, scope, children, overlapped>>
      /\ call' = [call EXCEPT ![r] = [noCall EXCEPT !.at = "threw"]]
  BY DEF Inv, BeginAmbiguous, Execution, durable, history
<1>2. Flight(r) /\ phase = "planning"
  BY <1>1, WhoCallsPlans DEF Flight, InCall
<1>3. [noCall EXCEPT !.at = "threw"].at = "threw" /\ [noCall EXCEPT !.at = "threw"].op = 0
  BY DEF noCall
<1>4. /\ \A q \in Requests \ {r} : call'[q] = call[q]
      /\ call'[r].at = "threw" /\ call'[r].op = 0
  BY <1>1, <1>3 DEF TypeOK
<1>5. CallMoves(r)
  BY <1>1, <1>2, <1>4 DEF CallMoves
<1> QED
  BY <1>1, <1>2, <1>4, <1>5, FlightThrows, SameTold DEF Behind

LEMMA BeginReplayOrdered ==
  ASSUME Inv, CallsInv, NEW r \in Requests, BeginReplay(r) PROVE CallsInv'
<1> DEFINE o == call[r].op
           next == ops[o].index = call[r].seen + 1
           good == ops[o].index > call[r].seen /\ (next => Restorable(ops[o].snap))
           place == IF good THEN "result" ELSE "threw"
           k == [call[r] EXCEPT !.at = place, !.ok = ops[o].ok, !.try = ops[o].try]
<1>1. /\ TypeOK /\ call[r].at = "prepared" /\ ~IsAsk(call[r].c) /\ Completed(o)
      /\ UNCHANGED <<ops, delivered, final, phase, aborted, started, told, children, overlapped>>
      /\ call' = [call EXCEPT ![r] = k]
      /\ scope' = IF good /\ next THEN ops[o].snap ELSE scope
  BY DEF Inv, BeginReplay, Execution, durable, history, Restored, TypeOK
<1>2. Flight(r) /\ phase = "planning" /\ call[r] \in InProgress
  BY <1>1, WhoCallsPlans DEF Flight, InCall
<1>3. k.at = place /\ k.op = o /\ k.c = call[r].c
  BY <1>2 DEF InProgress
<1> HIDE DEF k
<1>4. /\ \A q \in Requests \ {r} : call'[q] = call[q]
      /\ call'[r].at = place /\ call'[r].op = o /\ call'[r].c = call[r].c
  BY <1>1, <1>3 DEF TypeOK
<1>5. CallMoves(r)
  BY <1>1, <1>2, <1>4 DEF CallMoves
<1>6. ASSUME Regular, OneAfterTheOther
      PROVE  o \in Controls /\ (IF good THEN ops[o].index = delivered + 1 ELSE Behind(o))
  <2>1. FlightExact(r) /\ delivered \in Nat
    BY <1>2, <1>6, InFlight
  <2>2. o \in Controls /\ call[r].seen = delivered
    BY <1>1, <2>1 DEF FlightExact
  <2>3. Restorable(ops[o].snap)
    BY <1>1, <1>6, <2>2 DEF Regular
  <2>4. ops[o].index \in 1..(delivered + 1)
    BY <1>6, <2>2 DEF OneAfterTheOther, IndexExact
  <2>5. ops[o].index \in Nat
    BY <2>1, <2>4
  <2> QED
    BY <2>1, <2>2, <2>3, <2>4, <2>5 DEF Behind
<1>7. CASE good
  <2>1. place = "result"
    BY <1>7
  <2>0. Regular /\ OneAfterTheOther => o \in Controls /\ ops[o].index = delivered + 1
    BY <1>6, <1>7
  <2> HIDE DEF place, good
  <2>2. ASSUME Regular, OneAfterTheOther PROVE FlightExact(r)'
    <3>1. o \in Controls /\ ops[o].index = delivered + 1
      BY <2>0, <2>2
    <3>2. Controls' = Controls /\ \A p : Completed(p)' <=> Completed(p)
      BY <1>1, SameOps
    <3>3. call'[r].at = "result" /\ call'[r].op = o /\ Completed(o)'
      BY <1>1, <1>4, <2>1, <3>2
    <3> HIDE DEF k
    <3> QED
      BY <1>1, <3>1, <3>2, <3>3 DEF FlightExact, Leaves, Ran, AfterDelivery
  <2> QED
    BY <1>1, <1>2, <1>4, <1>5, <2>1, <2>2, FlightGoes, SameTold
<1>8. CASE ~good
  <2>1. place = "threw" /\ scope' = scope
    BY <1>1, <1>8
  <2>2. Regular /\ OneAfterTheOther => Behind(o)
    BY <1>6, <1>8
  <2> HIDE DEF place, good
  <2> QED
    BY <1>1, <1>2, <1>4, <1>5, <2>1, <2>2, FlightThrows, SameTold
<1> QED
  BY <1>7, <1>8

(* What one operation has run that has no result yet is in no snapshot.     *)
LEMMA OthersRan ==
  ASSUME Inv, OneAfterTheOther, UNCHANGED <<ops, delivered>>,
         NEW o \in Controls, ops[o].index = delivered + 1, ops[o].status = "prepared",
         \A p \in Requests \ {o} : Ran(p)' = Ran(p)
  PROVE  SnapsExact'
<1>1. /\ Controls' = Controls
      /\ \A p : Completed(p)' <=> Completed(p)
      /\ \A p : IsRoute(p)' <=> IsRoute(p)
      /\ \A k : RouteOps(k)' = RouteOps(k)
      /\ delivered \in Nat
  BY SameOps, ControlsTyped
<1>2. \A p \in Requests \ {o} : Uses(p)' = Uses(p)
  BY <1>1 DEF Uses
<1>3. ASSUME NEW p \in Controls, Completed(p)
      PROVE  Counted(ops[p].index)' = Counted(ops[p].index)
  <2>1. p # o
    BY <1>3 DEF Completed
  <2>2. ops[p].index \in 1..(delivered + 1) /\ ops[p].index # ops[o].index
    BY <2>1 DEF OneAfterTheOther, IndexExact
  <2>3. ~(ops[o].index <= ops[p].index)
    BY <1>1, <2>2
  <2> QED
    BY <1>1, <1>2, <2>3 DEF Counted
<1> QED
  BY <1>1, <1>3 DEF OneAfterTheOther, SnapsExact, QueuedOps

(* An execution forgets the numbers of the one before it.                   *)
LEMMA Supersedes ==
  ASSUME Inv, OneAfterTheOther, UNCHANGED <<ops, delivered>>,
         NEW o \in Controls, ops[o].index = delivered + 1, ops[o].status = "prepared",
         children' = Superseded(o)
  PROVE  SnapsExact' /\ NodesExact' /\ Ran(o)' = {}
<1>1. \A p \in children' : p \in children \/ \E q \in children : q[2] = o /\ p = <<q[1], o, 0>>
  BY DEF Superseded
<1>2. \A p \in children' : p[3] > 0 => p \in children /\ p[2] # o
  <2> SUFFICES ASSUME NEW p \in children', p[3] > 0 PROVE p \in children /\ p[2] # o
    OBVIOUS
  <2>1. PICK q \in children : p = IF q[2] = o THEN <<q[1], o, 0>> ELSE q
    BY DEF Superseded
  <2>2. CASE q[2] = o
    <3>1. p[3] = 0
      BY <2>1, <2>2
    <3> QED
      BY <3>1
  <2> QED
    BY <2>1, <2>2
<1>3. \A p \in children : p[2] # o => p \in children'
  BY DEF Superseded
<1>4. Ran(o)' = {}
  BY <1>2 DEF Ran
<1>5. \A p \in Requests \ {o} : Ran(p)' = Ran(p)
  BY <1>2, <1>3 DEF Ran
<1>6. SnapsExact'
  BY <1>5, OthersRan
<1>7. Controls' = Controls /\ \A k, s : AfterDelivery(k, s)' <=> AfterDelivery(k, s)
  BY SameOps
<1>8. NodesExact'
  <2> SUFFICES ASSUME NEW p \in children'
               PROVE  /\ p[2] \in Controls /\ p[1] = ops[p[2]].index
                      /\ ops[p[2]].c[1] \in {"node", "execute"} /\ p[3] \in 0..MaxRoutes
                      /\ p[3] # 0 => \A s \in Scopes : AfterDelivery(p[1] - 1, s) => s.routes < p[3]
    BY <1>7 DEF NodesExact
  <2>1. CASE p \in children
    BY <2>1 DEF OneAfterTheOther, NodesExact
  <2>2. CASE \E q \in children : q[2] = o /\ p = <<q[1], o, 0>>
    <3>1. PICK q \in children : q[2] = o /\ p = <<q[1], o, 0>>
      BY <2>2
    <3>2. p[1] = q[1] /\ p[2] = q[2] /\ p[3] = 0
      BY <3>1
    <3>3. 0 \in 0..MaxRoutes
      BY LimitAssumption
    <3> QED
      BY <3>2, <3>3 DEF OneAfterTheOther, NodesExact
  <2> QED
    BY <1>1, <2>1, <2>2
<1> QED
  BY <1>4, <1>6, <1>8

LEMMA BeginExecuteOrdered ==
  ASSUME Inv, CallsInv, NEW r \in Requests, BeginExecute(r) PROVE CallsInv'
<1> DEFINE o == call[r].op
           tool == call[r].c[1]
           counts == scope.control < MaxControl
           within == Within(tool)
           used(t) == IF counts /\ tool = t THEN 1 ELSE 0
           place == IF ~counts \/ ~within \/ tool \in {"look", "validate"} THEN "executed"
                                                                         ELSE "policy"
           k == [call[r] EXCEPT !.at = place, !.order = scope.order,
                                !.ok = (counts /\ within), !.try = attempts[o] + 1]
<1>1. /\ TypeOK /\ call[r].at = "prepared" /\ ~IsAsk(call[r].c) /\ ops[o].status = "prepared"
      /\ UNCHANGED <<ops, delivered, final, phase, aborted, started, told, overlapped>>
      /\ ~aborted /\ children' = Superseded(o)
      /\ call' = [call EXCEPT ![r] = k]
      /\ scope' = [scope EXCEPT !.control = @ + 1,
                               !.validations = @ + used("validate"),
                               !.executions = @ + used("execute"),
                               !.order = @ + (IF within THEN used("route") ELSE 0)]
  BY DEF Inv, BeginExecute, Execution, durable, TypeOK
<1>2. Flight(r) /\ phase = "planning" /\ call[r] \in InProgress
  BY <1>1, WhoCallsPlans DEF Flight, InCall
<1>3. k.at = place /\ k.op = o /\ k.c = call[r].c /\ k.ok = (counts /\ within)
  BY <1>2 DEF InProgress
<1> HIDE DEF k
<1>4. /\ \A q \in Requests \ {r} : call'[q] = call[q]
      /\ call'[r].at = place /\ call'[r].op = o /\ call'[r].c = call[r].c
      /\ call'[r].ok = (counts /\ within)
  BY <1>1, <1>3 DEF TypeOK
<1>5. scope'.control = scope.control + 1 /\ scope'.routes = scope.routes
      /\ scope'.queued = scope.queued
  <2> HIDE DEF used, within
  <2> QED
    BY <1>1 DEF TypeOK, Scopes
<1>6. CallMoves(r)
  BY <1>1, <1>2, <1>4 DEF CallMoves
<1>7. Controls' = Controls /\ \A k1, s : AfterDelivery(k1, s)' <=> AfterDelivery(k1, s)
  BY <1>1, SameOps
<1>8. ASSUME Regular, OneAfterTheOther PROVE FlightExact(r)' /\ SnapsExact' /\ NodesExact'
  <2>1. /\ FlightExact(r) /\ delivered \in Nat /\ scope \in Scopes
        /\ \A q \in Requests \ {r} : ~Flight(q)
    BY <1>2, <1>8, InFlight
  <2>2. o \in Controls /\ ops[o].index = delivered + 1
    <3>1. o \in Controls
      BY <1>1, <2>1 DEF FlightExact
    <3>2. ops[o].index \in 1..(delivered + 1) /\ (ops[o].index <= delivered => Completed(o))
      BY <1>8, <3>1 DEF OneAfterTheOther, IndexExact
    <3> QED
      BY <1>1, <2>1, <3>1, <3>2 DEF Completed
  <2>3. AfterDelivery(delivered, scope)
    BY <1>1, <1>2, <1>8, <2>1 DEF OneAfterTheOther, BetweenExact
  <2>4. scope.routes \in Nat /\ scope.control \in Nat
    BY <2>1 DEF Scopes
  <2>5. SnapsExact' /\ NodesExact' /\ Ran(o)' = {}
    BY <1>1, <1>4, <1>8, <2>2, Supersedes
  <2>6. place = "executed" => ~(tool = "route" /\ counts /\ within)
    OBVIOUS
  <2>7. place = "policy" => call'[r].ok
    BY <1>4
  <2>8. ASSUME NEW t \in Scopes, AfterDelivery(delivered, t)
        PROVE  /\ Leaves(o, <<"node">>, FALSE, {}, t, scope') /\ scope'.routes = t.routes
               /\ place = "executed" => Leaves(o, call[r].c, call'[r].ok, {}, t, scope')
    <3>1. t = scope
      BY <1>8, <2>3, <2>8, AfterUnique DEF OneAfterTheOther
    <3>2. QueuedOps(scope') = QueuedOps(t)
      BY <1>5, <3>1 DEF QueuedOps
    <3>3. place = "executed" => ~(call[r].c[1] = "route" /\ call'[r].ok)
      BY <1>4, <2>6
    <3> QED
      BY <1>5, <2>4, <3>1, <3>2, <3>3 DEF Leaves
  <2>9. place \in {"executed", "policy"}
    OBVIOUS
  <2> HIDE DEF place, counts, within
  <2> QED
    BY <1>1, <1>4, <1>7, <2>2, <2>5, <2>7, <2>8, <2>9 DEF FlightExact, Leaves
<1>9. place \in {"executed", "policy"}
  OBVIOUS
<1> HIDE DEF place, counts, within
<1> QED
  BY <1>1, <1>2, <1>4, <1>6, <1>8, <1>9, FlightGoes, SameTold

(* Nodes are run under the index of their call, with numbers of their own.  *)
LEMMA RunsNode ==
  ASSUME Inv, OneAfterTheOther, UNCHANGED <<ops, delivered>>,
         NEW o \in Controls, ops[o].index = delivered + 1, ops[o].status = "prepared",
         ops[o].c[1] \in {"node", "execute"},
         NEW N \in SUBSET (0..MaxRoutes),
         children' = children \cup {<<delivered + 1, o, n>> : n \in N},
         \A n \in N : n # 0 => \A s \in Scopes : AfterDelivery(delivered, s) => s.routes < n
  PROVE  SnapsExact' /\ NodesExact' /\ Ran(o)' = Ran(o) \cup (N \ {0})
<1>1. Controls' = Controls /\ \A k, s : AfterDelivery(k, s)' <=> AfterDelivery(k, s)
  BY SameOps
<1>2. delivered \in Nat /\ \A n \in N : n \in Nat
  BY ControlsTyped, LimitAssumption
<1> DEFINE new == {<<delivered + 1, o, n>> : n \in N}
<1>3. \A p \in new : p[1] = delivered + 1 /\ p[2] = o /\ p[3] \in N
  OBVIOUS
<1>4. ASSUME NEW n \in N PROVE \E p \in new : p[3] = n
  <2>1. <<delivered + 1, o, n>> \in new /\ <<delivered + 1, o, n>>[3] = n
    OBVIOUS
  <2> HIDE DEF new
  <2> QED
    BY <2>1
<1>5. children' = children \cup new
  OBVIOUS
<1> HIDE DEF new
<1>6. \A p \in Requests \ {o} : Ran(p)' = Ran(p)
  BY <1>3, <1>5 DEF Ran
<1>7. Ran(o)' = Ran(o) \cup (N \ {0})
  <2>1. ASSUME NEW n \in Ran(o)' PROVE n \in Ran(o) \cup (N \ {0})
    <3>1. PICK p \in children' : p[2] = o /\ p[3] > 0 /\ n = p[3]
      BY DEF Ran
    <3> QED
      BY <1>2, <1>3, <1>5, <3>1 DEF Ran
  <2>2. ASSUME NEW n \in Ran(o) PROVE n \in Ran(o)'
    BY <1>5 DEF Ran
  <2>3. ASSUME NEW n \in N \ {0} PROVE n \in Ran(o)'
    <3>1. PICK p \in new : p[3] = n
      BY <1>4
    <3>2. p \in children' /\ p[2] = o /\ p[3] > 0
      BY <1>2, <1>3, <1>5, <3>1
    <3> QED
      BY <3>1, <3>2 DEF Ran
  <2> QED
    BY <2>1, <2>2, <2>3
<1>8. SnapsExact'
  BY <1>6, OthersRan
<1>9. NodesExact'
  <2> SUFFICES ASSUME NEW p \in children'
               PROVE  /\ p[2] \in Controls /\ p[1] = ops[p[2]].index
                      /\ ops[p[2]].c[1] \in {"node", "execute"} /\ p[3] \in 0..MaxRoutes
                      /\ p[3] # 0 => \A s \in Scopes : AfterDelivery(p[1] - 1, s) => s.routes < p[3]
    BY <1>1 DEF NodesExact
  <2>1. CASE p \in children
    BY <2>1 DEF OneAfterTheOther, NodesExact
  <2>2. CASE p \in new
    <3>1. p[2] = o /\ p[1] = delivered + 1 /\ p[1] - 1 = delivered /\ p[3] \in N
      BY <1>2, <1>3, <2>2
    <3> QED
      BY <3>1
  <2> QED
    BY <1>5, <2>1, <2>2
<1> QED
  BY <1>7, <1>8, <1>9

LEMMA RefusesAt ==
  ASSUME TypeOK, NEW r \in Requests, Refuses(r)
  PROVE  call'[r].ok = FALSE
<1> DEFINE k == [call[r] EXCEPT !.at = "executed", !.ok = FALSE]
<1>1. call' = [call EXCEPT ![r] = k]
  BY DEF Refuses, TypeOK
<1>2. k.ok = FALSE
  BY DEF TypeOK, InProgress
<1> HIDE DEF k
<1> QED
  BY <1>1, <1>2 DEF TypeOK

LEMMA GoesAt ==
  ASSUME TypeOK, NEW r \in Requests, NEW place \in Places, Goes(r, place)
  PROVE  call'[r].ok = call[r].ok /\ call'[r].path = call[r].path
<1> DEFINE k == [call[r] EXCEPT !.at = place]
<1>1. call' = [call EXCEPT ![r] = k]
  BY DEF Goes, TypeOK
<1>2. k.ok = call[r].ok /\ k.path = call[r].path
  BY DEF TypeOK, InProgress
<1> HIDE DEF k
<1> QED
  BY <1>1, <1>2 DEF TypeOK

(* A call is over, whether it was refused, failed or did what it was for.   *)
LEMMA ExecutedOrdered ==
  ASSUME Inv, CallsInv, NEW r \in Requests, call[r].at \in {"policy", "generated", "child"},
         UNCHANGED <<ops, delivered, final, phase, aborted, started, told, overlapped, children>>,
         \A q \in Requests \ {r} : call'[q] = call[q],
         call'[r].at = "executed", call'[r].op = call[r].op, call'[r].c = call[r].c,
         call[r].at = "policy" => call'[r].ok = FALSE,
         scope'.control = scope.control, scope'.routes = scope.routes,
         scope'.queued = scope.queued
  PROVE  CallsInv'
<1> DEFINE o == call[r].op
<1>1. ~IsAsk(call[r].c)
  BY DEF CallsInv, KindExact
<1>2. Flight(r) /\ phase = "planning"
  BY <1>1, WhoCallsPlans DEF Flight, InCall
<1>3. CallMoves(r)
  BY <1>2 DEF CallMoves
<1>4. /\ Controls' = Controls /\ \A k, s : AfterDelivery(k, s)' <=> AfterDelivery(k, s)
      /\ Ran(o)' = Ran(o)
  BY SameOps DEF Ran
<1>5. ASSUME Regular, OneAfterTheOther PROVE FlightExact(r)'
  <2>1. FlightExact(r)
    BY <1>2, <1>5, InFlight
  <2>2. o \in Controls /\ ops[o].index = delivered + 1 /\ ops[o].status = "prepared"
    BY <2>1 DEF FlightExact
  <2>3. ~(call[r].c[1] = "route" /\ call'[r].ok)
    BY <2>1 DEF FlightExact
  <2>4. ASSUME NEW t \in Scopes, AfterDelivery(delivered, t)
        PROVE  Leaves(o, call[r].c, call'[r].ok, Ran(o), t, scope')
    <3>1. Leaves(o, <<"node">>, FALSE, Ran(o), t, scope)
      BY <2>1, <2>4 DEF FlightExact
    <3> QED
      BY <2>3, <3>1 DEF Leaves, QueuedOps
  <2> QED
    BY <1>4, <2>2, <2>4 DEF FlightExact
<1> QED
  BY <1>2, <1>3, <1>5, FlightGoes, SameTold

(* The policy or the limit refuses a call: it leaves no more than a count.  *)
LEMMA RefusedOrdered ==
  ASSUME Inv, CallsInv, NEW r \in Requests, call[r].at \in {"policy", "generated", "child"},
         Refuses(r),
         UNCHANGED <<ops, delivered, final, phase, aborted, started, told, overlapped, children,
                     scope>>
  PROVE  CallsInv'
<1>1. /\ \A q \in Requests \ {r} : call'[q] = call[q]
      /\ call'[r].at = "executed" /\ call'[r].op = call[r].op /\ call'[r].c = call[r].c
      /\ call'[r].ok = FALSE
  BY RefusesCall, RefusesAt DEF Inv
<1> QED
  BY <1>1, ExecutedOrdered

(* The number in the path is the index of the operation.                    *)
LEMMA PathExact ==
  ASSUME Inv, CallsInv, NEW r \in Requests, call[r].at \in {"policy", "generated", "child"},
         Regular, OneAfterTheOther
  PROVE  scope.control = delivered + 1
<1>1. Flight(r)
  BY DEF Flight, InCall, CallsInv, KindExact
<1>2. /\ FlightExact(r) /\ scope \in Scopes /\ delivered \in Nat
      /\ \E s \in Scopes : AfterDelivery(delivered, s)
  BY <1>1, InFlight
<1>3. PICK t \in Scopes : AfterDelivery(delivered, t)
  BY <1>2
<1>4. t.control = delivered
  BY <1>2, <1>3, AfterExact DEF OneAfterTheOther
<1> QED
  BY <1>2, <1>3, <1>4 DEF FlightExact, Leaves

LEMMA PolicyOrdered ==
  ASSUME Inv, CallsInv, NEW r \in Requests, Policy(r) PROVE CallsInv'
<1> DEFINE o == call[r].op
           tool == call[r].c[1]
<1>1. /\ TypeOK /\ call[r].at = "policy" /\ ~IsAsk(call[r].c)
      /\ UNCHANGED <<ops, delivered, final, phase, aborted, started, told, overlapped>>
      /\ ops[o].c = call[r].c /\ CallExact(r)
  BY DEF Inv, durable, CallsInv, KindExact, Policy
<1>2. Flight(r) /\ phase = "planning" /\ call[r] \in InProgress
  BY <1>1, WhoCallsPlans DEF Flight, InCall
<1>3. tool \in {"route", "node", "execute"}
  BY <1>1 DEF CallExact
<1>4. CASE call[r].c \in Denied \/ (tool \in {"route", "node"} /\ ~Room)
  <2>1. Refuses(r) /\ UNCHANGED <<scope, children>>
    BY <1>4 DEF Policy
  <2> QED
    BY <1>1, <2>1, RefusedOrdered
<1>5. CASE ~(call[r].c \in Denied \/ (tool \in {"route", "node"} /\ ~Room))
  <2> DEFINE place == CASE tool = "route" -> "executed" [] tool = "node" -> "child"
                        [] tool = "execute" -> "generated"
             n == IF tool \in {"route", "node"} THEN 1 ELSE 0
             number == IF tool = "node" THEN scope.routes + 1 ELSE 0
             new == IF tool = "route" THEN {[order |-> call[r].order, op |-> o]} ELSE {}
             k == [call[r] EXCEPT !.path = scope.control, !.at = place]
  <2>1. /\ call' = [call EXCEPT ![r] = k]
        /\ scope' = [scope EXCEPT !.routes = @ + n, !.queued = @ \cup new]
        /\ children' = children \cup (IF tool = "route" THEN {} ELSE {<<scope.control, o, number>>})
    BY <1>1, <1>5 DEF Policy, PathNumber, TypeOK
  <2>2. /\ place \in {"executed", "child", "generated"}
        /\ place = "executed" => tool = "route"
        /\ place = "child" => tool = "node"
        /\ place = "generated" => tool = "execute"
    BY <1>3
  <2>3. /\ \A q \in Requests \ {r} : call'[q] = call[q]
        /\ call'[r].at = place /\ call'[r].op = o /\ call'[r].c = call[r].c
        /\ call'[r].ok = call[r].ok /\ call'[r].path = scope.control
    <3> HIDE DEF place
    <3>1. /\ k.at = place /\ k.op = o /\ k.c = call[r].c /\ k.ok = call[r].ok
          /\ k.path = scope.control
      BY <1>2 DEF InProgress
    <3> HIDE DEF k
    <3> QED
      BY <1>1, <2>1, <3>1 DEF TypeOK
  <2> HIDE DEF k
  <2>4. /\ scope'.control = scope.control /\ scope'.routes = scope.routes + n
        /\ scope'.queued = scope.queued \cup new
    <3> HIDE DEF n, new
    <3> QED
      BY <1>1, <2>1 DEF TypeOK, Scopes
  <2>5. QueuedOps(scope') = QueuedOps(scope) \cup {p \in {o} : tool = "route"}
    <3>1. {q.op : q \in new} = {p \in {o} : tool = "route"}
      <4>1. CASE tool = "route"
        <5> DEFINE e == [order |-> call[r].order, op |-> o]
        <5>1. new = {e} /\ e.op = o
          BY <4>1
        <5> HIDE DEF e, new
        <5>2. {q.op : q \in new} = {o} /\ {p \in {o} : tool = "route"} = {o}
          BY <4>1, <5>1
        <5> QED
          BY <5>2
      <4>2. CASE tool # "route"
        <5>1. new = {}
          BY <4>2
        <5> HIDE DEF new
        <5> QED
          BY <4>2, <5>1
      <4> QED
        BY <4>1, <4>2
    <3>2. {q.op : q \in scope.queued \cup new} = {q.op : q \in scope.queued} \cup {q.op : q \in new}
      <4> HIDE DEF new
      <4> QED
        OBVIOUS
    <3> QED
      BY <2>4, <3>1, <3>2 DEF QueuedOps
  <2>6. CallMoves(r)
    BY <1>1, <1>2, <2>3 DEF CallMoves
  <2>7. /\ Controls' = Controls /\ \A k1, s : AfterDelivery(k1, s)' <=> AfterDelivery(k1, s)
    BY <1>1, SameOps
  <2>8. ASSUME Regular, OneAfterTheOther
        PROVE  FlightExact(r)' /\ (children' = children \/ (SnapsExact' /\ NodesExact'))
    <3>1. FlightExact(r) /\ scope \in Scopes /\ delivered \in Nat /\ scope.routes \in Nat
      BY <1>2, <2>8, InFlight DEF Scopes
    <3>2. /\ o \in Controls /\ ops[o].index = delivered + 1 /\ ops[o].status = "prepared"
          /\ Ran(o) = {}
      BY <1>1, <3>1 DEF FlightExact
    <3>3. \A t \in Scopes : AfterDelivery(delivered, t) =>
            /\ scope.control = t.control + 1 /\ QueuedOps(scope) = QueuedOps(t)
            /\ call[r].ok /\ scope.routes = t.routes
      BY <1>1, <3>1 DEF FlightExact, Leaves
    <3>4. scope.control = delivered + 1
      BY <1>1, <2>8, PathExact
    <3>5. ASSUME tool # "route"
          PROVE  SnapsExact' /\ NodesExact' /\ Ran(o)' = {number} \ {0}
      <4>1. number \in 0..MaxRoutes
        BY <1>5, <3>1, LimitAssumption DEF Room
      <4>2. number # 0 => \A s \in Scopes : AfterDelivery(delivered, s) => s.routes < number
        BY <3>1, <3>3
      <4> HIDE DEF number
      <4> DEFINE N == {number}
      <4>3. N \in SUBSET (0..MaxRoutes) /\ \A m \in N : m = number
        BY <4>1
      <4>4. children' = children \cup {<<delivered + 1, o, m>> : m \in N}
        BY <2>1, <3>4, <3>5
      <4>5. Ran(o) \cup (N \ {0}) = {number} \ {0}
        BY <3>2
      <4>6. ops[o].c[1] \in {"node", "execute"}
        BY <1>1, <1>3, <3>5
      <4>7. \A m \in N : m # 0 => \A s \in Scopes : AfterDelivery(delivered, s) => s.routes < m
        BY <4>2
      <4> HIDE DEF N
      <4> QED
        BY <1>1, <2>3, <2>8, <3>2, <4>3, <4>4, <4>5, <4>6, <4>7, RunsNode
    <3>6. CASE tool = "node"
      <4>1. place = "child" /\ n = 1 /\ number = scope.routes + 1
        BY <3>6
      <4>2. Ran(o)' = {scope.routes + 1}
        BY <3>1, <3>5, <3>6, <4>1
      <4> HIDE DEF place, new, n, number
      <4>3. ASSUME NEW t \in Scopes, AfterDelivery(delivered, t)
            PROVE  Leaves(o, <<"node">>, FALSE, Ran(o)', t, scope')
        BY <2>4, <2>5, <3>1, <3>3, <3>6, <4>1, <4>2, <4>3 DEF Leaves
      <4>4. FlightExact(r)'
        BY <1>1, <2>3, <2>7, <3>2, <3>4, <3>6, <4>1, <4>3 DEF FlightExact
      <4> QED
        BY <3>5, <3>6, <4>4
    <3>7. CASE tool = "route"
      <4>1. children' = children /\ Ran(o)' = {}
        BY <2>1, <2>3, <3>2, <3>7 DEF Ran
      <4>2. place = "executed" /\ n = 1
        BY <3>7
      <4>3. ASSUME NEW t \in Scopes, AfterDelivery(delivered, t)
            PROVE  Leaves(o, call[r].c, call'[r].ok, Ran(o)', t, scope')
        <5>1. t.routes \in Nat /\ call'[r].ok = TRUE
          BY <1>2, <2>3, <3>3, <4>3 DEF Scopes, InProgress
        <5> HIDE DEF n, new, place
        <5> QED
          BY <2>4, <2>5, <3>3, <3>7, <4>1, <4>2, <4>3, <5>1 DEF Leaves
      <4> HIDE DEF place, new, n
      <4> QED
        BY <1>1, <2>3, <2>7, <3>2, <4>1, <4>2, <4>3 DEF FlightExact
    <3>8. CASE tool = "execute"
      <4>1. place = "generated" /\ n = 0 /\ number = 0
        BY <3>8
      <4>2. scope'.routes = scope.routes /\ Ran(o)' = {}
        BY <2>4, <3>1, <3>5, <3>8, <4>1
      <4> HIDE DEF place, new, n, number
      <4>3. ASSUME NEW t \in Scopes, AfterDelivery(delivered, t)
            PROVE  Leaves(o, <<"node">>, FALSE, Ran(o)', t, scope')
        BY <2>4, <2>5, <3>1, <3>3, <3>8, <4>2, <4>3 DEF Leaves
      <4>4. FlightExact(r)'
        BY <1>1, <2>3, <2>7, <3>2, <3>4, <3>8, <4>1, <4>3 DEF FlightExact
      <4> QED
        BY <3>5, <3>8, <4>4
    <3> QED
      BY <1>3, <3>6, <3>7, <3>8
  <2> HIDE DEF place, n, new, number
  <2> QED
    BY <1>1, <1>2, <2>2, <2>3, <2>6, <2>8, FlightGoes, SameTold
<1> QED
  BY <1>4, <1>5

LEMMA GeneratedCallOrdered ==
  ASSUME Inv, CallsInv, NEW r \in Requests, GeneratedCall(r) PROVE CallsInv'
<1> DEFINE o == call[r].op
<1>1. /\ TypeOK /\ call[r].at = "generated" /\ ~IsAsk(call[r].c)
      /\ UNCHANGED <<ops, delivered, final, phase, aborted, started, told, overlapped>>
      /\ ops[o].c = call[r].c
  BY DEF Inv, durable, CallsInv, KindExact, GeneratedCall
<1>2. Flight(r) /\ phase = "planning"
  BY <1>1, WhoCallsPlans DEF Flight, InCall
<1>3. PICK nodes \in 1..(MaxRoutes + 1) :
        IF scope.routes + nodes <= MaxRoutes
        THEN /\ scope' = [scope EXCEPT !.routes = @ + nodes]
             /\ children' = children \cup {<<call[r].path, o, n>> :
                                             n \in (scope.routes + 1)..(scope.routes + nodes)}
             /\ Goes(r, "child")
        ELSE Refuses(r) /\ UNCHANGED <<scope, children>>
  BY DEF GeneratedCall
<1>4. CASE ~(scope.routes + nodes <= MaxRoutes)
  BY <1>1, <1>3, <1>4, RefusedOrdered
<1>5. CASE scope.routes + nodes <= MaxRoutes
  <2> DEFINE N == (scope.routes + 1)..(scope.routes + nodes)
  <2>1. /\ Goes(r, "child") /\ scope' = [scope EXCEPT !.routes = @ + nodes]
        /\ children' = children \cup {<<call[r].path, o, n>> : n \in N}
    BY <1>3, <1>5
  <2>2. /\ scope.routes \in Nat /\ nodes \in Nat /\ scope.routes + nodes \in Nat
    <3>1. scope.routes \in Nat
      BY <1>1 DEF TypeOK, Scopes
    <3> QED
      BY <3>1, LimitAssumption
  <2>3. /\ N \in SUBSET (0..MaxRoutes) /\ \A n \in N : n # 0 /\ scope.routes < n
        /\ \A n \in N : n <= scope.routes + nodes
    BY <1>5, <2>2, LimitAssumption
  <2> HIDE DEF N
  <2>4. /\ \A q \in Requests \ {r} : call'[q] = call[q]
        /\ call'[r].at = "child" /\ call'[r].op = o /\ call'[r].c = call[r].c
        /\ call'[r].ok = call[r].ok /\ call'[r].path = call[r].path
    BY <1>1, <2>1, GoesCall, GoesAt DEF Places
  <2>5. /\ scope'.control = scope.control /\ scope'.routes = scope.routes + nodes
        /\ QueuedOps(scope') = QueuedOps(scope)
    BY <1>1, <2>1 DEF TypeOK, Scopes, QueuedOps
  <2>6. CallMoves(r)
    BY <1>1, <1>2, <2>4 DEF CallMoves
  <2>7. /\ Controls' = Controls /\ \A k, s : AfterDelivery(k, s)' <=> AfterDelivery(k, s)
    BY <1>1, SameOps
  <2>8. ASSUME Regular, OneAfterTheOther
        PROVE  FlightExact(r)' /\ SnapsExact' /\ NodesExact'
    <3>1. FlightExact(r) /\ delivered \in Nat
      BY <1>2, <2>8, InFlight
    <3>2. /\ o \in Controls /\ ops[o].index = delivered + 1 /\ ops[o].status = "prepared"
          /\ call[r].c[1] = "execute" /\ call[r].path = delivered + 1
      BY <1>1, <3>1 DEF FlightExact
    <3>3. \A t \in Scopes : AfterDelivery(delivered, t) =>
            Leaves(o, <<"node">>, FALSE, Ran(o), t, scope)
      BY <1>1, <3>1 DEF FlightExact
    <3>4. \A n \in N : n # 0 => \A s \in Scopes : AfterDelivery(delivered, s) => s.routes < n
      <4> SUFFICES ASSUME NEW n \in N, NEW s \in Scopes, AfterDelivery(delivered, s)
                   PROVE  s.routes < n
        OBVIOUS
      <4>1. s.routes <= scope.routes /\ s.routes \in Nat /\ n \in Nat
        BY <2>3, <3>3, LimitAssumption DEF Leaves, Scopes
      <4> QED
        BY <2>2, <2>3, <4>1
    <3>5. SnapsExact' /\ NodesExact' /\ Ran(o)' = Ran(o) \cup (N \ {0})
      <4>1. children' = children \cup {<<delivered + 1, o, n>> : n \in N}
        BY <2>1, <3>2
      <4> QED
        BY <1>1, <2>3, <2>4, <2>8, <3>2, <3>4, <4>1, RunsNode
    <3>6. ASSUME NEW t \in Scopes, AfterDelivery(delivered, t)
          PROVE  Leaves(o, <<"node">>, FALSE, Ran(o)', t, scope')
      <4>1. Leaves(o, <<"node">>, FALSE, Ran(o), t, scope) /\ t.routes \in Nat
        BY <3>3, <3>6 DEF Scopes
      <4>2. \A n \in Ran(o)' : n <= scope'.routes
        <5> SUFFICES ASSUME NEW n \in Ran(o)' PROVE n <= scope'.routes
          OBVIOUS
        <5>1. CASE n \in N
          BY <2>3, <2>5, <5>1
        <5>2. CASE n \in Ran(o)
          <6>1. n <= scope.routes /\ n \in Nat
            <7>1. PICK p \in children : p[2] = o /\ p[3] > 0 /\ n = p[3]
              BY <5>2 DEF Ran
            <7> QED
              BY <1>1, <4>1, <5>2, <7>1 DEF Leaves, TypeOK, Runs
          <6> QED
            BY <2>2, <2>5, <6>1
        <5> QED
          BY <3>5, <5>1, <5>2
      <4> QED
        BY <2>2, <2>5, <4>1, <4>2 DEF Leaves
    <3>7. FlightExact(r)'
      BY <1>1, <2>4, <2>7, <3>2, <3>6 DEF FlightExact
    <3> QED
      BY <3>5, <3>7
  <2> QED
    BY <1>1, <1>2, <2>4, <2>6, <2>8, FlightGoes, SameTold
<1> QED
  BY <1>4, <1>5

LEMMA ReturnsOrdered ==
  ASSUME Inv, CallsInv, NEW r \in Requests, call[r].at \in {"generated", "child"}, Returns(r),
         UNCHANGED <<ops, delivered, final, phase, aborted, started, told, overlapped, children>>
  PROVE  CallsInv'
BY ReturnsCall, ExecutedOrdered DEF Inv

LEMMA ChildEndsOrdered ==
  ASSUME Inv, CallsInv, NEW r \in Requests, ChildEnds(r) \/ GeneratedEnds(r) PROVE CallsInv'
<1> DEFINE o == call[r].op
<1>1. /\ TypeOK /\ call[r].at \in {"generated", "child"} /\ ~IsAsk(call[r].c)
      /\ UNCHANGED <<ops, delivered, final, phase, aborted, started, told, overlapped, children>>
  BY DEF Inv, durable, CallsInv, KindExact, ChildEnds, GeneratedEnds, history
<1>2. Flight(r) /\ phase = "planning"
  BY <1>1, WhoCallsPlans DEF Flight, InCall
<1>3. CASE Returns(r)
  BY <1>1, <1>3, ReturnsOrdered
<1>4. CASE Refuses(r) /\ UNCHANGED scope
  BY <1>1, <1>4, RefusedOrdered
<1>5. CASE ChildEnds(r) /\ call[r].c[1] # "node" /\ Goes(r, "generated") /\ UNCHANGED scope
  <2>1. /\ \A q \in Requests \ {r} : call'[q] = call[q]
        /\ call'[r].at = "generated" /\ call'[r].op = o /\ call'[r].c = call[r].c
        /\ call'[r].path = call[r].path
    BY <1>1, <1>5, GoesCall, GoesAt DEF Places
  <2>2. CallMoves(r)
    BY <1>1, <1>2, <2>1 DEF CallMoves
  <2>3. /\ Controls' = Controls /\ \A k, s : AfterDelivery(k, s)' <=> AfterDelivery(k, s)
        /\ Ran(o)' = Ran(o)
    BY <1>1, <2>1, SameOps DEF Ran
  <2>4. ASSUME Regular, OneAfterTheOther PROVE FlightExact(r)'
    <3>1. FlightExact(r) /\ call[r].at = "child"
      BY <1>2, <1>5, <2>4, InFlight DEF ChildEnds
    <3>2. call[r].c[1] = "execute"
      BY <1>5, <3>1 DEF FlightExact
    <3>3. \A t \in Scopes : AfterDelivery(delivered, t) =>
            Leaves(o, <<"node">>, FALSE, Ran(o), t, scope')
      BY <1>5, <3>1 DEF FlightExact
    <3> QED
      BY <1>1, <2>1, <2>3, <3>1, <3>2, <3>3 DEF FlightExact
  <2> QED
    BY <1>1, <1>2, <2>1, <2>2, <2>4, FlightGoes, SameTold
<1> QED
  BY <1>3, <1>4, <1>5 DEF ChildEnds, GeneratedEnds

LEMMA CallAbortedOrdered ==
  ASSUME Inv, CallsInv, NEW r \in Requests, CallAborted(r) PROVE CallsInv'
<1>1. /\ TypeOK /\ aborted /\ call[r].at \in {"policy", "generated", "child", "waiting", "prepared"}
      /\ ~IsAsk(call[r].c)
      /\ UNCHANGED <<ops, delivered, final, phase, aborted, started, told, overlapped, children, scope>>
      /\ Ends(r, "threw")
  BY DEF Inv, durable, CallsInv, KindExact, CallAborted, history, Listening, Execution, Throws
<1>2. Flight(r) /\ phase = "planning"
  BY <1>1, WhoCallsPlans DEF Flight, InCall
<1>3. /\ \A q \in Requests \ {r} : call'[q] = call[q]
      /\ call'[r].at = "threw"
  BY <1>1, EndsCall DEF Places
<1>4. CallMoves(r)
  BY <1>1, <1>2, <1>3 DEF CallMoves
<1> QED
  BY <1>1, <1>2, <1>3, <1>4, FlightThrows, SameTold

(* The snapshot that is recorded counts the call: it is never out of turn.  *)
LEMMA RecordOrdered ==
  ASSUME Inv, CallsInv, NEW r \in Requests, Record(r) PROVE CallsInv'
<1> DEFINE o == call[r].op
<1>1. /\ TypeOK /\ call[r].at = "executed" /\ ~IsAsk(call[r].c)
      /\ UNCHANGED <<ops, delivered, final, phase, aborted, started, told, overlapped, children, scope>>
  BY DEF Inv, durable, CallsInv, KindExact, Record, history
<1>2. Flight(r) /\ phase = "planning" /\ call[r] \in InProgress
  BY <1>1, WhoCallsPlans DEF Flight, InCall
<1>3. ASSUME Regular, OneAfterTheOther
      PROVE  ~(scope.control < ops[o].index)
  <2>1. /\ FlightExact(r) /\ delivered \in Nat
        /\ \E s \in Scopes : AfterDelivery(delivered, s)
    BY <1>2, <1>3, InFlight
  <2>2. PICK s \in Scopes : AfterDelivery(delivered, s)
    BY <2>1
  <2>3. scope.control = s.control + 1 /\ ops[o].index = delivered + 1
    BY <1>1, <2>1, <2>2 DEF FlightExact, Leaves
  <2>4. s.control = delivered
    BY <1>3, <2>1, <2>2, AfterExact DEF OneAfterTheOther
  <2> QED
    BY <2>1, <2>3, <2>4
<1>4. CASE scope.control < ops[o].index
  <2>1. Ends(r, "threw")
    BY <1>4 DEF Record, Throws
  <2>2. /\ \A q \in Requests \ {r} : call'[q] = call[q]
        /\ call'[r].at = "threw"
    BY <1>1, <2>1, EndsCall DEF Places
  <2>3. CallMoves(r)
    BY <1>1, <1>2, <2>2 DEF CallMoves
  <2>4. ~(Regular /\ OneAfterTheOther)
    BY <1>3, <1>4
  <2> QED
    BY <1>1, <1>2, <2>2, <2>3, <2>4, FlightThrows, SameTold
<1>5. CASE ~(scope.control < ops[o].index)
  <2> DEFINE k == [call[r] EXCEPT !.at = "recording", !.snap = scope]
  <2>1. call' = [call EXCEPT ![r] = k]
    BY <1>1, <1>5 DEF Record, freedomSnapshot, TypeOK
  <2>2. /\ k.at = "recording" /\ k.op = o /\ k.c = call[r].c /\ k.ok = call[r].ok
        /\ k.snap = scope
    BY <1>2 DEF InProgress
  <2> HIDE DEF k
  <2>3. /\ \A q \in Requests \ {r} : call'[q] = call[q]
        /\ call'[r].at = "recording" /\ call'[r].op = o /\ call'[r].c = call[r].c
        /\ call'[r].ok = call[r].ok /\ call'[r].snap = scope
    BY <1>1, <2>1, <2>2 DEF TypeOK
  <2>4. CallMoves(r)
    BY <1>1, <1>2, <2>3 DEF CallMoves
  <2>5. /\ Controls' = Controls /\ \A j, s : AfterDelivery(j, s)' <=> AfterDelivery(j, s)
        /\ Ran(o)' = Ran(o)
    BY <1>1, <2>3, SameOps DEF Ran
  <2>6. ASSUME Regular, OneAfterTheOther PROVE FlightExact(r)'
    <3>1. FlightExact(r)
      BY <1>2, <2>6, InFlight
    <3>2. /\ o \in Controls /\ ops[o].index = delivered + 1 /\ ops[o].status = "prepared"
          /\ \A s \in Scopes : AfterDelivery(delivered, s) =>
                Leaves(o, call[r].c, call[r].ok, Ran(o), s, scope)
      BY <1>1, <3>1 DEF FlightExact
    <3>3. \A s \in Scopes : AfterDelivery(delivered, s) =>
            Leaves(o, call[r].c, call'[r].ok, Ran(o), s, call'[r].snap)
      BY <2>3, <3>2
    <3> QED
      BY <1>1, <2>3, <2>5, <3>2, <3>3 DEF FlightExact
  <2> QED
    BY <1>1, <1>2, <2>3, <2>4, <2>6, FlightGoes, SameTold
<1> QED
  BY <1>4, <1>5

(* The executor makes a result durable: what the journal has.               *)
LEMMA IncorporateOrdered ==
  ASSUME Inv, CallsInv, NEW r \in Requests, Incorporate(r) PROVE CallsInv'
<1> DEFINE o == call[r].op
           new == <<o, <<call[r].try, call[r].ok>>>>
<1>1. /\ TypeOK /\ call[r].at = "result" /\ CallExact(r) /\ KindExact(r)
      /\ UNCHANGED <<ops, delivered, final, phase, aborted, started, overlapped, children, scope>>
      /\ told' = told \cup {new}
  BY DEF Inv, durable, CallsInv, Incorporate, history
<1>2. /\ phase = "planning" /\ Completed(o) /\ o \in Known
      /\ new = <<o, <<ops[o].try, ops[o].ok>>>>
  BY <1>1, WhoCallsPlans DEF InCall, CallExact
<1>3. ToldExact'
  <2> SUFFICES ASSUME NEW t \in told'
               PROVE  t[1] \in Known' /\ Completed(t[1])' /\ t[2] = <<ops'[t[1]].try, ops'[t[1]].ok>>
    BY DEF ToldExact
  <2>1. Known' = Known /\ \A p : Completed(p)' <=> Completed(p)
    BY <1>1, SameOps
  <2>2. CASE t \in told
    BY <1>1, <2>1, <2>2 DEF CallsInv, ToldExact
  <2>3. CASE t = new
    <3>1. t[1] = o /\ t[2] = <<ops[o].try, ops[o].ok>>
      BY <1>2, <2>3
    <3> QED
      BY <1>1, <1>2, <2>1, <3>1
  <2> QED
    BY <1>1, <2>2, <2>3
<1> HIDE DEF new
<1>4. CASE IsAsk(call[r].c)
  <2>1. Ends(r, "done")
    BY <1>4 DEF Incorporate
  <2>2. /\ \A q \in Requests \ {r} : call'[q] = call[q]
        /\ call'[r].at = "done"
    BY <1>1, <2>1, EndsCall DEF Places
  <2>3. KindExact(r)' /\ CallMoves(r) /\ ~Flight(r)'
    BY <1>1, <1>2, <2>2 DEF KindExact, CallMoves, Flight, InCall
  <2>4. ASSUME Regular, OneAfterTheOther
        PROVE  SnapsExact' /\ NodesExact' /\ BetweenExact'
    <3>1. /\ Asks' = Asks /\ Controls' = Controls
          /\ \A j, s : AfterDelivery(j, s)' <=> AfterDelivery(j, s)
      BY <1>1, SameOps
    <3>2. \A q \in Requests : Flight(q)' => Flight(q) /\ q # r
      BY <1>4, <2>2, <2>3 DEF Flight, InCall
    <3>3. \A q \in Requests : Flight(q) => Flight(q)' /\ q # r
      BY <1>4, <2>2 DEF Flight, InCall
    <3>4. BetweenExact'
      BY <1>1, <2>2, <2>4, <3>1, <3>2, <3>3 DEF BetweenExact, Behind, OneAfterTheOther
    <3> QED
      BY <1>1, <2>4, <3>4, SameRecords DEF OneAfterTheOther
  <2> QED
    BY <1>1, <1>3, <2>3, <2>4, CallMovesKeeps
<1>5. CASE ~IsAsk(call[r].c)
  <2>1. Ends(r, "told")
    BY <1>5 DEF Incorporate
  <2>2. /\ \A q \in Requests \ {r} : call'[q] = call[q]
        /\ call'[r].at = "told" /\ call'[r].op = o /\ call'[r].c = call[r].c
    BY <1>1, <2>1, EndsCall DEF Places
  <2>3. Flight(r) /\ CallMoves(r)
    BY <1>1, <1>2, <1>5, <2>2 DEF CallMoves, Flight, InCall
  <2>4. ASSUME Regular, OneAfterTheOther PROVE FlightExact(r)'
    <3>1. FlightExact(r)
      BY <2>3, <2>4, InFlight
    <3>2. o \in Controls /\ ops[o].index = delivered + 1
      BY <1>1, <3>1 DEF FlightExact
    <3>3. Controls' = Controls /\ \A p : Completed(p)' <=> Completed(p)
      BY <1>1, SameOps
    <3>4. <<o, <<ops[o].try, ops[o].ok>>>> \in told'
      BY <1>1, <1>2
    <3> QED
      BY <1>1, <1>2, <2>2, <3>2, <3>3, <3>4 DEF FlightExact
  <2> QED
    BY <1>1, <1>3, <2>2, <2>3, <2>4, FlightGoes
<1> QED
  BY <1>4, <1>5

(* The next result is delivered: the scope becomes its snapshot.            *)
LEMMA DeliversOrdered ==
  ASSUME Inv, CallsInv, NEW r \in Requests, call[r].at \in {"told", "waiting"}, Delivers(r),
         UNCHANGED <<ops, delivered, final, phase, aborted, started, told, overlapped, children>>,
         Regular /\ OneAfterTheOther => /\ Restorable(ops[call[r].op].snap)
                                        /\ call[r].at = "told"
  PROVE  CallsInv'
<1> DEFINE o == call[r].op
<1>1. TypeOK /\ ~IsAsk(call[r].c)
  BY DEF Inv, CallsInv, KindExact
<1>2. Flight(r) /\ phase = "planning" /\ call[r] \in InProgress
  BY <1>1, WhoCallsPlans DEF Flight, InCall
<1>3. CASE ~Restorable(ops[o].snap)
  <2>1. Ends(r, "threw") /\ UNCHANGED scope
    BY <1>3 DEF Delivers, Throws
  <2>2. /\ \A q \in Requests \ {r} : call'[q] = call[q]
        /\ call'[r].at = "threw"
    BY <1>1, <2>1, EndsCall DEF Places
  <2>3. CallMoves(r)
    BY <1>2, <2>2 DEF CallMoves
  <2> QED
    BY <1>2, <1>3, <2>1, <2>2, <2>3, FlightThrows, SameTold
<1>4. CASE Restorable(ops[o].snap)
  <2>1. Goes(r, "delivering") /\ scope' = ops[o].snap
    BY <1>4 DEF Delivers, Restored
  <2>2. /\ \A q \in Requests \ {r} : call'[q] = call[q]
        /\ call'[r].at = "delivering" /\ call'[r].op = o /\ call'[r].c = call[r].c
    BY <1>1, <2>1, GoesCall DEF Places
  <2>3. CallMoves(r)
    BY <1>2, <2>2 DEF CallMoves
  <2>4. ASSUME Regular, OneAfterTheOther PROVE FlightExact(r)'
    <3>1. FlightExact(r) /\ call[r].at = "told"
      BY <1>2, <2>4, InFlight
    <3>2. /\ o \in Controls /\ ops[o].index = delivered + 1 /\ Completed(o)
          /\ <<o, <<ops[o].try, ops[o].ok>>>> \in told
      BY <3>1 DEF FlightExact
    <3>3. Controls' = Controls /\ \A p : Completed(p)' <=> Completed(p)
      BY SameOps
    <3> QED
      BY <2>1, <2>2, <3>2, <3>3 DEF FlightExact
  <2> QED
    BY <1>2, <2>2, <2>3, <2>4, FlightGoes, SameTold
<1> QED
  BY <1>3, <1>4

(* A call waits for an earlier one only if they overlapped.                 *)
LEMMA WaitsOrdered ==
  ASSUME Inv, CallsInv, NEW r \in Requests, call[r].at \in {"told", "waiting"}, WaitsFor(r),
         UNCHANGED <<ops, delivered, final, phase, aborted, started, told, overlapped, children>>,
         ~(Regular /\ OneAfterTheOther)
  PROVE  CallsInv'
<1> DEFINE o == call[r].op
           k == [call[r] EXCEPT !.at = "waiting", !.waits = delivered + 1]
<1>1. TypeOK /\ ~IsAsk(call[r].c)
  BY DEF Inv, CallsInv, KindExact
<1>2. Flight(r) /\ phase = "planning" /\ call[r] \in InProgress
  BY <1>1, WhoCallsPlans DEF Flight, InCall
<1>3. call' = [call EXCEPT ![r] = k]
  BY <1>1 DEF WaitsFor, TypeOK
<1>4. k.at = "waiting" /\ k.op = o /\ k.c = call[r].c
  BY <1>2 DEF InProgress
<1> HIDE DEF k
<1>5. /\ \A q \in Requests \ {r} : call'[q] = call[q]
      /\ call'[r].at = "waiting" /\ call'[r].op = o /\ call'[r].c = call[r].c
  BY <1>1, <1>3, <1>4 DEF TypeOK
<1>6. CallMoves(r)
  BY <1>2, <1>5 DEF CallMoves
<1> QED
  BY <1>2, <1>5, <1>6, FlightGoes, SameTold

LEMMA CompleteOrdered ==
  ASSUME Inv, CallsInv, NEW r \in Requests, Complete(r) \/ Woken(r) PROVE CallsInv'
<1> DEFINE o == call[r].op
           index == ops[o].index
<1>1. /\ TypeOK /\ call[r].at \in {"told", "waiting"} /\ ~IsAsk(call[r].c)
      /\ UNCHANGED <<ops, delivered, final, phase, aborted, started, told, overlapped, children>>
  BY DEF Inv, durable, CallsInv, KindExact, Complete, Woken, history
<1>2. Flight(r) /\ phase = "planning"
  BY <1>1, WhoCallsPlans DEF Flight, InCall
<1>3. ASSUME Regular, OneAfterTheOther
      PROVE  /\ call[r].at = "told" /\ index = delivered + 1 /\ Restorable(ops[o].snap)
             /\ index \in Nat /\ delivered \in Nat
  <2>1. FlightExact(r) /\ delivered \in Nat
    BY <1>2, <1>3, InFlight
  <2>2. call[r].at = "told" /\ o \in Controls /\ index = delivered + 1 /\ Completed(o)
    BY <1>1, <2>1 DEF FlightExact
  <2> QED
    BY <1>3, <2>1, <2>2 DEF Regular
<1> HIDE DEF index
<1>4. CASE Delivers(r)
  BY <1>1, <1>3, <1>4, DeliversOrdered
<1>5. CASE WaitsFor(r) /\ index > delivered + 1
  <2>1. ~(Regular /\ OneAfterTheOther)
    BY <1>3, <1>5
  <2> QED
    BY <1>1, <1>5, <2>1, WaitsOrdered
<1>6. CASE index <= delivered /\ Throws(r) /\ UNCHANGED scope
  <2>1. ~(Regular /\ OneAfterTheOther)
    BY <1>3, <1>6
  <2>2. /\ \A q \in Requests \ {r} : call'[q] = call[q]
        /\ call'[r].at = "threw"
    BY <1>1, <1>6, EndsCall DEF Places, Throws
  <2>3. CallMoves(r)
    BY <1>1, <1>2, <2>2 DEF CallMoves
  <2> QED
    BY <1>1, <1>2, <1>6, <2>1, <2>2, <2>3, FlightThrows, SameTold
<1>7. Delivers(r) \/ (WaitsFor(r) /\ index > delivered + 1)
      \/ (index <= delivered /\ Throws(r) /\ UNCHANGED scope)
  BY DEF Complete, Woken, index
<1> QED
  BY <1>4, <1>5, <1>6, <1>7

-----------------------------------------------------------------------------
(* A question leaves the scope, and what the control calls have done.       *)
LEMMA AskKeeps ==
  ASSUME Inv, CallsInv, NEW r \in Requests, CallMoves(r), ~Flight(r), ~Flight(r)', KindExact(r)',
         UNCHANGED <<told, scope, children>>, call'[r].at = "threw" => call'[r].op = 0
  PROVE  CallsInv'
<1>1. UNCHANGED <<ops, delivered, phase, aborted>> /\ \A q \in Requests \ {r} : call'[q] = call[q]
  BY DEF CallMoves
<1>2. ASSUME Regular, OneAfterTheOther PROVE SnapsExact' /\ NodesExact' /\ BetweenExact'
  <2>1. /\ Asks' = Asks /\ Controls' = Controls
          /\ \A j, s : AfterDelivery(j, s)' <=> AfterDelivery(j, s)
    BY <1>1, SameOps
  <2>2. \A q \in Requests : Flight(q)' <=> Flight(q) /\ q # r
    BY <1>1 DEF Flight, InCall
  <2>3. BetweenExact'
    BY <1>1, <1>2, <2>1, <2>2 DEF BetweenExact, Behind, OneAfterTheOther
  <2> QED
    BY <1>1, <1>2, <2>3, SameRecords DEF OneAfterTheOther
<1>3. ToldExact'
  BY <1>1, SameTold
<1> QED
  BY <1>2, <1>3, CallMovesKeeps

LEMMA AskIssueOrdered ==
  ASSUME Inv, CallsInv, NEW r \in Requests, NEW c \in Calls[mode],
         AskAgain(r, c) \/ AskBlocked(r, c) \/ AskNew(r, c)
  PROVE  CallsInv'
<1>1. /\ TypeOK /\ MayCall(r, c) /\ IsAsk(c)
      /\ UNCHANGED <<ops, delivered, final, told, phase, scope, aborted, children, started, overlapped>>
  BY DEF Inv, AskAgain, AskBlocked, AskNew, durable, history
<1>2. c \in AllCalls /\ phase = "planning" /\ call[r].at = "idle" /\ (r \in Known => c = ops[r].c)
  BY <1>1, MayCallTyped
<1>3. call[r].op = 0 /\ ~Flight(r)
  BY <1>2 DEF CallsInv, KindExact, Flight, InCall
<1>4. ASSUME NEW o \in Requests, NEW place \in {"found", "marking", "preparing"},
             Binds(r, c, o, place), place # "preparing" => ops[o].c[1] = c[1]
      PROVE  CallsInv'
  <2>1. place \in Places
    BY DEF Places
  <2>2. /\ \A q \in Requests \ {r} : call'[q] = call[q]
        /\ call'[r].at = place /\ call'[r].c = c /\ call'[r].op = o
    BY <1>1, <1>2, <1>4, <2>1, BindsCall
  <2>3. KindExact(r)' /\ CallMoves(r) /\ ~Flight(r)'
    BY <1>1, <1>2, <1>4, <2>2 DEF KindExact, CallMoves, Flight
  <2> QED
    BY <1>1, <1>3, <2>2, <2>3, AskKeeps
<1>5. CASE Throws(r)
  <2>1. /\ \A q \in Requests \ {r} : call'[q] = call[q]
        /\ call'[r].at = "threw" /\ call'[r].op = 0
    BY <1>1, <1>3, <1>5, EndsCall DEF Throws, Places
  <2>2. KindExact(r)' /\ CallMoves(r) /\ ~Flight(r)'
    BY <1>1, <1>2, <2>1 DEF KindExact, CallMoves, Flight, InCall
  <2> QED
    BY <1>1, <1>3, <2>1, <2>2, AskKeeps
<1>6. \A o \in Asks : o \in Requests
  BY DEF Asks, Known
<1>7. CASE AskAgain(r, c)
  <2>1. PICK o \in Asks : /\ r = o \/ (r \notin Known /\ Same(c) = {o} /\ Completed(o))
                          /\ Binds(r, c, o, "found")
    BY <1>7 DEF AskAgain
  <2>2. o \in Same(c) => ops[o].c = c
    BY DEF Same
  <2>3. ops[o].c[1] = c[1]
    BY <1>2, <2>1, <2>2 DEF Asks
  <2> QED
    BY <1>4, <1>6, <2>1, <2>3
<1>8. CASE AskBlocked(r, c)
  <2>1. Throws(r) \/ \E o \in AsksLike(c) : Binds(r, c, o, "marking")
    BY <1>8 DEF AskBlocked
  <2>2. ASSUME NEW o \in AsksLike(c), Binds(r, c, o, "marking")
        PROVE  CallsInv'
    <3>1. o \in Asks /\ ops[o].c[1] = c[1]
      BY DEF AsksLike
    <3> QED
      BY <1>4, <1>6, <2>2, <3>1
  <2> QED
    BY <1>5, <2>1, <2>2
<1>9. CASE AskNew(r, c)
  BY <1>4, <1>9 DEF AskNew
<1> QED
  BY <1>7, <1>8, <1>9

(* A question that was bound goes on.                                       *)
LEMMA AskGoesOrdered ==
  ASSUME Inv, CallsInv, NEW r \in Requests,
         AskFound(r) \/ Present(r) \/ Answered(r) \/ AskFails(r)
  PROVE  CallsInv'
<1> DEFINE o == call[r].op
<1>1. /\ TypeOK /\ call[r].at \in {"found", "prepared", "asking"} /\ IsAsk(call[r].c)
      /\ ops[o].c[1] = call[r].c[1]
      /\ UNCHANGED <<ops, delivered, final, told, phase, scope, aborted, children, started, overlapped>>
  BY DEF Inv, CallsInv, KindExact, AskFound, Present, Answered, AskFails, durable, history
<1>2. ~Flight(r) /\ phase = "planning" /\ call[r] \in InProgress
  BY <1>1, WhoCallsPlans DEF Flight, InCall
<1>3. ASSUME NEW k, call' = [call EXCEPT ![r] = k], k.op = o, k.c = call[r].c,
             k.at \in {"result", "marking", "asking", "recording"}
      PROVE  CallsInv'
  <2>1. /\ \A q \in Requests \ {r} : call'[q] = call[q]
        /\ call'[r] = k
    BY <1>1, <1>3 DEF TypeOK
  <2>2. KindExact(r)' /\ CallMoves(r) /\ ~Flight(r)'
    BY <1>1, <1>2, <1>3, <2>1 DEF KindExact, CallMoves, Flight
  <2> QED
    BY <1>1, <1>2, <1>3, <2>1, <2>2, AskKeeps
<1>4. CASE Goes(r, "marking")
  <2> DEFINE k == [call[r] EXCEPT !.at = "marking"]
  <2>1. call' = [call EXCEPT ![r] = k] /\ k.op = o /\ k.c = call[r].c /\ k.at = "marking"
    BY <1>1, <1>2, <1>4 DEF Goes, TypeOK, InProgress
  <2> HIDE DEF k
  <2> QED
    BY <1>3, <2>1
<1>5. CASE AskFound(r)
  <2>1. CASE Completed(o)
    <3> DEFINE k == [call[r] EXCEPT !.at = "result", !.ok = ops[o].ok, !.try = ops[o].try]
    <3>1. call' = [call EXCEPT ![r] = k]
      BY <1>1, <1>5, <2>1 DEF AskFound, TypeOK
    <3>2. k.op = o /\ k.c = call[r].c /\ k.at = "result"
      BY <1>2 DEF InProgress
    <3> HIDE DEF k
    <3> QED
      BY <1>3, <3>1, <3>2
  <2>2. CASE ~Completed(o)
    BY <1>4, <1>5, <2>2 DEF AskFound
  <2> QED
    BY <2>1, <2>2
<1>6. CASE Present(r)
  <2> DEFINE k == [call[r] EXCEPT !.at = "asking", !.ok = TRUE, !.try = attempts[o] + 1]
  <2>1. call' = [call EXCEPT ![r] = k]
    BY <1>1, <1>6 DEF Present, TypeOK
  <2>2. k.op = o /\ k.c = call[r].c /\ k.at = "asking"
    BY <1>2 DEF InProgress
  <2> HIDE DEF k
  <2> QED
    BY <1>3, <2>1, <2>2
<1>7. CASE Answered(r)
  <2>1. PICK ok \in BOOLEAN : call' = [call EXCEPT ![r] = [call[r] EXCEPT !.at = "recording", !.ok = ok]]
    BY <1>1, <1>7 DEF Answered, TypeOK
  <2> DEFINE k == [call[r] EXCEPT !.at = "recording", !.ok = ok]
  <2>2. k.op = o /\ k.c = call[r].c /\ k.at = "recording"
    BY <1>2 DEF InProgress
  <2>3. call' = [call EXCEPT ![r] = k]
    BY <2>1
  <2> HIDE DEF k
  <2> QED
    BY <1>3, <2>2, <2>3
<1>8. CASE AskFails(r)
  BY <1>4, <1>8 DEF AskFails
<1> QED
  BY <1>5, <1>6, <1>7, <1>8

-----------------------------------------------------------------------------
(* A step that completes no control operation and delivers none leaves what *)
(* the delivered ones say; the one that it may create has nothing yet.      *)
ControlsKept ==
  /\ \A p \in Controls : /\ p \in Controls' /\ (Completed(p)' <=> Completed(p))
                         /\ ops'[p].c = ops[p].c /\ ops'[p].index = ops[p].index
                         /\ Completed(p) => ops'[p] = ops[p]
  /\ \A p \in Controls' : p \in Controls \/ (~Completed(p)' /\ Ran(p) = {})
  /\ UNCHANGED <<delivered, children>> /\ told \subseteq told'

LEMMA SameControls ==
  ASSUME Inv, ControlsKept
  PROVE  /\ \A k : Delivered(k)' = Delivered(k)
         /\ \A k, s : AfterDelivery(k, s)' <=> AfterDelivery(k, s)
         /\ SnapsExact => SnapsExact'
         /\ NodesExact => NodesExact'
         /\ IndexExact /\ Controls' = Controls => IndexExact'
<1>0. /\ UNCHANGED <<delivered, children>> /\ told \subseteq told'
      /\ \A p \in Controls' : p \in Controls \/ (~Completed(p)' /\ Ran(p) = {})
      /\ \A p \in Controls : /\ p \in Controls' /\ (Completed(p)' <=> Completed(p))
                             /\ ops'[p].c = ops[p].c /\ ops'[p].index = ops[p].index
                             /\ Completed(p) => ops'[p] = ops[p]
  BY DEF ControlsKept
<1>1. \A k : Delivered(k)' = Delivered(k)
  BY <1>0 DEF Delivered
<1>2. \A k, s : AfterDelivery(k, s)' <=> AfterDelivery(k, s)
  <2> SUFFICES ASSUME NEW k, NEW s PROVE AfterDelivery(k, s)' <=> AfterDelivery(k, s)
    OBVIOUS
  <2>1. \A o \in Delivered(k) : ops'[o].snap = ops[o].snap
    BY <1>0 DEF Delivered
  <2> QED
    BY <1>1, <2>1 DEF AfterDelivery
<1>3. /\ \A k : RouteOps(k)' = RouteOps(k)
      /\ \A k : Counted(k)' = Counted(k)
  <2>1. \A p \in Controls : IsRoute(p)' <=> IsRoute(p)
    BY <1>0 DEF IsRoute
  <2>2. \A p \in Controls' : p \notin Controls => ~IsRoute(p)'
    BY <1>0 DEF IsRoute
  <2>3. \A p : Ran(p)' = Ran(p)
    BY <1>0 DEF Ran
  <2>4. /\ \A p \in Controls : Uses(p)' = Uses(p)
        /\ \A p \in Controls' : p \notin Controls => Uses(p)' = {}
    BY <1>0, <2>1, <2>2, <2>3 DEF Uses
  <2>5. \A k : RouteOps(k)' = RouteOps(k)
    BY <1>0, <2>1, <2>2 DEF RouteOps
  <2>6. \A k : Counted(k)' = Counted(k)
    BY <1>0, <2>4 DEF Counted
  <2> QED
    BY <2>5, <2>6
<1>4. SnapsExact => SnapsExact'
  BY <1>0, <1>3 DEF SnapsExact, QueuedOps
<1>5. NodesExact => NodesExact'
  BY <1>0, <1>2 DEF NodesExact
<1>6. IndexExact /\ Controls' = Controls => IndexExact'
  BY <1>0 DEF IndexExact
<1> QED
  BY <1>1, <1>2, <1>4, <1>5, <1>6

LEMMA KeptRegular ==
  ASSUME ControlsKept, Regular', overlapped' = overlapped PROVE Regular
<1>1. \A o \in Controls : Completed(o) => o \in Controls' /\ Completed(o)'
                                          /\ ops'[o].snap = ops[o].snap
  BY DEF ControlsKept
<1> QED
  BY <1>1, RegularBefore

(* An append of a question lands.                                           *)
LEMMA AskLandsKeeps ==
  ASSUME Inv, CallsInv, NEW r \in Requests, InCall(r), ~Flight(r), ~Flight(r)', KindExact(r)',
         ToldExact',
         \A q \in Requests \ {r} : call'[q] = call[q],
         \A p \in Known : p \in Known' /\ ops'[p].c = ops[p].c,
         \A p \in Controls : ops'[p] = ops[p],
         Controls' = Controls, Asks \subseteq Asks',
         call'[r].at = "threw" => call'[r].op \in Asks',
         UNCHANGED <<delivered, final, phase, told, scope, aborted, overlapped, children, started>>
  PROVE  CallsInv'
<1>1. phase = "planning"
  BY WhoCallsPlans
<1>2. \A q \in Requests : KindExact(q)'
  BY <1>1, KindsKeep
<1>3. SUFFICES ASSUME Regular' PROVE OneAfterTheOther'
  BY <1>2 DEF CallsInv
<1>4. ControlsKept
  BY DEF ControlsKept, Completed
<1>5. Regular /\ OneAfterTheOther
  BY <1>3, <1>4, KeptRegular DEF CallsInv
<1>6. /\ \A k : Delivered(k)' = Delivered(k)
      /\ \A k, s : AfterDelivery(k, s)' <=> AfterDelivery(k, s)
      /\ SnapsExact' /\ NodesExact' /\ IndexExact'
  BY <1>4, <1>5, SameControls DEF OneAfterTheOther
<1>7. \A q \in Requests : Flight(q)' <=> Flight(q) /\ q # r
  BY DEF Flight, InCall
<1>8. ASSUME NEW q \in Requests, Flight(q)' PROVE FlightExact(q)'
  <2>1. FlightExact(q) /\ call'[q] = call[q] /\ call[q].at \notin {"idle", "done", "threw"}
    BY <1>5, <1>7, <1>8 DEF OneAfterTheOther, Flight, InCall
  <2>2. call[q].at # "preparing" => ops'[call[q].op] = ops[call[q].op]
    BY <2>1 DEF FlightExact
  <2> QED
    BY <1>6, <2>1, <2>2 DEF FlightExact, Completed, Leaves, Ran
<1>9. BetweenExact'
  BY <1>5, <1>6, <1>7 DEF OneAfterTheOther, BetweenExact, Behind
<1>10. FinalExact'
  BY <1>5, <1>6 DEF OneAfterTheOther, FinalExact
<1> QED
  BY <1>5, <1>6, <1>7, <1>8, <1>9, <1>10 DEF OneAfterTheOther

(* A new operation: of a control call, it is the next to be delivered.      *)
LEMMA PreparedOrdered ==
  ASSUME Inv, CallsInv, NEW r \in Requests, call[r].at = "preparing", Prepared(r, call[r].op),
         UNCHANGED <<told, scope, aborted, overlapped, children, started>>
  PROVE  CallsInv'
<1> DEFINE c == call[r].c
           k == [call[r] EXCEPT !.at = "prepared", !.index = 0]
           new == [noOp EXCEPT !.status = "prepared", !.c = c, !.index = call[r].index]
<1>1. /\ TypeOK /\ call[r].op = r /\ r \notin Known /\ c \in AllCalls /\ InCall(r)
      /\ phase = "planning" /\ call[r] \in InProgress
      /\ UNCHANGED <<delivered, final, phase>>
  <2>1. InCall(r) /\ CallExact(r)
    BY DEF InCall, Inv
  <2> QED
    BY <2>1, WhoCallsPlans DEF Inv, CallExact, Prepared
<1>2. ops' = [ops EXCEPT ![r] = new] /\ call' = [call EXCEPT ![r] = k]
  BY <1>1 DEF Prepared, TypeOK
<1>3. k.at = "prepared" /\ k.op = r /\ k.c = c /\ k.seen = call[r].seen
  BY <1>1 DEF InProgress
<1>4. new.status = "prepared" /\ new.c = c /\ new.index = call[r].index
  BY <1>1, EmptyTyped DEF Operations, InProgress
<1> HIDE DEF k, new
<1>5. /\ call'[r] = k /\ \A q \in Requests \ {r} : call'[q] = call[q]
      /\ ops'[r] = new /\ \A p \in Requests \ {r} : ops'[p] = ops[p]
  BY <1>1, <1>2 DEF TypeOK
<1>6. /\ \A p \in Known : p # r /\ ops'[p] = ops[p] /\ (Completed(p)' <=> Completed(p))
      /\ Known' = Known \cup {r} /\ ~Completed(r)'
  BY <1>1, <1>4, <1>5 DEF Known, Completed
<1>7. KindExact(r)' /\ ToldExact'
  <2>1. KindExact(r)'
    BY <1>1, <1>3, <1>4, <1>5 DEF KindExact
  <2>2. ToldExact'
    BY <1>6 DEF CallsInv, ToldExact
  <2> QED
    BY <2>1, <2>2
<1>8. Controls \subseteq Known
  BY DEF Controls
<1>9. CASE IsAsk(c)
  <2>1. Controls' = Controls /\ Asks' = Asks \cup {r}
    BY <1>4, <1>5, <1>6, <1>9 DEF Controls, Asks
  <2>2. ~Flight(r) /\ ~Flight(r)'
    BY <1>3, <1>5, <1>9 DEF Flight
  <2> QED
    BY <1>1, <1>3, <1>5, <1>6, <1>7, <1>8, <2>1, <2>2, AskLandsKeeps
<1>10. CASE ~IsAsk(c)
  <2>1. Controls' = Controls \cup {r} /\ Asks' = Asks /\ r \notin Controls
    BY <1>1, <1>4, <1>5, <1>6, <1>8, <1>10 DEF Controls, Asks
  <2>2. \A q \in Requests : KindExact(q)'
    BY <1>1, <1>5, <1>6, <1>7, KindsKeep
  <2>3. SUFFICES ASSUME Regular' PROVE OneAfterTheOther'
    BY <1>7, <2>2 DEF CallsInv
  <2>4. Regular
    <3>1. \A o \in Controls : Completed(o) => o \in Controls' /\ Completed(o)'
                                              /\ ops'[o].snap = ops[o].snap
      BY <1>6, <1>8, <2>1
    <3> QED
      BY <2>3, <3>1, RegularBefore
  <2>5. OneAfterTheOther /\ Flight(r)
    BY <1>1, <1>10, <2>4 DEF CallsInv, Flight
  <2>6. FlightExact(r) /\ delivered \in Nat /\ \A q \in Requests \ {r} : ~Flight(q)
    BY <2>4, <2>5, InFlight
  <2>7. /\ call[r].index = delivered + 1 /\ call[r].seen = delivered
        /\ \A p \in Controls : ops[p].index <= delivered
    BY <2>6 DEF FlightExact
  <2>8. ControlsKept
    <3>1. Ran(r) = {}
      BY <2>1, <2>5 DEF OneAfterTheOther, NodesExact, Ran
    <3> QED
      BY <1>1, <1>6, <1>8, <2>1, <3>1 DEF ControlsKept
  <2>9. /\ \A j : Delivered(j)' = Delivered(j)
        /\ \A j, s : AfterDelivery(j, s)' <=> AfterDelivery(j, s)
        /\ SnapsExact' /\ NodesExact'
    BY <2>5, <2>8, SameControls DEF OneAfterTheOther
  <2>10. IndexExact'
    <3> SUFFICES ASSUME NEW o \in Controls'
                 PROVE  /\ ops'[o].index \in 1..(delivered + 1)
                        /\ \A p \in Controls' : ops'[o].index = ops'[p].index => o = p
                        /\ ops'[o].index <= delivered =>
                             Completed(o)' /\ <<o, <<ops'[o].try, ops'[o].ok>>>> \in told
      BY <1>1 DEF IndexExact
    <3>1. ops'[r].index = delivered + 1 /\ delivered + 1 \in 1..(delivered + 1)
          /\ ~(delivered + 1 <= delivered)
      BY <1>4, <1>5, <2>6, <2>7
    <3>2. \A p \in Controls : ops'[p] = ops[p] /\ ops[p].index # delivered + 1
      BY <1>6, <1>8, <2>6, <2>7
    <3>3. CASE o = r
      BY <2>1, <3>1, <3>2, <3>3
    <3>4. CASE o \in Controls
      BY <1>6, <1>8, <2>1, <2>5, <3>1, <3>2, <3>4 DEF OneAfterTheOther, IndexExact
    <3> QED
      BY <2>1, <3>3, <3>4
  <2>11. \A q \in Requests : Flight(q)' => q = r
    BY <1>5, <2>6 DEF Flight, InCall
  <2>12. FlightExact(r)'
    BY <1>1, <1>3, <1>4, <1>5, <2>1, <2>7 DEF FlightExact
  <2>13. BetweenExact'
    <3>1. \A q \in Requests : Flight(q) => call[q].at \in {"preparing", "prepared"}
      BY <2>6
    <3>2. \A q \in Requests : call'[q].at = "threw" => q # r /\ call[q].at = "threw"
                                                       /\ call'[q].op = call[q].op
      BY <1>3, <1>5
    <3> QED
      BY <1>1, <1>6, <1>8, <2>1, <2>5, <2>9, <3>1, <3>2
         DEF OneAfterTheOther, BetweenExact, Behind
  <2>14. FinalExact'
    BY <1>1, <2>5, <2>9 DEF OneAfterTheOther, FinalExact
  <2> QED
    BY <1>1, <2>5, <2>9, <2>10, <2>11, <2>12, <2>13, <2>14 DEF OneAfterTheOther
<1> QED
  BY <1>9, <1>10

(* A question gets no result any more.                                      *)
LEMMA MarkedOrdered ==
  ASSUME Inv, CallsInv, NEW r \in Requests, call[r].at = "marking", Marked(r, call[r].op),
         UNCHANGED <<told, scope, aborted, overlapped, children, started>>
  PROVE  CallsInv'
<1> DEFINE o == call[r].op
<1>1. /\ TypeOK /\ o \in Known /\ IsAsk(call[r].c) /\ InCall(r) /\ o \in Requests
      /\ ops[o].c[1] = call[r].c[1]
      /\ UNCHANGED <<delivered, final, phase>> /\ Ends(r, "threw")
      /\ ops' = [ops EXCEPT ![o].status = IF @ = "completed" THEN @ ELSE "ambiguous"]
  <2>1. InCall(r) /\ CallExact(r) /\ KindExact(r)
    BY DEF InCall, Inv, CallsInv
  <2> QED
    BY <2>1 DEF Inv, CallExact, KindExact, Marked, Throws
<1>2. /\ \A p \in Requests \ {o} : ops'[p] = ops[p]
      /\ ops'[o].status = IF Completed(o) THEN "completed" ELSE "ambiguous"
      /\ ops'[o].c = ops[o].c /\ (Completed(o) => ops'[o] = ops[o])
  BY <1>1, MarkTyped
<1>3. /\ \A q \in Requests \ {r} : call'[q] = call[q]
      /\ call'[r].at = "threw" /\ call'[r].op = o
  BY <1>1, EndsCall DEF Places
<1> HIDE DEF o
<1>4. /\ Known' = Known /\ \A p \in Known : Completed(p)' <=> Completed(p)
  BY <1>1, <1>2 DEF Known, Completed
<1>5. /\ Controls' = Controls /\ Asks' = Asks /\ o \in Asks
      /\ \A p \in Controls : ops'[p] = ops[p]
  BY <1>1, <1>2, <1>4 DEF Controls, Asks, Known, IsAsk
<1>6. KindExact(r)' /\ ~Flight(r) /\ ~Flight(r)'
  <2>1. phase' # "down"
    BY <1>1, WhoCallsPlans
  <2> QED
    BY <1>1, <1>3, <2>1 DEF KindExact, Flight, InCall
<1>7. ToldExact'
  BY <1>2, <1>4 DEF CallsInv, ToldExact, Known
<1>8. \A p \in Known : ops'[p].c = ops[p].c
  BY <1>2 DEF Known
<1> QED
  BY <1>1, <1>3, <1>4, <1>5, <1>6, <1>7, <1>8, AskLandsKeeps

(* A set that grows by one member or by none.                               *)
LEMMA OneMore ==
  ASSUME NEW S, IsFiniteSet(S), NEW x, NEW T, T = S \/ T = S \cup {x}
  PROVE  /\ IsFiniteSet(T) /\ Cardinality(T) \in Nat /\ Cardinality(S) \in Nat
         /\ Cardinality(T) <= Cardinality(S) + 1
<1>1. IsFiniteSet(S \cup {x}) /\ Cardinality(S) \in Nat
      /\ Cardinality(S \cup {x}) = IF x \in S THEN Cardinality(S) ELSE Cardinality(S) + 1
  BY FS_AddElement, FS_CardinalityType
<1>2. CASE T = S
  BY <1>1, <1>2
<1>3. CASE T = S \cup {x}
  BY <1>1, <1>3
<1> QED
  BY <1>2, <1>3

(* A set that grows by pairs, whose numbers are of an interval.             *)
LEMMA ManyMore ==
  ASSUME NEW S, NEW T, NEW R, NEW a \in Nat, NEW b \in Nat, NEW o,
         IsFiniteSet(S), Cardinality(S) <= a, a <= b, R \subseteq (a + 1)..b,
         \A x \in T : x \in S \/ \E m \in R : x = <<o, m>>
  PROVE  IsFiniteSet(T) /\ Cardinality(T) <= b
<1> DEFINE I == (a + 1)..b
           P == {<<o, m>> : m \in R}
           f == [m \in R |-> <<o, m>>]
<1>1. IsFiniteSet(I) /\ Cardinality(I) = b - a
  <2>1. a + 1 \in Int /\ b \in Int
    OBVIOUS
  <2>2. IsFiniteSet(I) /\ Cardinality(I) = IF a + 1 > b THEN 0 ELSE b - (a + 1) + 1
    BY <2>1, FS_Interval
  <2> HIDE DEF I
  <2> QED
    BY <2>2
<1>2. IsFiniteSet(R) /\ Cardinality(R) <= b - a
  BY <1>1, FS_Subset
<1>3. f \in Surjection(R, P)
  BY DEF Surjection
<1>4. IsFiniteSet(P) /\ Cardinality(P) <= Cardinality(R)
  BY <1>2, <1>3, FS_Surjection
<1>5. T \subseteq S \cup P
  OBVIOUS
<1> HIDE DEF P
<1>6. /\ IsFiniteSet(S \cup P) /\ IsFiniteSet(S \cap P)
      /\ Cardinality(S \cup P) = Cardinality(S) + Cardinality(P) - Cardinality(S \cap P)
  BY <1>4, FS_Union, FS_Intersection
<1>7. IsFiniteSet(T) /\ Cardinality(T) <= Cardinality(S \cup P)
  BY <1>5, <1>6, FS_Subset
<1>8. /\ Cardinality(S) \in Nat /\ Cardinality(P) \in Nat /\ Cardinality(R) \in Nat
      /\ Cardinality(S \cap P) \in Nat /\ Cardinality(S \cup P) \in Nat /\ Cardinality(T) \in Nat
  BY <1>2, <1>4, <1>6, <1>7, FS_CardinalityType
<1> QED
  BY <1>2, <1>4, <1>6, <1>7, <1>8

\* The operation of the call in flight completes with what it leaves.
Completes(r, o) ==
  /\ ops'[o].status = "completed" /\ ops'[o].c = ops[o].c /\ ops'[o].index = ops[o].index
  /\ ops'[o].ok = call[r].ok /\ ops'[o].snap = call[r].snap
  /\ \A p \in Requests \ {o} : ops'[p] = ops[p]
  /\ UNCHANGED <<delivered, children, told>>

LEMMA CompletesExact ==
  ASSUME Inv, CallsInv, Regular, OneAfterTheOther, NEW r \in Requests, Flight(r),
         call[r].at = "recording", NEW o, o = call[r].op, Completes(r, o)
  PROVE  /\ Controls' = Controls /\ Asks' = Asks
         /\ \A k \in 0..delivered : \A s : AfterDelivery(k, s)' <=> AfterDelivery(k, s)
         /\ \A k \in 1..delivered : Delivered(k)' = Delivered(k)
         /\ IndexExact' /\ SnapsExact' /\ NodesExact'
<1> DEFINE registers == ops[o].c[1] = "route" /\ call[r].ok
<1> SUFFICES ASSUME NEW n, n = delivered + 1
             PROVE  /\ Controls' = Controls /\ Asks' = Asks
                    /\ \A k \in 0..delivered : \A s : AfterDelivery(k, s)' <=> AfterDelivery(k, s)
                    /\ \A k \in 1..delivered : Delivered(k)' = Delivered(k)
                    /\ IndexExact' /\ SnapsExact' /\ NodesExact'
  OBVIOUS
<1>1. /\ FlightExact(r) /\ delivered \in Nat /\ o \in Requests
      /\ \E s \in Scopes : AfterDelivery(delivered, s)
  BY InFlight
<1>2. /\ o \in Controls /\ ops[o].index = n /\ ops[o].status = "prepared"
      /\ \A s \in Scopes : AfterDelivery(delivered, s) =>
            Leaves(o, call[r].c, call[r].ok, Ran(o), s, call[r].snap)
  BY <1>1 DEF FlightExact
<1>3. ops[o].c = call[r].c
  BY DEF CallsInv, KindExact, Flight
<1>4. /\ Completed(o)' /\ ~Completed(o) /\ ops'[o].c = ops[o].c /\ ops'[o].index = n
      /\ ops'[o].ok = call[r].ok /\ ops'[o].snap = call[r].snap
      /\ \A p \in Requests \ {o} : ops'[p] = ops[p] /\ (Completed(p)' <=> Completed(p))
      /\ UNCHANGED <<delivered, children, told>>
  BY <1>2 DEF Completes, Completed
<1>5. Controls' = Controls /\ Asks' = Asks
  <2>1. Known' = Known
    BY <1>1, <1>2, <1>4 DEF Known, Completed, Controls
  <2>2. \A p \in Known : ops'[p].c = ops[p].c
    BY <1>4 DEF Known
  <2> QED
    BY <2>1, <2>2 DEF Controls, Asks
<1>6. \A p \in Controls : p \in Requests /\ ops'[p].index = ops[p].index
                          /\ (p # o => ops'[p] = ops[p] /\ (Completed(p)' <=> Completed(p)))
  BY <1>2, <1>4 DEF Controls, Known
<1>7. ASSUME NEW p \in Controls
      PROVE  /\ ops[p].index \in Nat /\ ops[p].index \in 1..n /\ (ops[p].index = n => p = o)
             /\ (p # o => ops[p].index <= delivered)
  <2>1. ops[p].index \in Nat /\ ops[p].index \in 1..n
    BY ControlsTyped DEF OneAfterTheOther, IndexExact
  <2>2. ops[p].index = n => p = o
    BY <1>2 DEF OneAfterTheOther, IndexExact
  <2> QED
    BY <1>1, <2>1, <2>2
<1>8. n \notin 0..delivered /\ (\A k \in 0..delivered : ~(n <= k)) /\ n \in Nat
      /\ \A k \in Nat : k <= n <=> k <= delivered \/ k = n
  BY <1>1
<1>9. \A k \in 0..delivered : /\ Delivered(k)' = Delivered(k) /\ RouteOps(k)' = RouteOps(k)
                              /\ Counted(k)' = Counted(k)
  <2> SUFFICES ASSUME NEW k \in 0..delivered
               PROVE  /\ Delivered(k)' = Delivered(k) /\ RouteOps(k)' = RouteOps(k)
                      /\ Counted(k)' = Counted(k)
    OBVIOUS
  <2>1. Delivered(k)' = Delivered(k)
    BY <1>2, <1>5, <1>6, <1>8 DEF Delivered
  <2>2. \A p \in Controls : ops[p].index <= k => p # o /\ (IsRoute(p)' <=> IsRoute(p))
    BY <1>2, <1>6, <1>8 DEF IsRoute
  <2>3. \A p : Ran(p)' = Ran(p)
    BY <1>4 DEF Ran
  <2>4. RouteOps(k)' = RouteOps(k)
    BY <1>5, <1>6, <2>2 DEF RouteOps
  <2>5. \A p \in Controls : ops[p].index <= k => Uses(p)' = Uses(p)
    BY <2>2, <2>3 DEF Uses
  <2>6. Counted(k)' = Counted(k)
    BY <1>5, <1>6, <2>5 DEF Counted
  <2> QED
    BY <2>1, <2>4, <2>6
<1>10. \A k \in 0..delivered : \A s : AfterDelivery(k, s)' <=> AfterDelivery(k, s)
  <2> SUFFICES ASSUME NEW k \in 0..delivered, NEW s PROVE AfterDelivery(k, s)' <=> AfterDelivery(k, s)
    OBVIOUS
  <2>1. \A p \in Delivered(k) : ops'[p].snap = ops[p].snap
    BY <1>2, <1>6, <1>8 DEF Delivered
  <2> QED
    BY <1>9, <2>1 DEF AfterDelivery
<1>11. IndexExact'
  <2> SUFFICES ASSUME NEW p \in Controls
               PROVE  /\ ops'[p].index \in 1..(delivered + 1)
                      /\ \A q \in Controls : ops'[p].index = ops'[q].index => p = q
                      /\ ops'[p].index <= delivered =>
                           Completed(p)' /\ <<p, <<ops'[p].try, ops'[p].ok>>>> \in told
    BY <1>4, <1>5 DEF IndexExact
  <2>1. /\ ops[p].index \in 1..(delivered + 1)
        /\ \A q \in Controls : ops[p].index = ops[q].index => p = q
        /\ ops[p].index <= delivered => Completed(p) /\ <<p, <<ops[p].try, ops[p].ok>>>> \in told
    BY DEF OneAfterTheOther, IndexExact
  <2>2. ops[p].index <= delivered => p # o
    BY <1>1, <1>2, <1>4, <2>1
  <2> QED
    BY <1>6, <2>1, <2>2
<1>12. SnapsExact'
  <2> SUFFICES ASSUME NEW p \in Controls, Completed(p)'
               PROVE  /\ ops'[p].snap.control = ops'[p].index
                      /\ QueuedOps(ops'[p].snap) = RouteOps(ops[p].index)'
                      /\ IsFiniteSet(Counted(ops[p].index)')
                      /\ Cardinality(Counted(ops[p].index)') <= ops'[p].snap.routes
    BY <1>5, <1>6 DEF SnapsExact, QueuedOps
  <2>1. CASE p # o
    <3>1. ops'[p] = ops[p] /\ Completed(p) /\ ops[p].index \in 0..delivered
      BY <1>1, <1>6, <1>7, <2>1
    <3> QED
      BY <1>9, <3>1 DEF OneAfterTheOther, SnapsExact
  <2>2. CASE p = o
    <3>1. PICK s \in Scopes : AfterDelivery(delivered, s)
      BY <1>1
    <3>2. /\ s.control = delivered /\ QueuedOps(s) = RouteOps(delivered)
          /\ IsFiniteSet(Counted(delivered)) /\ Cardinality(Counted(delivered)) <= s.routes
      BY <1>1, <3>1, AfterExact DEF OneAfterTheOther
    <3>3. Leaves(o, call[r].c, call[r].ok, Ran(o), s, call[r].snap)
      BY <1>2, <3>1
    <3>4. /\ call[r].snap.control = s.control + 1 /\ s.routes <= call[r].snap.routes
          /\ QueuedOps(call[r].snap) = QueuedOps(s) \cup {q \in {o} : registers}
          /\ registers => s.routes < call[r].snap.routes
          /\ \A m \in Ran(o) : m <= call[r].snap.routes
      BY <1>3, <3>3 DEF Leaves
    <3>5. IsRoute(o)' <=> registers
      BY <1>4 DEF IsRoute
    <3>6. \A q \in Controls : q # o => (IsRoute(q)' <=> IsRoute(q))
      BY <1>6 DEF IsRoute
    <3>7. \A q : Ran(q)' = Ran(q)
      BY <1>4 DEF Ran
    <3> HIDE DEF registers
    <3>8. \A q \in Controls : ops[q].index <= n /\ (ops[q].index <= delivered <=> q # o)
      BY <1>1, <1>2, <1>7
    <3>9. RouteOps(n)' = RouteOps(delivered) \cup {q \in {o} : registers}
      BY <1>2, <1>5, <1>6, <3>5, <3>6, <3>8 DEF RouteOps
    <3>10. s.routes \in Nat /\ call[r].snap.routes \in Nat
      BY DEF Inv, TypeOK, InProgress, Scopes
    <3>11. Ran(o) \subseteq 0..MaxRoutes /\ Ran(o) \subseteq (s.routes + 1)..call[r].snap.routes
      <4> SUFFICES ASSUME NEW m \in Ran(o)
                   PROVE  m \in 0..MaxRoutes /\ m \in (s.routes + 1)..call[r].snap.routes
        OBVIOUS
      <4>1. PICK q \in children : q[2] = o /\ q[3] > 0 /\ m = q[3]
        BY DEF Ran
      <4>2. m \in 0..MaxRoutes /\ q[1] = n
        BY <1>2, <4>1 DEF OneAfterTheOther, NodesExact
      <4>3. m \in Nat /\ m # 0 /\ q[1] - 1 = delivered
        BY <1>1, <4>1, <4>2, LimitAssumption
      <4>4. s.routes < m
        BY <3>1, <4>1, <4>3 DEF OneAfterTheOther, NodesExact
      <4> QED
        BY <3>4, <3>10, <4>2, <4>3, <4>4
    <3> DEFINE U == IF registers THEN {0} ELSE Ran(o)
               P == {<<o, m>> : m \in U}
    <3>12. Uses(o)' = U /\ U \subseteq 0..MaxRoutes
      BY <3>5, <3>7, <3>11, LimitAssumption DEF Uses
    <3>13. \A q \in Controls : q # o => Uses(q)' = Uses(q)
      BY <3>6, <3>7 DEF Uses
    <3> HIDE DEF U
    <3>14. Counted(n)' = Counted(delivered) \cup P
      <4>1. \A x \in P : x \in Requests \X (0..MaxRoutes) /\ x[1] = o /\ x[2] \in U
        BY <1>1, <3>12
      <4>2. \A x \in Requests \X (0..MaxRoutes) : x[1] = o /\ x[2] \in U => x \in P
        OBVIOUS
      <4> HIDE DEF P
      <4>3. Counted(n)' = {x \in Requests \X (0..MaxRoutes) :
                             x[1] \in Controls /\ ops[x[1]].index <= n /\ x[2] \in Uses(x[1])'}
        BY <1>5, <1>6 DEF Counted
      <4>4. ASSUME NEW x \in Counted(n)' PROVE x \in Counted(delivered) \cup P
        BY <3>8, <3>12, <3>13, <4>2, <4>3, <4>4 DEF Counted
      <4>5. ASSUME NEW x \in Counted(delivered) PROVE x \in Counted(n)'
        BY <3>8, <3>13, <4>3, <4>5 DEF Counted
      <4>6. ASSUME NEW x \in P PROVE x \in Counted(n)'
        BY <1>2, <3>8, <3>12, <4>1, <4>3, <4>6
      <4> QED
        BY <4>4, <4>5, <4>6
    <3>15. IsFiniteSet(Counted(n)') /\ Cardinality(Counted(n)') <= call[r].snap.routes
      <4>1. CASE registers
        <5>1. Counted(n)' = Counted(delivered) \cup {<<o, 0>>}
          BY <3>14, <4>1 DEF U
        <5>2. /\ IsFiniteSet(Counted(n)') /\ Cardinality(Counted(n)') \in Nat
              /\ Cardinality(Counted(delivered)) \in Nat
              /\ Cardinality(Counted(n)') <= Cardinality(Counted(delivered)) + 1
          BY <3>2, <5>1, OneMore
        <5> QED
          BY <3>2, <3>4, <3>10, <4>1, <5>2
      <4>2. CASE ~registers
        <5>1. U \in SUBSET ((s.routes + 1)..call[r].snap.routes)
          BY <3>11, <4>2 DEF U
        <5>2. \A x \in Counted(n)' : x \in Counted(delivered) \/ \E m \in U : x = <<o, m>>
          BY <3>14
        <5> DEFINE S == Counted(delivered)
                   T == Counted(n)'
                   a == s.routes
                   b == call[r].snap.routes
        <5>3. /\ IsFiniteSet(S) /\ Cardinality(S) <= a /\ a \in Nat /\ b \in Nat /\ a <= b
              /\ U \subseteq (a + 1)..b
              /\ \A x \in T : x \in S \/ \E m \in U : x = <<o, m>>
          BY <3>2, <3>4, <3>10, <5>1, <5>2
        <5> HIDE DEF U, S, T, a, b
        <5>4. IsFiniteSet(T) /\ Cardinality(T) <= b
          BY ONLY <5>3, ManyMore
        <5> QED
          BY <5>4 DEF T, b
      <4> QED
        BY <4>1, <4>2
    <3> QED
      BY <1>2, <1>4, <2>2, <3>2, <3>4, <3>9, <3>15
  <2> QED
    BY <2>1, <2>2
<1>13. NodesExact'
  <2> SUFFICES ASSUME NEW p \in children
               PROVE  /\ p[2] \in Controls /\ p[1] = ops'[p[2]].index
                      /\ ops'[p[2]].c[1] \in {"node", "execute"} /\ p[3] \in 0..MaxRoutes
                      /\ p[3] # 0 => \A s \in Scopes : AfterDelivery(p[1] - 1, s)' => s.routes < p[3]
    BY <1>4, <1>5 DEF NodesExact
  <2>1. /\ p[2] \in Controls /\ p[1] = ops[p[2]].index
        /\ ops[p[2]].c[1] \in {"node", "execute"} /\ p[3] \in 0..MaxRoutes
        /\ p[3] # 0 => \A s \in Scopes : AfterDelivery(p[1] - 1, s) => s.routes < p[3]
    BY DEF OneAfterTheOther, NodesExact
  <2>2. ops'[p[2]].c = ops[p[2]].c /\ ops'[p[2]].index = ops[p[2]].index
    BY <1>4, <1>6, <2>1
  <2>3. p[1] - 1 \in 0..delivered
    <3>1. ops[p[2]].index \in 1..(delivered + 1)
      BY <1>7, <2>1
    <3> QED
      BY <1>1, <2>1, <3>1
  <2> QED
    BY <1>10, <2>1, <2>2, <2>3
<1>14. \A k \in 1..delivered : k \in 0..delivered
  BY <1>1
<1> QED
  BY <1>5, <1>9, <1>10, <1>11, <1>12, <1>13, <1>14

LEMMA DoneOrdered ==
  ASSUME Inv, CallsInv, NEW r \in Requests, call[r].at = "recording", NEW o, o = call[r].op,
         Done(r, o), UNCHANGED <<told, scope, aborted, overlapped, children, started>>
  PROVE  CallsInv'
<1>1. /\ TypeOK /\ o \in Known /\ o \in Requests /\ InCall(r) /\ phase = "planning"
      /\ call[r] \in InProgress /\ ops[o] \in Operations
      /\ ops[o].c[1] = call[r].c[1]
      /\ UNCHANGED <<delivered, final, phase>>
  <2>1. InCall(r) /\ CallExact(r) /\ KindExact(r)
    BY DEF InCall, Inv, CallsInv
  <2> QED
    BY <2>1, WhoCallsPlans DEF Inv, CallExact, KindExact, Done
<1>2. CASE ops[o].status # "prepared"
  <2>1. Ends(r, "threw") /\ UNCHANGED ops
    BY <1>2 DEF Done, Throws
  <2>2. /\ \A q \in Requests \ {r} : call'[q] = call[q]
        /\ call'[r].at = "threw" /\ call'[r].op = o
    BY <1>1, <2>1, EndsCall DEF Places
  <2>3. CASE IsAsk(call[r].c)
    <3>1. /\ Known' = Known /\ Controls' = Controls /\ Asks' = Asks /\ o \in Asks
      BY <1>1, <2>1, <2>3, SameOps DEF Asks, Controls, IsAsk
    <3>2. KindExact(r)' /\ ToldExact' /\ ~Flight(r) /\ ~Flight(r)'
      BY <1>1, <2>1, <2>2, <2>3, SameTold DEF KindExact, Flight, InCall
    <3> QED
      BY <1>1, <2>1, <2>2, <3>1, <3>2, AskLandsKeeps
  <2>4. CASE ~IsAsk(call[r].c)
    <3>1. Flight(r) /\ CallMoves(r)
      BY <1>1, <2>1, <2>2, <2>4 DEF Flight, CallMoves
    <3>2. ~(Regular /\ OneAfterTheOther)
      <4> SUFFICES ASSUME Regular, OneAfterTheOther PROVE FALSE
        OBVIOUS
      <4> QED
        BY <1>2, <3>1, InFlight DEF FlightExact
    <3> QED
      BY <1>1, <2>1, <2>2, <3>1, <3>2, FlightThrows, SameTold
  <2> QED
    BY <2>3, <2>4
<1>3. CASE ops[o].status = "prepared"
  <2> DEFINE k == [call[r] EXCEPT !.at = "result", !.snap = emptyScope]
             new == [ops[o] EXCEPT !.status = "completed", !.ok = call[r].ok,
                                   !.try = call[r].try, !.snap = call[r].snap]
  <2>1. ops' = [ops EXCEPT ![o] = new] /\ call' = [call EXCEPT ![r] = k]
    BY <1>1, <1>3 DEF Done, TypeOK
  <2>2. k.at = "result" /\ k.op = o /\ k.c = call[r].c
    BY <1>1 DEF InProgress
  <2>3. /\ new.status = "completed" /\ new.c = ops[o].c /\ new.index = ops[o].index
        /\ new.ok = call[r].ok /\ new.snap = call[r].snap
    BY <1>1 DEF Operations, InProgress
  <2> HIDE DEF k, new
  <2>4. /\ call'[r] = k /\ \A q \in Requests \ {r} : call'[q] = call[q]
        /\ ops'[o] = new /\ \A p \in Requests \ {o} : ops'[p] = ops[p]
    BY <1>1, <2>1 DEF TypeOK
  <2>5. ~Completed(o) /\ Completes(r, o)
    BY <1>1, <1>3, <2>3, <2>4 DEF Completed, Completes
  <2>6. /\ Known' = Known
        /\ \A p \in Known : ops'[p].c = ops[p].c
        /\ \A p \in Known : Completed(p) => Completed(p)' /\ ops'[p] = ops[p]
    BY <1>1, <2>3, <2>4, <2>5 DEF Known, Completed
  <2>7. KindExact(r)' /\ ToldExact'
    <3>1. KindExact(r)'
      BY <1>1, <2>2, <2>3, <2>4 DEF CallsInv, KindExact
    <3>2. ToldExact'
      BY <2>6 DEF CallsInv, ToldExact
    <3> QED
      BY <3>1, <3>2
  <2>8. CASE IsAsk(call[r].c)
    <3>1. /\ Controls' = Controls /\ Asks' = Asks /\ o \notin Controls
      BY <1>1, <2>6, <2>8 DEF Asks, Controls, IsAsk
    <3>2. \A p \in Controls : ops'[p] = ops[p]
      BY <2>4, <3>1 DEF Controls, Known
    <3>3. ~Flight(r) /\ ~Flight(r)'
      BY <2>2, <2>4, <2>8 DEF Flight
    <3> QED
      BY <1>1, <2>2, <2>4, <2>6, <2>7, <3>1, <3>2, <3>3, AskLandsKeeps
  <2>9. CASE ~IsAsk(call[r].c)
    <3>1. \A q \in Requests : KindExact(q)'
      BY <1>1, <2>4, <2>6, <2>7, KindsKeep
    <3>2. SUFFICES ASSUME Regular' PROVE OneAfterTheOther'
      BY <2>7, <3>1 DEF CallsInv
    <3>3. Regular
      <4>1. Controls \subseteq Known /\ Controls' = Controls
        BY <2>6 DEF Controls
      <4> QED
        BY <2>6, <3>2, <4>1, RegularBefore
    <3>4. OneAfterTheOther /\ Flight(r)
      BY <1>1, <2>9, <3>3 DEF CallsInv, Flight
    <3>5. FlightExact(r) /\ delivered \in Nat /\ \A q \in Requests \ {r} : ~Flight(q)
      BY <3>3, <3>4, InFlight
    <3>6. /\ Controls' = Controls /\ Asks' = Asks
          /\ \A j \in 0..delivered : \A s : AfterDelivery(j, s)' <=> AfterDelivery(j, s)
          /\ \A j \in 1..delivered : Delivered(j)' = Delivered(j)
          /\ IndexExact' /\ SnapsExact' /\ NodesExact'
      BY <2>5, <3>3, <3>4, CompletesExact
    <3>7. \A s : AfterDelivery(delivered, s)' <=> AfterDelivery(delivered, s)
      BY <1>1, <3>5, <3>6
    <3>8. \A q \in Requests : Flight(q)' => q = r
      BY <2>4, <3>5 DEF Flight, InCall
    <3>9. FlightExact(r)' /\ Flight(r)'
      <4>1. o \in Controls /\ ops[o].index = delivered + 1
        BY <3>5 DEF FlightExact
      <4> QED
        BY <1>1, <2>2, <2>3, <2>4, <2>9, <3>6, <4>1 DEF FlightExact, Completed, Flight, InCall
    <3>10. BetweenExact'
      <4>1. \A q \in Requests : call'[q].at = "threw" => call[q].at = "threw"
                                                         /\ call'[q].op = call[q].op
        BY <2>2, <2>4
      <4>2. \A p \in Controls : ops'[p].index = ops[p].index
        BY <2>3, <2>4 DEF Controls, Known
      <4>3. \A p : Behind(p) => Behind(p)'
        BY <1>1, <3>6, <4>2 DEF Behind
      <4> QED
        BY <1>1, <2>2, <2>4, <3>4, <3>6, <3>9, <4>1, <4>3 DEF OneAfterTheOther, BetweenExact
    <3>11. FinalExact'
      BY <1>1, <3>4, <3>7 DEF OneAfterTheOther, FinalExact
    <3> QED
      BY <1>1, <3>4, <3>6, <3>8, <3>9, <3>10, <3>11 DEF OneAfterTheOther
  <2> QED
    BY <2>8, <2>9
<1> QED
  BY <1>2, <1>3

(* The next result has been delivered, and the scope is its snapshot.       *)
LEMMA ProgressOrdered ==
  ASSUME Inv, CallsInv, NEW r \in Requests, call[r].at = "delivering", NEW o, o = call[r].op,
         Progress(r, o), UNCHANGED <<told, scope, aborted, overlapped, children, started>>
  PROVE  CallsInv'
<1>1. /\ TypeOK /\ InCall(r) /\ phase = "planning" /\ ~IsAsk(call[r].c) /\ Flight(r)
      /\ UNCHANGED <<ops, final, phase>> /\ delivered' = ops[o].index /\ Ends(r, "done")
  <2>1. InCall(r) /\ KindExact(r)
    BY DEF InCall, CallsInv
  <2> QED
    BY <2>1, WhoCallsPlans DEF Inv, KindExact, Progress, Flight
<1>2. /\ \A q \in Requests \ {r} : call'[q] = call[q]
      /\ call'[r].at = "done"
  BY <1>1, EndsCall DEF Places
<1>3. /\ Known' = Known /\ Controls' = Controls /\ Asks' = Asks
      /\ \A p : Completed(p)' <=> Completed(p)
      /\ \A p : IsRoute(p)' <=> IsRoute(p)
      /\ \A k : Delivered(k)' = Delivered(k)
      /\ \A k, s : AfterDelivery(k, s)' <=> AfterDelivery(k, s)
      /\ \A k : RouteOps(k)' = RouteOps(k)
  BY <1>1, SameOps
<1>4. \A k : Counted(k)' = Counted(k)
  BY <1>3, <1>1 DEF Counted, Uses, Ran
<1>5. KindExact(r)' /\ ToldExact'
  BY <1>1, <1>2, SameTold DEF KindExact
<1>6. \A q \in Requests : KindExact(q)'
  BY <1>1, <1>2, <1>5, KindsKeep
<1>7. SUFFICES ASSUME Regular' PROVE OneAfterTheOther'
  BY <1>5, <1>6 DEF CallsInv
<1>8. Regular
  BY <1>1, <1>3, <1>7, RegularBefore
<1>9. OneAfterTheOther
  BY <1>8 DEF CallsInv
<1>10. FlightExact(r) /\ delivered \in Nat /\ \A q \in Requests \ {r} : ~Flight(q)
  BY <1>1, <1>8, <1>9, InFlight
<1>11. /\ o \in Controls /\ ops[o].index = delivered + 1 /\ Completed(o)
       /\ <<o, <<ops[o].try, ops[o].ok>>>> \in told /\ scope = ops[o].snap
  BY <1>10 DEF FlightExact
<1>12. delivered' = delivered + 1
  BY <1>1, <1>11
<1>13. IndexExact'
  <2> SUFFICES ASSUME NEW p \in Controls
               PROVE  /\ ops[p].index \in 1..(delivered' + 1)
                      /\ \A q \in Controls : ops[p].index = ops[q].index => p = q
                      /\ ops[p].index <= delivered' =>
                           Completed(p) /\ <<p, <<ops[p].try, ops[p].ok>>>> \in told
    BY <1>1, <1>3 DEF IndexExact
  <2>1. /\ ops[p].index \in 1..(delivered + 1)
        /\ \A q \in Controls : ops[p].index = ops[q].index => p = q
        /\ ops[p].index <= delivered => Completed(p) /\ <<p, <<ops[p].try, ops[p].ok>>>> \in told
    BY <1>9 DEF OneAfterTheOther, IndexExact
  <2>2. CASE p = o
    BY <1>10, <1>11, <1>12, <2>1, <2>2
  <2>3. CASE p # o
    <3>1. ops[p].index # delivered + 1
      BY <1>11, <2>1, <2>3
    <3>2. ops[p].index <= delivered
      BY <1>10, <2>1, <3>1
    <3> QED
      BY <1>10, <1>12, <2>1, <3>2
  <2> QED
    BY <2>2, <2>3
<1>14. SnapsExact'
  BY <1>1, <1>3, <1>4, <1>9 DEF OneAfterTheOther, SnapsExact, QueuedOps
<1>15. NodesExact'
  BY <1>1, <1>3, <1>9 DEF OneAfterTheOther, NodesExact
<1>16. \A q \in Requests : ~Flight(q)'
  BY <1>2, <1>10 DEF Flight, InCall
<1>17. \A k \in 1..delivered' : Delivered(k)' # {}
  <2> SUFFICES ASSUME NEW k \in 1..delivered' PROVE Delivered(k) # {}
    BY <1>3
  <2>1. k \in 1..delivered \/ k = delivered + 1
    BY <1>10, <1>12
  <2> QED
    BY <1>9, <1>11, <2>1 DEF OneAfterTheOther, Delivered
<1>18. AfterDelivery(delivered + 1, scope)
  <2>1. o \in Delivered(delivered + 1) /\ delivered + 1 # 0
    BY <1>10, <1>11 DEF Delivered
  <2> QED
    BY <1>11, <2>1 DEF AfterDelivery
<1>19. BetweenExact'
  <2>1. AfterDelivery(delivered, scope)'
    BY <1>3, <1>12, <1>18
  <2>2. \A q \in Requests : call'[q].at = "threw" => call[q].at = "threw" /\ call'[q].op = call[q].op
    BY <1>2
  <2>3. \A p : Behind(p) => Behind(p)'
    <3>1. \A p \in Controls : ops[p].index \in Nat
      BY ControlsTyped
    <3> QED
      BY <1>1, <1>3, <1>10, <1>12, <3>1 DEF Behind
  <2> QED
    BY <1>1, <1>3, <1>9, <2>1, <2>2, <2>3 DEF OneAfterTheOther, BetweenExact
<1>20. FinalExact'
  <2>1. final = None
    BY <1>1 DEF Inv, PhaseExact
  <2> QED
    BY <1>1, <1>9, <2>1 DEF OneAfterTheOther, FinalExact
<1> QED
  BY <1>13, <1>14, <1>15, <1>16, <1>17, <1>19, <1>20 DEF OneAfterTheOther

-----------------------------------------------------------------------------
(* Steps of the planner itself, with no control call in flight after.       *)
LEMMA PhaseOrdered ==
  ASSUME Inv, CallsInv, ControlsKept, Controls' = Controls, overlapped' = overlapped,
         ToldExact', \A r \in Requests : KindExact(r)' /\ ~Flight(r)',
         Regular /\ OneAfterTheOther => BetweenExact' /\ FinalExact'
  PROVE  CallsInv'
<1>1. SUFFICES ASSUME Regular' PROVE OneAfterTheOther'
  BY DEF CallsInv
<1>2. Regular /\ OneAfterTheOther
  BY <1>1, KeptRegular DEF CallsInv
<1>3. /\ \A k : Delivered(k)' = Delivered(k)
      /\ SnapsExact' /\ NodesExact' /\ IndexExact' /\ delivered' = delivered
  BY <1>2, SameControls DEF OneAfterTheOther, ControlsKept
<1> QED
  BY <1>2, <1>3 DEF OneAfterTheOther

LEMMA UnchangedKept ==
  ASSUME UNCHANGED <<ops, delivered, children, told>>
  PROVE  ControlsKept /\ Controls' = Controls
BY SameOps DEF ControlsKept

\* The planner has returned what the last delivery left, and it is saved.
LEMMA PlannedOrdered ==
  ASSUME Inv, CallsInv, phase = "returned", Planned,
         UNCHANGED <<told, scope, aborted, overlapped, children, started>>
  PROVE  CallsInv'
<1>1. UNCHANGED <<ops, delivered, call>> /\ final' = scope /\ phase' = "planned"
  BY DEF Planned
<1>2. /\ ControlsKept /\ Controls' = Controls /\ ToldExact'
      /\ \A k, s : AfterDelivery(k, s)' <=> AfterDelivery(k, s)
  BY <1>1, UnchangedKept, SameTold, SameOps
<1>3. \A r \in Requests : KindExact(r)' /\ ~Flight(r)'
  <2> SUFFICES ASSUME NEW r \in Requests PROVE KindExact(r)' /\ ~Flight(r)'
    OBVIOUS
  <2>1. KindExact(r) /\ ~InCall(r)
    BY DEF CallsInv, Inv, PhaseExact
  <2> QED
    BY <1>1, <2>1 DEF KindExact, Flight, InCall
<1>4. ASSUME Regular, OneAfterTheOther PROVE BetweenExact' /\ FinalExact'
  <2>1. BetweenExact'
    BY <1>1 DEF BetweenExact
  <2>2. AfterDelivery(delivered, scope) /\ final = None /\ started = {}
    BY <1>4 DEF OneAfterTheOther, BetweenExact, FinalExact
  <2>3. AfterDelivery(delivered, final)'
    BY <1>1, <1>2, <2>2
  <2>4. final' # None
    BY <1>1, NoneAssumption DEF Inv, TypeOK
  <2> QED
    BY <1>1, <2>1, <2>2, <2>3, <2>4 DEF FinalExact
<1> QED
  BY <1>2, <1>3, <1>4, PhaseOrdered

LEMMA AppendOrdered == ASSUME Inv, CallsInv, Append1 PROVE CallsInv'
<1> SUFFICES ASSUME NEW w, w = Head(queue) PROVE CallsInv'
  OBVIOUS
<1>1. /\ queue # <<>> /\ queue \in Seq(Entries) /\ NoRepeats(queue)
      /\ UNCHANGED <<told, scope, aborted, overlapped, children, started>>
      /\ \/ w.kind = "prepare" /\ Prepared(w.req, w.op)
         \/ w.kind = "complete" /\ Done(w.req, w.op)
         \/ w.kind = "ambiguous" /\ Marked(w.req, w.op)
         \/ w.kind = "progress" /\ Progress(w.req, w.op)
         \/ w.kind = "planner" /\ Planned
  BY DEF Append1, Inv, TypeOK, QueueExact, history
<1>2. w \in Members(queue) /\ Members(queue) \subseteq Entries
  BY <1>1, TailKeeps, MembersType
<1>3. CASE w.kind = "planner"
  <2>1. phase = "returned"
    <3>1. phase # "planning" /\ (phase \notin {"planning", "returned"} => queue = <<>>)
      BY <1>2, <1>3 DEF Inv, PhaseExact
    <3> QED
      BY <1>1, <3>1
  <2> QED
    BY <1>1, <1>3, <2>1, PlannedOrdered
<1>4. CASE w.kind # "planner"
  <2>1. w.req \in Requests /\ w.op = call[w.req].op /\ call[w.req].at = PlaceOf(w.kind)
    BY <1>2, <1>4 DEF Inv, QueueExact
  <2>2. CASE w.kind = "prepare"
    BY <1>1, <2>1, <2>2, PreparedOrdered DEF PlaceOf
  <2>3. CASE w.kind = "complete"
    BY <1>1, <2>1, <2>3, DoneOrdered DEF PlaceOf
  <2>4. CASE w.kind = "ambiguous"
    BY <1>1, <2>1, <2>4, MarkedOrdered DEF PlaceOf
  <2>5. CASE w.kind = "progress"
    BY <1>1, <2>1, <2>5, ProgressOrdered DEF PlaceOf
  <2> QED
    BY <1>1, <1>4, <2>2, <2>3, <2>4, <2>5
<1> QED
  BY <1>3, <1>4

LEMMA PlannerReturnsOrdered == ASSUME Inv, CallsInv, PlannerReturns PROVE CallsInv'
<1>1. /\ phase = "planning" /\ (\A r \in Requests : ~InCall(r)) /\ ~aborted
      /\ phase' = "returned"
      /\ UNCHANGED <<ops, delivered, final, told, scope, call, aborted, overlapped, children, started>>
  BY DEF PlannerReturns, Settled, durable, history
<1>2. /\ ControlsKept /\ Controls' = Controls /\ ToldExact'
      /\ \A k, s : AfterDelivery(k, s)' <=> AfterDelivery(k, s)
  BY <1>1, UnchangedKept, SameTold, SameOps
<1>3. \A r \in Requests : KindExact(r)' /\ ~Flight(r)'
  <2> SUFFICES ASSUME NEW r \in Requests PROVE KindExact(r)' /\ ~Flight(r)'
    OBVIOUS
  <2>1. KindExact(r) /\ ~InCall(r)
    BY <1>1 DEF CallsInv
  <2> QED
    BY <1>1, <2>1 DEF KindExact, Flight, InCall
<1>4. ASSUME Regular, OneAfterTheOther PROVE BetweenExact' /\ FinalExact'
  <2>1. AfterDelivery(delivered, scope) /\ final = None
    BY <1>1, <1>4 DEF OneAfterTheOther, BetweenExact, Flight, Inv, PhaseExact
  <2>2. BetweenExact'
    BY <1>1, <1>2, <2>1 DEF BetweenExact
  <2>3. FinalExact'
    BY <1>1, <1>4, <2>1 DEF OneAfterTheOther, FinalExact
  <2> QED
    BY <2>2, <2>3
<1> QED
  BY <1>1, <1>2, <1>3, <1>4, PhaseOrdered

LEMMA StillOrdered ==
  ASSUME Inv, CallsInv, aborted' = aborted \/ aborted' = TRUE,
         UNCHANGED <<ops, delivered, final, told, phase, scope, call, overlapped, children, started>>
  PROVE  CallsInv'
<1>1. /\ Known' = Known /\ Controls' = Controls /\ Asks' = Asks
      /\ \A p : Completed(p)' <=> Completed(p)
      /\ \A k : Delivered(k)' = Delivered(k)
      /\ \A k, s : AfterDelivery(k, s)' <=> AfterDelivery(k, s)
  BY SameOps
<1>2. ToldExact' /\ \A r \in Requests : KindExact(r)' /\ (Flight(r)' <=> Flight(r))
  BY SameTold DEF CallsInv, KindExact, Flight, InCall
<1>3. SUFFICES ASSUME Regular' PROVE OneAfterTheOther'
  BY <1>2 DEF CallsInv
<1>4. Regular /\ OneAfterTheOther
  BY <1>1, <1>3, RegularBefore DEF CallsInv
<1>5. IndexExact' /\ SnapsExact' /\ NodesExact'
  BY <1>4, SameRecords DEF OneAfterTheOther
<1>6. ASSUME NEW r \in Requests, Flight(r) PROVE FlightExact(r)'
  <2>1. FlightExact(r)
    BY <1>4, <1>6 DEF OneAfterTheOther
  <2> QED
    BY <1>1, <2>1 DEF FlightExact, Leaves, Ran
<1>7. BetweenExact' /\ FinalExact'
  BY <1>1, <1>2, <1>4 DEF OneAfterTheOther, BetweenExact, FinalExact, Behind
<1> QED
  BY <1>1, <1>2, <1>4, <1>5, <1>6, <1>7 DEF OneAfterTheOther

LEMMA ResumeOrdered == ASSUME Inv, CallsInv, Resume PROVE CallsInv'
<1>1. /\ phase = "down" /\ TypeOK
      /\ UNCHANGED <<ops, delivered, final, told, call, overlapped, children, started>>
  BY DEF Resume, durable, history, Inv
<1>2. /\ ControlsKept /\ Controls' = Controls /\ ToldExact'
      /\ \A k, s : AfterDelivery(k, s)' <=> AfterDelivery(k, s)
      /\ \A k : Delivered(k)' = Delivered(k)
  BY <1>1, UnchangedKept, SameTold, SameOps
<1>3. \A r \in Requests : call[r].at = "idle" /\ call[r].op = 0
  BY <1>1 DEF CallsInv, KindExact
<1>4. \A r \in Requests : KindExact(r)' /\ ~Flight(r)'
  BY <1>1, <1>3 DEF KindExact, Flight, InCall
<1>5. ASSUME Regular, OneAfterTheOther PROVE BetweenExact' /\ FinalExact'
  <2>1. FinalExact
    BY <1>5 DEF OneAfterTheOther
  <2>2. CASE final # None /\ scope' = Restored(final) /\ phase' = "planned"
    BY <1>1, <1>2, <2>1, <2>2 DEF BetweenExact, FinalExact, Restored
  <2>3. CASE /\ final = None /\ Acceptable /\ phase' = "planning"
             /\ scope' = IF delivered = 0 THEN emptyScope
                         ELSE Restored(ops[CHOOSE o \in Delivered(delivered) : TRUE].snap)
    <3>1. AfterDelivery(delivered, scope')
      <4>1. CASE delivered = 0
        BY <2>3, <4>1 DEF AfterDelivery
      <4>2. CASE delivered # 0
        <5>1. delivered \in 1..delivered
          BY <1>1, <4>2 DEF TypeOK
        <5>2. Delivered(delivered) # {}
          BY <2>3, <4>2, <5>1 DEF Acceptable
        <5>3. (CHOOSE o \in Delivered(delivered) : TRUE) \in Delivered(delivered)
          BY <5>2
        <5> QED
          BY <2>3, <4>2, <5>3 DEF AfterDelivery, Restored
      <4> QED
        BY <4>1, <4>2
    <3>2. AfterDelivery(delivered, scope)'
      BY <1>1, <3>1 DEF AfterDelivery, Delivered, Controls, Known, Completed
    <3> QED
      BY <1>1, <1>2, <1>3, <2>1, <2>3, <3>2 DEF BetweenExact, FinalExact
  <2>4. CASE phase' = "failed"
    BY <1>1, <1>2, <2>1, <2>4 DEF BetweenExact, FinalExact
  <2> QED
    BY <2>2, <2>3, <2>4 DEF Resume
<1> QED
  BY <1>1, <1>2, <1>4, <1>5, PhaseOrdered

(* Nothing is in flight when a process is gone, and the routes that started *)
(* are those that the planner has left.                                     *)
LEMMA DownOrdered ==
  ASSUME Inv, CallsInv, Down, phase' \in {"down", "launched", "failed"}, ControlsKept,
         Controls' = Controls, overlapped' = overlapped, ToldExact', UNCHANGED <<delivered, final>>,
         \A routes \in started' : routes \in started \/ (phase = "planned" /\ routes = scope.queued)
  PROVE  CallsInv'
<1>1. \A r \in Requests : call'[r].at = "idle" /\ call'[r].op = 0
  BY DEF Down, noCall
<1>2. \A r \in Requests : KindExact(r)' /\ ~Flight(r)'
  BY <1>1 DEF KindExact, Flight, InCall
<1>3. ASSUME Regular, OneAfterTheOther PROVE BetweenExact' /\ FinalExact'
  <2>1. BetweenExact'
    BY DEF BetweenExact
  <2>2. \A k, s : AfterDelivery(k, s)' <=> AfterDelivery(k, s)
    BY SameControls
  <2>3. FinalExact'
    BY <1>3, <2>2 DEF OneAfterTheOther, FinalExact
  <2> QED
    BY <2>1, <2>3
<1> QED
  BY <1>2, <1>3, PhaseOrdered

LEMMA RefusedKept ==
  ASSUME Inv, CallsInv, NEW o \in Known, UNCHANGED <<delivered, children, told>>,
         ops' = [ops EXCEPT ![o].status = IF @ = "completed" THEN @ ELSE "ambiguous"]
  PROVE  ControlsKept /\ Controls' = Controls /\ ToldExact'
<1>1. o \in Requests /\ TypeOK
  BY DEF Known, Inv
<1>2. /\ \A p \in Requests \ {o} : ops'[p] = ops[p]
      /\ ops'[o].status = IF Completed(o) THEN "completed" ELSE "ambiguous"
      /\ ops'[o].c = ops[o].c /\ ops'[o].index = ops[o].index
      /\ (Completed(o) => ops'[o] = ops[o])
  BY <1>1, MarkTyped
<1>3. /\ Known' = Known
      /\ \A p \in Known : (Completed(p)' <=> Completed(p)) /\ ops'[p].c = ops[p].c
                          /\ ops'[p].index = ops[p].index /\ (Completed(p) => ops'[p] = ops[p])
  BY <1>2 DEF Known, Completed
<1>4. Controls' = Controls /\ Controls \subseteq Known
  BY <1>3 DEF Controls
<1>5. ToldExact'
  BY <1>3 DEF CallsInv, ToldExact
<1> QED
  BY <1>3, <1>4, <1>5 DEF ControlsKept

LEMMA EndingsOrdered ==
  ASSUME Inv, CallsInv, Launch \/ PlannerRefused \/ Fail \/ Stop
  PROVE  CallsInv'
<1>1. CASE Launch
  <2>1. /\ Down /\ phase' \in {"launched", "failed"} /\ phase = "planned"
        /\ UNCHANGED <<ops, delivered, final, told, overlapped, children>>
        /\ started' = started \/ started' = started \cup {scope.queued}
    BY <1>1 DEF Launch, durable
  <2>2. ControlsKept /\ Controls' = Controls /\ ToldExact'
    BY <2>1, UnchangedKept, SameTold
  <2> QED
    BY <2>1, <2>2, DownOrdered
<1>2. CASE PlannerRefused
  <2>1. /\ Down /\ phase' = "down"
        /\ UNCHANGED <<delivered, final, told, overlapped, children, started>>
    BY <1>2 DEF PlannerRefused, history
  <2>2. PICK o \in Known :
          ops' = [ops EXCEPT ![o].status = IF @ = "completed" THEN @ ELSE "ambiguous"]
    BY <1>2 DEF PlannerRefused, Unsettled
  <2>3. ControlsKept /\ Controls' = Controls /\ ToldExact'
    BY <2>1, <2>2, RefusedKept
  <2> QED
    BY <2>1, <2>3, DownOrdered
<1>3. CASE Fail \/ Stop
  <2>1. /\ Down /\ phase' \in {"down", "failed"}
        /\ UNCHANGED <<ops, delivered, final, told, overlapped, children, started>>
    BY <1>3 DEF Fail, Stop, durable, history
  <2>2. ControlsKept /\ Controls' = Controls /\ ToldExact'
    BY <2>1, UnchangedKept, SameTold
  <2> QED
    BY <2>1, <2>2, DownOrdered
<1> QED
  BY <1>1, <1>2, <1>3

-----------------------------------------------------------------------------
LEMMA InitOrdered == Init => CallsInv
<1> SUFFICES ASSUME Init PROVE CallsInv
  OBVIOUS
<1>1. /\ \A r \in Requests : call[r] = noCall /\ call[r].at = "idle" /\ call[r].op = 0
      /\ told = {} /\ phase = "planning" /\ delivered = 0 /\ final = None /\ scope = emptyScope
      /\ children = {} /\ started = {}
  BY DEF Init, noCall
<1>2. Known = {} /\ Controls = {}
  BY DEF Init, Known, noOp, Controls
<1>3. ToldExact /\ \A r \in Requests : KindExact(r) /\ ~Flight(r)
  BY <1>1 DEF ToldExact, KindExact, Flight, InCall
<1>4. IndexExact /\ SnapsExact /\ NodesExact
  BY <1>1, <1>2 DEF IndexExact, SnapsExact, NodesExact
<1>5. BetweenExact /\ FinalExact
  BY <1>1 DEF BetweenExact, FinalExact, AfterDelivery
<1>6. \A k \in 1..delivered : Delivered(k) # {}
  BY <1>1
<1> QED
  BY <1>3, <1>4, <1>5, <1>6 DEF CallsInv, OneAfterTheOther

LEMMA NextOrdered == Inv /\ CallsInv /\ [Next]_vars => CallsInv'
<1> SUFFICES ASSUME Inv, CallsInv, [Next]_vars PROVE CallsInv'
  OBVIOUS
<1>1. ASSUME NEW r \in Requests, Issue(r) PROVE CallsInv'
  BY <1>1, ControlIssueOrdered, AskIssueOrdered DEF Issue
<1>2. ASSUME NEW r \in Requests, Proceed(r) PROVE CallsInv'
  BY <1>2, BeginAmbiguousOrdered, BeginReplayOrdered, BeginExecuteOrdered, PolicyOrdered,
     GeneratedCallOrdered, ChildEndsOrdered, CallAbortedOrdered, RecordOrdered, AskGoesOrdered,
     IncorporateOrdered, CompleteOrdered DEF Proceed
<1>3. CASE Append1 \/ PlannerReturns \/ Resume
  BY <1>3, AppendOrdered, PlannerReturnsOrdered, ResumeOrdered
<1>4. CASE Launch \/ PlannerRefused \/ Fail \/ Stop
  BY <1>4, EndingsOrdered
<1>5. CASE Abort \/ UNCHANGED vars
  BY <1>5, StillOrdered DEF Abort, vars, durable, history
<1> QED
  BY <1>1, <1>2, <1>3, <1>4, <1>5 DEF Next

-----------------------------------------------------------------------------
(* What the invariant says of the last delivery.                            *)
LEMMA LastDelivery ==
  ASSUME Inv, Regular, OneAfterTheOther, NEW s, AfterDelivery(delivered, s)
  PROVE  /\ s \in Scopes /\ Restorable(s) /\ QueuedOps(s) = RouteOps(delivered)
         /\ IsFiniteSet(Counted(delivered)) /\ Cardinality(Counted(delivered)) <= s.routes
<1>1. delivered \in Nat
  BY DEF Inv, TypeOK
<1>2. /\ s \in Scopes /\ QueuedOps(s) = RouteOps(delivered)
      /\ IsFiniteSet(Counted(delivered)) /\ Cardinality(Counted(delivered)) <= s.routes
      /\ s = emptyScope \/ \E o \in Controls : Completed(o) /\ s = ops[o].snap
  BY <1>1, AfterExact DEF OneAfterTheOther
<1>3. Restorable(emptyScope)
  <2>1. /\ emptyScope.control = 0 /\ emptyScope.routes = 0
        /\ emptyScope.validations = 0 /\ emptyScope.executions = 0
    BY DEF emptyScope
  <2> QED
    BY <2>1, LimitAssumption DEF Restorable
<1>4. Restorable(s)
  BY <1>2, <1>3 DEF Regular
<1> QED
  BY <1>2, <1>4

(* The journal of a planner whose control calls did not overlap can be      *)
(* resumed from.                                                            *)
THEOREM JournalKept == Spec => []JournalAccepted
<1>1. Inv /\ CallsInv => JournalAccepted
  <2> SUFFICES ASSUME Inv, CallsInv, Regular
               PROVE  /\ Acceptable /\ (final # None => Restorable(final))
                      /\ \A o, p \in Controls : Completed(o) /\ Completed(p) /\ o # p
                                                => ops[o].index # ops[p].index
    BY DEF JournalAccepted
  <2>1. OneAfterTheOther
    BY DEF CallsInv
  <2>2. \A o, p \in Controls : o # p => ops[o].index # ops[p].index
    BY <2>1 DEF OneAfterTheOther, IndexExact
  <2>3. Acceptable
    <3>1. \A o \in Delivered(delivered) : Restorable(ops[o].snap)
      BY DEF Regular, Delivered
    <3> QED
      BY <2>1, <2>2, <3>1 DEF Acceptable, OneAfterTheOther
  <2>4. final # None => Restorable(final)
    BY <2>1, LastDelivery DEF OneAfterTheOther, FinalExact
  <2> QED
    BY <2>2, <2>3, <2>4
<1> QED
  BY <1>1, InitInv, NextInv, InitOrdered, NextOrdered, PTL DEF Spec

(* The routes that are started are those of which the planner was told.     *)
LEMMA StartedRoutes ==
  ASSUME Inv, Regular, OneAfterTheOther, NEW routes \in started
  PROVE  /\ {q.op : q \in routes} = RouteOps(delivered)
         /\ \A o \in Known : Completed(o) /\ (o \in Controls => ops[o].index <= delivered)
<1>1. final # None /\ routes = final.queued /\ AfterDelivery(delivered, final)
  BY DEF OneAfterTheOther, FinalExact
<1>2. QueuedOps(final) = RouteOps(delivered)
  BY <1>1, LastDelivery
<1>3. ASSUME NEW o \in Known
      PROVE  Completed(o) /\ (o \in Controls => ops[o].index <= delivered)
  <2>1. o \notin Unsettled
    BY <1>1 DEF Inv, PhaseExact
  <2>2. ops[o].index \in Nat /\ delivered \in Nat
    BY DEF Inv, TypeOK, Known, Operations
  <2> QED
    BY <2>1, <2>2 DEF Unsettled
<1> QED
  BY <1>1, <1>2, <1>3 DEF QueuedOps

THEOREM RoutesKept == Spec => []RoutesAreWhatWasTold
<1>1. Inv /\ CallsInv => RoutesAreWhatWasTold
  <2> SUFFICES ASSUME Inv, CallsInv, Regular, NEW routes \in started
               PROVE  {q.op : q \in routes} =
                        {t[1] : t \in {u \in told : ops[u[1]].c[1] = "route" /\ u[2][2]}}
    BY DEF RoutesAreWhatWasTold
  <2> DEFINE Of == {u \in told : ops[u[1]].c[1] = "route" /\ u[2][2]}
  <2>1. OneAfterTheOther /\ ToldExact
    BY DEF CallsInv
  <2>2. /\ {q.op : q \in routes} = RouteOps(delivered)
        /\ \A o \in Known : Completed(o) /\ (o \in Controls => ops[o].index <= delivered)
    BY <2>1, StartedRoutes
  <2>3. ASSUME NEW t \in Of PROVE t[1] \in RouteOps(delivered)
    <3>1. /\ t[1] \in Known /\ t[2] = <<ops[t[1]].try, ops[t[1]].ok>>
          /\ ops[t[1]].c[1] = "route" /\ t[2][2]
      BY <2>1 DEF ToldExact
    <3>2. t[1] \in Controls /\ ops[t[1]].ok
      BY <3>1 DEF Controls, IsAsk
    <3> QED
      BY <2>2, <3>1, <3>2 DEF RouteOps, IsRoute
  <2>4. ASSUME NEW o \in RouteOps(delivered) PROVE \E t \in Of : o = t[1]
    <3> DEFINE u == <<o, <<ops[o].try, ops[o].ok>>>>
    <3>1. /\ o \in Controls /\ ops[o].index <= delivered /\ ops[o].c[1] = "route" /\ ops[o].ok
      BY DEF RouteOps, IsRoute
    <3>2. u \in told
      BY <2>1, <3>1 DEF OneAfterTheOther, IndexExact
    <3>3. u[1] = o /\ u[2][2] = ops[o].ok
      OBVIOUS
    <3> HIDE DEF u
    <3> QED
      BY <3>1, <3>2, <3>3
  <2> HIDE DEF Of
  <2>5. {t[1] : t \in Of} = RouteOps(delivered)
    BY <2>3, <2>4
  <2> QED
    BY <2>2, <2>5 DEF Of
<1> QED
  BY <1>1, InitInv, NextInv, InitOrdered, NextOrdered, PTL DEF Spec

(* The Nodes that a planner has run and the routes that started are within  *)
(* the budget, and each has a path of its own.                              *)
THEOREM BudgetIsKept == Spec => []BudgetKept
<1>1. Inv /\ CallsInv => BudgetKept
  <2> DEFINE all == Spent \cup {<<q.op, 0>> : q \in UNION started}
  <2> SUFFICES ASSUME Inv, CallsInv, Regular
               PROVE  /\ Cardinality(all) <= MaxRoutes
                      /\ \A p, q \in children : p[1] = q[1] <=> p[2] = q[2]
    BY DEF BudgetKept
  <2>1. /\ OneAfterTheOther /\ delivered \in Nat /\ MaxRoutes \in Nat
        /\ IndexExact /\ NodesExact
    BY LimitAssumption DEF CallsInv, Inv, TypeOK, OneAfterTheOther
  <2>2. \A p, q \in children : p[1] = q[1] <=> p[2] = q[2]
    <3>1. \A o, p \in Controls : ops[o].index = ops[p].index => o = p
      BY <2>1 DEF IndexExact
    <3>2. \A p \in children : p[2] \in Controls /\ p[1] = ops[p[2]].index
      BY <2>1 DEF NodesExact
    <3> QED
      BY <3>1, <3>2
  <2>3. PICK s \in Scopes : AfterDelivery(delivered, s)
    <3>1. delivered \in 0..delivered
      BY <2>1
    <3> QED
      BY <2>1, <3>1, AfterExists DEF OneAfterTheOther
  <2>4. /\ s.routes \in Nat /\ s.routes <= MaxRoutes
        /\ IsFiniteSet(Counted(delivered)) /\ Cardinality(Counted(delivered)) <= s.routes
    BY <2>1, <2>3, LastDelivery DEF Restorable, Scopes
  <2>5. {<<q.op, 0>> : q \in UNION started} \subseteq Counted(delivered)
    <3> SUFFICES ASSUME NEW routes \in started, NEW q \in routes
                 PROVE  <<q.op, 0>> \in Counted(delivered)
      OBVIOUS
    <3>1. {p.op : p \in routes} = RouteOps(delivered)
      BY <2>1, StartedRoutes
    <3>2. q.op \in RouteOps(delivered)
      BY <3>1
    <3>3. q.op \in Requests /\ q.op \in Controls /\ ops[q.op].index <= delivered /\ IsRoute(q.op)
      BY <3>2 DEF RouteOps, Controls, Known
    <3>4. 0 \in Uses(q.op) /\ 0 \in 0..MaxRoutes
      BY <2>1, <3>3 DEF Uses
    <3> QED
      BY <3>3, <3>4 DEF Counted
  \* What has been spent under an index that is delivered has been counted, ...
  <2>6. ASSUME NEW x \in Spent
        PROVE  /\ x = <<x[1], x[2]>> /\ x[1] \in Controls /\ x[2] \in Ran(x[1])
               /\ x[2] \in 1..MaxRoutes
               /\ x \in Counted(delivered) \/ ops[x[1]].index = delivered + 1
    <3>1. PICK p \in children : p[3] > 0 /\ x = <<p[2], p[3]>>
      BY <2>6 DEF Spent
    <3>2. /\ p[2] \in Controls /\ p[2] \in Requests /\ ops[p[2]].c[1] \in {"node", "execute"}
          /\ p[3] \in 0..MaxRoutes
      BY <2>1, <3>1 DEF NodesExact, Controls, Known
    <3>3. p[3] \in Ran(p[2]) /\ p[3] \in 1..MaxRoutes
      BY <2>1, <3>1, <3>2 DEF Ran
    <3>4. p[3] \in Uses(p[2])
      BY <3>2, <3>3 DEF Uses, IsRoute
    <3>5. ops[p[2]].index <= delivered \/ ops[p[2]].index = delivered + 1
      <4>1. ops[p[2]].index \in 1..(delivered + 1)
        BY <2>1, <3>2 DEF IndexExact
      <4> QED
        BY <2>1, <4>1
    <3>6. ops[p[2]].index <= delivered => x \in Counted(delivered)
      BY <3>1, <3>2, <3>4 DEF Counted
    <3> QED
      BY <3>1, <3>2, <3>3, <3>5, <3>6
  <2>7. CASE \E o \in Controls : ops[o].index = delivered + 1
    <3>1. PICK o \in Controls : ops[o].index = delivered + 1
      BY <2>7
    <3>2. \A p \in Controls : ops[p].index = delivered + 1 => p = o
      BY <2>1, <3>1 DEF IndexExact
    <3> DEFINE R == {m \in Ran(o) : m \in 1..MaxRoutes}
    <3>3. \A x \in all : x \in Counted(delivered) \/ \E m \in R : x = <<o, m>>
      <4>1. ASSUME NEW x \in Spent, x \notin Counted(delivered) PROVE \E m \in R : x = <<o, m>>
        <5>1. x = <<x[1], x[2]>> /\ x[1] = o /\ x[2] \in Ran(x[1]) /\ x[2] \in 1..MaxRoutes
          BY <2>6, <3>2, <4>1
        <5> QED
          BY <5>1
      <4> HIDE DEF R
      <4> QED
        BY <2>5, <4>1
    \* ... and the Nodes of the operation in flight have the numbers after those.
    <3>4. R \in SUBSET ((s.routes + 1)..MaxRoutes)
      <4> SUFFICES ASSUME NEW m \in R PROVE m \in (s.routes + 1)..MaxRoutes
        OBVIOUS
      <4>1. PICK p \in children : p[2] = o /\ p[3] = m
        BY DEF Ran
      <4>2. p[1] = delivered + 1 /\ p[1] - 1 = delivered /\ p[3] # 0
        BY <2>1, <3>1, <4>1 DEF NodesExact
      <4>3. s.routes < m
        BY <2>1, <2>3, <4>1, <4>2 DEF NodesExact
      <4> QED
        BY <2>1, <2>4, <4>3
    <3> HIDE DEF R
    <3>5. Cardinality(all) <= MaxRoutes
      <4> DEFINE S == Counted(delivered)
                 a == s.routes
      <4>1. /\ IsFiniteSet(S) /\ Cardinality(S) <= a
            /\ a \in Nat /\ MaxRoutes \in Nat /\ a <= MaxRoutes
            /\ R \subseteq (a + 1)..MaxRoutes
            /\ \A x \in all : x \in S \/ \E m \in R : x = <<o, m>>
        BY <2>1, <2>4, <3>3, <3>4
      <4> HIDE DEF all, R, S, a
      <4> QED
        BY <4>1, ManyMore
    <3> QED
      BY <2>2, <3>5
  <2>8. CASE ~\E o \in Controls : ops[o].index = delivered + 1
    <3>1. all \subseteq Counted(delivered)
      BY <2>5, <2>6, <2>8
    <3> HIDE DEF all
    <3>2. /\ Cardinality(all) <= Cardinality(Counted(delivered)) /\ Cardinality(all) \in Nat
          /\ Cardinality(Counted(delivered)) \in Nat
      BY <2>4, <3>1, FS_Subset, FS_CardinalityType
    <3>3. Cardinality(all) <= MaxRoutes
      BY <2>1, <2>4, <3>2
    <3> QED
      BY <2>2, <3>3
  <2> QED
    BY <2>7, <2>8
<1> QED
  BY <1>1, InitInv, NextInv, InitOrdered, NextOrdered, PTL DEF Spec
===============================================================================
