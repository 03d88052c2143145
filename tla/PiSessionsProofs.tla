---------------------------- MODULE PiSessionsProofs ----------------------------
(***************************************************************************)
(* Native sessions, for any number of agents, memories, prompts, sessions, *)
(* messages and crashes, and whichever inputs ask for a formatted output.  *)
(*                                                                         *)
(* Kept is the inductive invariant of the bookkeeping: who holds a session *)
(* (SessionsExact), what a checkpoint refers to (CheckpointExact), what an *)
(* agent has of its memory before it is prompted (AgentExact), and what is *)
(* durable at rest and while an agent works (FileExact, WorkExact).  With  *)
(* it the file can replace the session (FileReplacesSession) and no session*)
(* is shared or left behind (NoSessionShared).                             *)
(*                                                                         *)
(* Talk is about what is said: every continuation, in a memory or in a     *)
(* file, stands for the messages up to its revision (Tells), whichever of  *)
(* its inputs is open.  With both, a prompted model sees the memory        *)
(* (PromptSeesMemory).                                                     *)
(*                                                                         *)
(* Entries and durable records of a session agree up to changes of tools   *)
(* at its end (Durable), as long as no session has gone on over such a     *)
(* change without an event (overlooked): the parts of Kept that need it,   *)
(* and Told, are for runs in which that has not happened.  Who holds a     *)
(* session does not depend on it.                                          *)
(***************************************************************************)
EXTENDS PiSessions, FiniteSetTheorems, SequenceTheorems, WellFoundedInduction, TLAPS

\* What the variables are.
TypeOK ==
  /\ agent \in [Agents -> AgentState] /\ memory \in [Memories -> MemoryState \cup {None}]
  /\ act \in [Agents -> Activation] /\ retired \in [Agents -> (1..MaxSessions) \cup {None}]
  /\ failing \in BOOLEAN /\ overlooked \in BOOLEAN
  /\ session \in [1..MaxSessions -> SessionState \cup {None}] /\ opened \in 0..MaxSessions
  /\ slot \in [Memories -> SlotState \cup {None}]
  /\ refused \subseteq {"session", "append-only", "unsuited", "delta"}
  /\ number \in Nat /\ prompted \in Nat /\ crashes \in Nat

Busy(a) == act[a].at # "idle"
Live(s) == session[s] # None

\* A memory has at most one agent, which works on the last input it was given.
HandlesExact ==
  /\ \A a \in Agents :
       /\ ~Exists(a) => agent[a] = noAgent /\ act[a] = noAct /\ retired[a] = None
       /\ Exists(a) => memory[Mem(a)] # None
       /\ Busy(a) => /\ Exists(a) /\ retired[a] = None
                     /\ Said(a) # <<>> /\ Last(Said(a)) = <<"in", act[a].op>>
       /\ act[a].session # None <=> act[a].at = "prompting"
       /\ act[a].turn = "none" <=> act[a].at # "prompting"
  /\ \A a, b \in Agents : Exists(a) /\ Mem(a) = Mem(b) => a = b
  /\ \A m \in Memories : memory[m] = None => slot[m] = None
  /\ memory[Main] # None
  /\ memory[Main].checkpoint # None => slot[Main] # None

\* Who holds a session.
Uses(a, s) == agent[a].session = s \/ act[a].session = s \/ retired[a] = s

Changes == {"tools"} \X Nat

\* What is durable of a session is the beginning of it; changes of tools may follow.
Durable(s) == /\ s.synced = Len(s.durable)
              /\ \E tail \in Seq(Changes) : s.entries = s.durable \o tail

\* Every live session has one holder, and the beginning of it is durable.
SessionsExact ==
  /\ \A s \in 1..MaxSessions : s > opened => ~Live(s)
  /\ \A s \in 1..MaxSessions : Live(s) <=> \E a \in Agents : Uses(a, s)
  /\ \A s \in 1..MaxSessions : \A a, b \in Agents : Uses(a, s) /\ Uses(b, s) => a = b
  /\ \A a \in Agents :
       /\ retired[a] # None => prompted > 0 /\ agent[a].session = None
       /\ agent[a].session # None /\ act[a].session # None => agent[a].session = act[a].session
       /\ agent[a].session # None => session[agent[a].session].prompt = agent[a].prompt
       /\ act[a].session # None => session[act[a].session].prompt = agent[a].prompt
  /\ ~overlooked => \A s \in 1..MaxSessions : Live(s) => Durable(session[s])

\* What a checkpoint refers to.
CheckpointExact(m) ==
  memory[m] # None /\ memory[m].checkpoint # None =>
    LET c == memory[m].checkpoint
    IN  /\ c.revision <= Len(memory[m].messages)
        /\ c.session # None => c.session <= opened
        /\ c.session # None /\ Live(c.session) =>
             /\ session[c.session].prompt = c.prompt
             /\ c.leaf <= Len(session[c.session].entries)
             /\ ~overlooked => IsPrefix(c.records, session[c.session].entries)
        /\ prompted = 0 /\ ~failing /\ c.session # None => Live(c.session)

\* What an agent has of its memory when it is idle or begins.
AgentExact(a) ==
  /\ agent[a].session # None /\ act[a].at # "prompting" =>
       /\ Checkpoint(a) # None /\ agent[a].revision = Checkpoint(a).revision
       /\ ~overlooked => session[agent[a].session].durable = Checkpoint(a).records
  /\ agent[a].session = None => agent[a].revision = 0
  /\ act[a].at \in {"restored", "begun"} /\ agent[a].session = None => Checkpoint(a) = None
  /\ Busy(a) /\ ~act[a].resuming /\ Checkpoint(a) # None => Checkpoint(a).revision < Len(Said(a))
  /\ Busy(a) /\ act[a].resuming => Checkpoint(a) # None /\ Checkpoint(a).revision = Len(Said(a))

\* A memory at rest that ends with an input is one that a crash has interrupted.
RestExact(m) ==
  memory[m] # None /\ ~failing /\ Interrupted(m) /\ (\A a \in Agents : Mem(a) = m => ~Busy(a)) =>
    memory[m].checkpoint # None /\ memory[m].checkpoint.revision = Len(memory[m].messages)

\* What is durable when nothing has begun is the beginning of the continuation.
FileExact(m) ==
  slot[m] # None =>
    /\ slot[m].revision <= Len(slot[m].messages)
    /\ \/ failing /\ \A a \in Agents : Mem(a) = m => act[a].at \notin {"input", "restored"}
       \/ \E a \in Agents : Mem(a) = m /\ act[a].at \in {"begun", "prompting"}
       \/ memory[m].checkpoint # None /\ IsPrefix(slot[m].records, memory[m].checkpoint.records)

\* What is durable while an agent works.
WorkExact(a) ==
  /\ act[a].at = "begun" =>
       /\ slot[Mem(a)] # None /\ slot[Mem(a)].messages = Said(a)
       /\ slot[Mem(a)].records = persistedRecords(Mem(a)) \o Unsynchronized(a)
  /\ act[a].at = "prompting" => slot[Mem(a)] # None
  /\ act[a].at = "prompting" /\ ~overlooked =>
       /\ slot[Mem(a)].records = session[act[a].session].durable
       /\ slot[Mem(a)].messages = Said(a) \o Given(a)
       /\ act[a].turn # "prompt" =>
            /\ slot[Mem(a)].revision = Len(slot[Mem(a)].messages)
            /\ session[act[a].session].entries = session[act[a].session].durable
  /\ act[a].turn \in {"submitted", "unaccepted"} => act[a].op \in Formats

\* The VM, the executor and the store agree.
Kept == /\ TypeOK /\ HandlesExact /\ SessionsExact
        /\ \A m \in Memories : CheckpointExact(m) /\ RestExact(m) /\ FileExact(m)
        /\ \A a \in Agents : AgentExact(a) /\ WorkExact(a)
        /\ "unsuited" \notin refused /\ "append-only" \notin refused
        /\ "delta" \in refused => overlooked
        /\ "session" \in refused => prompted > 0

\* The input that a memory still has to answer.
OpenOf(messages) == IF messages # <<>> /\ Last(messages)[1] = "in" THEN Last(messages)[2] ELSE 0

Has(s, x) == \E i \in DOMAIN s : s[i] = x

\* No text among the messages that follow is of an input that has closing words.
TextsAlone(entries, messages, revision) ==
  \A i \in DOMAIN messages :
    i > revision /\ messages[i][1] = "text" => ~Has(entries, <<"fin", messages[i][2]>>)

\* The entries stand for the first messages of a memory; those of an interrupted
\* activation may already have the closing words of the input that is open.
Tells(entries, messages, revision) ==
  LET op == OpenOf(messages)
      said == SubSeq(messages, 1, revision)
  IN  /\ Conversation(entries, op) = said /\ TextsAlone(entries, messages, revision)
      /\ op # 0 =>
           /\ ~Has(entries, <<"out", op>>) /\ ~Has(entries, <<"text", op>>)
           /\ Has(entries, <<"fin", op>>) => op \in Formats /\ revision = Len(messages)
           /\ Conversation(entries, 0) = IF Has(entries, <<"fin", op>>) THEN Append(said, <<"out", op>>)
                                         ELSE said
\* The numbers of a sequence, but for changes of tools, have been given out; an
\* open input has no answer.
Numbered(s) == \A i \in DOMAIN s : s[i][1] = "tools" \/ s[i][2] \in 1..number
Answerable(messages) == ~Has(messages, <<"out", OpenOf(messages)>>) /\ ~Has(messages, <<"text", OpenOf(messages)>>)

\* The continuations stand for the messages, in the memory and in its file.  While
\* an agent is prompted its memory's continuation is the file's.
MemoryText(m) ==
  memory[m] # None =>
    /\ Numbered(memory[m].messages) /\ Answerable(memory[m].messages)
    /\ memory[m].checkpoint # None =>
         /\ Numbered(memory[m].checkpoint.records)
         /\ (\A a \in Agents : Mem(a) = m => act[a].at # "prompting") =>
              Tells(memory[m].checkpoint.records, memory[m].messages, memory[m].checkpoint.revision)

FileText(m) ==
  slot[m] # None =>
    /\ Numbered(slot[m].records) /\ Numbered(slot[m].messages) /\ Answerable(slot[m].messages)
    /\ Tells(slot[m].records, slot[m].messages, slot[m].revision)

\* What has been told of an activation: all but a fresh input when it begins, and
\* everything when it is answered.
TalkExact(a) ==
  /\ act[a].at = "begun" \/ act[a].turn = "prompt" => slot[Mem(a)].revision = Target(a)
  /\ act[a].turn = "prompt" => (resumeNativeSession(a) <=> act[a].resuming)
  /\ act[a].turn \in {"answered", "unaccepted"} =>
       Conversation(slot[Mem(a)].records, act[a].op) = Said(a)
  /\ act[a].turn = "answered" /\ act[a].op \in Formats => Has(slot[Mem(a)].records, <<"fin", act[a].op>>)

Talk == (\A m \in Memories : MemoryText(m) /\ FileText(m)) /\ \A a \in Agents : TalkExact(a)

\* Nothing is promised of what is said once entries have been overlooked.
Told == ~overlooked => Talk

-----------------------------------------------------------------------------
\* Sequences.

(* A part of a sequence.                                                     *)
LEMMA Part ==
  ASSUME NEW S, NEW s \in Seq(S), NEW m \in Nat \ {0}, NEW n \in Int, n <= Len(s)
  PROVE  /\ SubSeq(s, m, n) \in Seq(S)
         /\ Len(SubSeq(s, m, n)) = IF m <= n THEN n - m + 1 ELSE 0
         /\ \A i \in 1..(n - m + 1) : SubSeq(s, m, n)[i] = s[m + i - 1]
<1>1. \A i \in m..n : s[i] \in S
  <2> SUFFICES ASSUME NEW i \in m..n PROVE s[i] \in S
    OBVIOUS
  <2>1. i \in 1..Len(s)
    BY LenProperties
  <2> QED
    BY <2>1, ElementOfSeq
<1> QED
  BY <1>1, SubSeqProperties

(* The beginning of a sequence and the rest of it.                           *)
LEMMA Halves ==
  ASSUME NEW S, NEW s \in Seq(S), NEW m \in Nat, NEW n \in Nat, m <= n, n <= Len(s)
  PROVE  SubSeq(s, 1, m) \o SubSeq(s, m + 1, n) = SubSeq(s, 1, n)
<1> DEFINE p == SubSeq(s, 1, m)
           q == SubSeq(s, m + 1, n)
           r == SubSeq(s, 1, n)
<1>1. Len(s) \in Nat
  BY LenProperties
<1>2. p \in Seq(S) /\ Len(p) = m /\ \A i \in 1..m : p[i] = s[i]
  BY <1>1, Part
<1>3. /\ q \in Seq(S) /\ Len(q) = n - m
      /\ \A i \in 1..(n - m) : q[i] = s[m + i]
  <2>1. /\ q \in Seq(S) /\ Len(q) = IF m + 1 <= n THEN n - (m + 1) + 1 ELSE 0
        /\ \A i \in 1..(n - (m + 1) + 1) : q[i] = s[m + 1 + i - 1]
    BY <1>1, Part
  <2> HIDE DEF q
  <2>2. n - (m + 1) + 1 = n - m /\ \A i \in 1..(n - m) : m + 1 + i - 1 = m + i
    OBVIOUS
  <2> QED
    BY <2>1, <2>2
<1>4. r \in Seq(S) /\ Len(r) = n /\ \A i \in 1..n : r[i] = s[i]
  BY <1>1, Part
<1> HIDE DEF p, q, r
<1>5. /\ p \o q \in Seq(S) /\ Len(p \o q) = n
      /\ \A i \in 1..n : (p \o q)[i] = IF i <= m THEN p[i] ELSE q[i - m]
  <2>1. /\ p \o q \in Seq(S) /\ Len(p \o q) = Len(p) + Len(q)
        /\ \A i \in 1..(Len(p) + Len(q)) : (p \o q)[i] = IF i <= Len(p) THEN p[i] ELSE q[i - Len(p)]
    BY <1>2, <1>3, ConcatProperties
  <2>2. Len(p) + Len(q) = n
    BY <1>2, <1>3
  <2> QED
    BY <1>2, <2>1, <2>2
<1>6. ASSUME NEW i \in 1..n PROVE (p \o q)[i] = r[i]
  <2>1. CASE i <= m
    BY <1>2, <1>4, <1>5, <2>1
  <2>2. CASE ~(i <= m)
    <3>1. i - m \in 1..(n - m) /\ m + (i - m) = i
      BY <2>2
    <3> QED
      BY <1>3, <1>4, <1>5, <2>2, <3>1
  <2> QED
    BY <2>1, <2>2
<1>7. p \o q = r
  BY <1>4, <1>5, <1>6, SeqEqual
<1> QED
  BY <1>7 DEF p, q, r

(* What is a prefix stays one when more is added.                            *)
LEMMA PrefixGrows ==
  ASSUME NEW S, NEW p \in Seq(S), NEW q \in Seq(S), NEW r \in Seq(S), IsPrefix(p, q)
  PROVE  IsPrefix(p, q \o r)
<1>1. /\ Len(p) \in Nat /\ Len(q) \in Nat /\ Len(r) \in Nat /\ Len(p) <= Len(q)
      /\ SubSeq(p, 1, Len(p)) = SubSeq(q, 1, Len(p))
  BY LenProperties DEF IsPrefix
<1>2. /\ q \o r \in Seq(S) /\ Len(q \o r) = Len(q) + Len(r)
      /\ \A i \in 1..Len(q) : (q \o r)[i] = q[i]
  BY <1>1, ConcatProperties
<1>3. SubSeq(q \o r, 1, Len(p)) = SubSeq(q, 1, Len(p))
  <2> DEFINE t == q \o r
             u == SubSeq(t, 1, Len(p))
             v == SubSeq(q, 1, Len(p))
             n == Len(p)
  <2>1. n <= Len(t) /\ n <= Len(q) /\ n \in Nat /\ t \in Seq(S) /\ \A i \in 1..n : t[i] = q[i]
    BY <1>1, <1>2
  <2> HIDE DEF t, n
  <2>2. u \in Seq(S) /\ Len(u) = n /\ \A i \in 1..n : u[i] = t[i]
    BY <2>1, Part DEF n
  <2>3. v \in Seq(S) /\ Len(v) = n /\ \A i \in 1..n : v[i] = q[i]
    BY <2>1, Part DEF n
  <2> HIDE DEF u, v
  <2>4. u = v
    BY <2>1, <2>2, <2>3, SeqEqual
  <2> QED
    BY <2>4 DEF u, v, t
<1> QED
  BY <1>1, <1>2, <1>3 DEF IsPrefix

(* All of a sequence is a prefix of it.                                      *)
LEMMA PrefixOfItself ==
  ASSUME NEW S, NEW p \in Seq(S), NEW r \in Seq(S)
  PROVE  IsPrefix(p, p) /\ IsPrefix(p, p \o r)
<1>1. IsPrefix(p, p)
  BY LenProperties DEF IsPrefix
<1> QED
  BY <1>1, PrefixGrows

(* Any beginning of a prefix is a beginning of the whole.                    *)
LEMMA PrefixPart ==
  ASSUME NEW S, NEW p \in Seq(S), NEW q \in Seq(S), IsPrefix(p, q), NEW n \in Nat, n <= Len(p)
  PROVE  n <= Len(q) /\ SubSeq(q, 1, n) = SubSeq(p, 1, n)
<1>1. /\ Len(p) \in Nat /\ Len(q) \in Nat /\ Len(p) <= Len(q)
      /\ SubSeq(p, 1, Len(p)) = SubSeq(q, 1, Len(p))
  BY LenProperties DEF IsPrefix
<1>2. \A i \in 1..Len(p) : SubSeq(p, 1, Len(p))[i] = p[i] /\ SubSeq(q, 1, Len(p))[i] = q[i]
  BY <1>1, Part
<1>3. \A i \in 1..Len(p) : p[i] = q[i]
  BY <1>1, <1>2
<1>4. /\ SubSeq(p, 1, n) \in Seq(S) /\ Len(SubSeq(p, 1, n)) = n
      /\ \A i \in 1..n : SubSeq(p, 1, n)[i] = p[i]
  BY <1>1, Part
<1>5. /\ SubSeq(q, 1, n) \in Seq(S) /\ Len(SubSeq(q, 1, n)) = n
      /\ \A i \in 1..n : SubSeq(q, 1, n)[i] = q[i]
  BY <1>1, Part
<1> QED
  BY <1>1, <1>3, <1>4, <1>5, SeqEqual

(* A prefix of a prefix; what is no longer than a prefix.                    *)
LEMMA PrefixTransitive ==
  ASSUME NEW S, NEW p \in Seq(S), NEW q \in Seq(S), NEW r \in Seq(S), IsPrefix(p, q), IsPrefix(q, r)
  PROVE  IsPrefix(p, r)
<1>1. Len(p) \in Nat /\ Len(p) <= Len(q) /\ SubSeq(p, 1, Len(p)) = SubSeq(q, 1, Len(p))
  BY LenProperties DEF IsPrefix
<1>2. Len(p) <= Len(r) /\ SubSeq(r, 1, Len(p)) = SubSeq(q, 1, Len(p))
  BY <1>1, PrefixPart
<1> QED
  BY <1>1, <1>2 DEF IsPrefix

LEMMA PrefixLonger ==
  ASSUME NEW S, NEW q \in Seq(S), NEW r \in Seq(S), IsPrefix(q, r), NEW n \in Nat, n <= Len(q)
  PROVE  n <= Len(r)
BY PrefixPart

(* The rest of a sequence.                                                   *)
LEMMA Rest ==
  ASSUME NEW S, NEW p \in Seq(S), NEW q \in Seq(S)
  PROVE  SubSeq(p \o q, Len(p) + 1, Len(p \o q)) = q
<1> DEFINE s == p \o q
           n == Len(p)
           k == Len(q)
           u == SubSeq(s, n + 1, n + k)
<1>1. /\ n \in Nat /\ k \in Nat /\ s \in Seq(S) /\ Len(s) = n + k
      /\ \A i \in 1..k : s[n + i] = q[i]
  <2>1. /\ s \in Seq(S) /\ Len(s) = n + k
        /\ \A i \in 1..(n + k) : s[i] = IF i <= n THEN p[i] ELSE q[i - n]
    BY ConcatProperties
  <2>2. n \in Nat /\ k \in Nat
    BY LenProperties
  <2>3. \A i \in 1..k : n + i \in 1..(n + k) /\ ~(n + i <= n) /\ n + i - n = i
    BY <2>2
  <2> QED
    BY <2>1, <2>2, <2>3
<1> HIDE DEF s, n, k
<1>2. /\ u \in Seq(S) /\ Len(u) = IF n + 1 <= n + k THEN n + k - (n + 1) + 1 ELSE 0
      /\ \A i \in 1..(n + k - (n + 1) + 1) : u[i] = s[n + 1 + i - 1]
  BY <1>1, Part
<1> HIDE DEF u
<1>3. Len(u) = k /\ \A i \in 1..k : u[i] = s[n + i]
  <2>1. n + k - (n + 1) + 1 = k /\ (~(n + 1 <= n + k) => k = 0) /\ \A i \in 1..k : n + 1 + i - 1 = n + i
    BY <1>1
  <2> QED
    BY <1>2, <2>1
<1>4. u = q
  BY <1>1, <1>2, <1>3, SeqEqual DEF k
<1> QED
  BY <1>1, <1>4 DEF s, n, k, u

(* The last element.                                                         *)
LEMMA LastIn ==
  ASSUME NEW S, NEW s \in Seq(S), s # <<>>
  PROVE  Last(s) \in S /\ Len(s) \in Nat \ {0} /\ Last(s) = s[Len(s)]
<1>1. Len(s) \in Nat /\ Len(s) # 0
  BY LenProperties, EmptySeq
<1>2. Len(s) \in 1..Len(s)
  BY <1>1
<1> QED
  BY <1>1, <1>2, ElementOfSeq DEF Last

(* The last element of a sequence that has just grown.                      *)
LEMMA LastAppended ==
  ASSUME NEW S, NEW s \in Seq(S), NEW x \in S
  PROVE  Append(s, x) # <<>> /\ Last(Append(s, x)) = x
<1>1. /\ Append(s, x) \in Seq(S) /\ Len(Append(s, x)) = Len(s) + 1
      /\ Append(s, x)[Len(s) + 1] = x /\ Len(s) \in Nat
  BY AppendProperties, LenProperties
<1> QED
  BY <1>1, EmptySeq DEF Last

(* A part without its last element.                                          *)
LEMMA FrontOfPart ==
  ASSUME NEW S, NEW s \in Seq(S), NEW m \in Nat, m < Len(s)
  PROVE  /\ SubSeq(s, m + 1, Len(s)) # <<>>
         /\ Front(SubSeq(s, m + 1, Len(s))) = SubSeq(s, m + 1, Len(s) - 1)
<1> DEFINE n == Len(s)
           p == SubSeq(s, m + 1, n)
           q == SubSeq(s, m + 1, n - 1)
           r == SubSeq(p, 1, Len(p) - 1)
<1>1. n \in Nat /\ m < n
  BY LenProperties
<1>2. p \in Seq(S) /\ Len(p) = n - m /\ \A i \in 1..(n - m) : p[i] = s[m + i]
  <2>1. /\ p \in Seq(S) /\ Len(p) = IF m + 1 <= n THEN n - (m + 1) + 1 ELSE 0
        /\ \A i \in 1..(n - (m + 1) + 1) : p[i] = s[(m + 1) + i - 1]
    BY <1>1, Part
  <2> QED
    BY <1>1, <2>1
<1>3. q \in Seq(S) /\ Len(q) = n - m - 1 /\ \A i \in 1..(n - m - 1) : q[i] = s[m + i]
  <2>1. /\ q \in Seq(S) /\ Len(q) = IF m + 1 <= n - 1 THEN (n - 1) - (m + 1) + 1 ELSE 0
        /\ \A i \in 1..((n - 1) - (m + 1) + 1) : q[i] = s[(m + 1) + i - 1]
    BY <1>1, Part
  <2> QED
    BY <1>1, <2>1
<1> HIDE DEF n, p, q
<1>4. r \in Seq(S) /\ Len(r) = n - m - 1 /\ \A i \in 1..(n - m - 1) : r[i] = p[i]
  <2>1. /\ r \in Seq(S) /\ Len(r) = IF 1 <= Len(p) - 1 THEN (Len(p) - 1) - 1 + 1 ELSE 0
        /\ \A i \in 1..((Len(p) - 1) - 1 + 1) : r[i] = p[1 + i - 1]
    BY <1>1, <1>2, Part
  <2> QED
    BY <1>1, <1>2, <2>1
<1>5. q = r
  BY <1>1, <1>2, <1>3, <1>4, SeqEqual
<1>6. p # <<>>
  BY <1>1, <1>2, EmptySeq
<1> QED
  BY <1>5, <1>6 DEF n, p, q, r, Front

-----------------------------------------------------------------------------
\* What the elements of a sequence at some positions are.  Chosen is defined by
\* recursion: Partly says that f has its values up to n.
Partly(f, s, positions, n) ==
  f = [i \in 0..n |-> IF i = 0 THEN <<>>
                      ELSE IF i \in positions THEN Append(f[i - 1], s[i]) ELSE f[i - 1]]

(* The least of a nonempty set of numbers.                                   *)
LEMMA Least ==
  ASSUME NEW S \in SUBSET Nat, S # {}
  PROVE  \E i \in S : \A j \in S : i <= j
<1>1. PICK i \in S : \A j \in S : <<j, i>> \notin OpToRel(<, Nat)
  BY NatLessThanWellFounded, WFMin
<1>2. \A j \in S : ~ (j < i)
  BY <1>1 DEF OpToRel
<1> QED
  BY <1>2

(* What Partly says of the first value and of every further one.            *)
LEMMA PartlySteps ==
  ASSUME NEW f, NEW s, NEW positions, NEW n \in Nat, Partly(f, s, positions, n)
  PROVE  /\ f[0] = <<>>
         /\ \A k \in Nat : k < n =>
              f[k + 1] = IF k + 1 \in positions THEN Append(f[k], s[k + 1]) ELSE f[k]
<1>1. \A i \in 0..n : f[i] = IF i = 0 THEN <<>>
                             ELSE IF i \in positions THEN Append(f[i - 1], s[i]) ELSE f[i - 1]
  BY DEF Partly
<1>2. 0 \in 0..n
  OBVIOUS
<1>3. ASSUME NEW k \in Nat, k < n
      PROVE  f[k + 1] = IF k + 1 \in positions THEN Append(f[k], s[k + 1]) ELSE f[k]
  <2>1. k + 1 \in 0..n /\ k + 1 # 0 /\ k + 1 - 1 = k
    BY <1>3
  <2>2. f[k + 1] = IF k + 1 = 0 THEN <<>>
                   ELSE IF k + 1 \in positions THEN Append(f[k + 1 - 1], s[k + 1]) ELSE f[k + 1 - 1]
    BY <1>1, <2>1
  <2> QED
    BY <2>1, <2>2
<1> QED
  BY <1>1, <1>2, <1>3

(* Induction on numbers, on the set of those that a claim holds of.          *)
LEMMA ByInduction ==
  ASSUME NEW n \in Nat, NEW S, 0 \in S, \A k \in 0..n : k \in S /\ k < n => k + 1 \in S
  PROVE  0..n \subseteq S
<1> SUFFICES ASSUME (0..n) \ S # {} PROVE FALSE
  OBVIOUS
<1> DEFINE T == (0..n) \ S
<1>1. PICK i \in T : \A j \in T : i <= j
  <2>1. T \in SUBSET Nat /\ T # {}
    OBVIOUS
  <2> HIDE DEF T
  <2> QED
    BY <2>1, Least
<1>2. i \in 1..n /\ i - 1 \in 0..n /\ i - 1 < n /\ i - 1 + 1 = i
  OBVIOUS
<1>3. i - 1 \notin S
  BY <1>2
<1>4. i - 1 \in T
  BY <1>2, <1>3
<1> QED
  BY <1>1, <1>2, <1>4

(* There is such a function,                                                 *)
LEMMA PartlyExists ==
  ASSUME NEW s, NEW positions, NEW n \in Nat
  PROVE  \E f : Partly(f, s, positions, n)
<1> DEFINE S == {k \in 0..n : \E f : Partly(f, s, positions, k)}
<1>1. 0 \in S
  <2>1. Partly([i \in 0..0 |-> <<>>], s, positions, 0)
    BY DEF Partly
  <2> QED
    BY <2>1
<1>2. ASSUME NEW k \in 0..n, k \in S, k < n PROVE k + 1 \in S
  <2>1. PICK f : Partly(f, s, positions, k)
    BY <1>2
  <2> DEFINE g == [i \in 0..(k + 1) |->
                     IF i <= k THEN f[i]
                     ELSE IF k + 1 \in positions THEN Append(f[k], s[k + 1]) ELSE f[k]]
  <2>2. ASSUME NEW i \in 0..(k + 1)
        PROVE  g[i] = IF i = 0 THEN <<>>
                      ELSE IF i \in positions THEN Append(g[i - 1], s[i]) ELSE g[i - 1]
    <3>1. CASE i = 0
      BY <2>1, <3>1 DEF Partly
    <3>2. CASE i # 0 /\ i <= k
      <4>1. i \in 0..k /\ i - 1 \in 0..k /\ i - 1 <= k
        BY <3>2
      <4>2. f[i] = IF i \in positions THEN Append(f[i - 1], s[i]) ELSE f[i - 1]
        BY <2>1, <3>2, <4>1 DEF Partly
      <4>3. g[i] = f[i] /\ g[i - 1] = f[i - 1]
        BY <4>1
      <4> QED
        BY <3>2, <4>2, <4>3
    <3>3. CASE i = k + 1
      <4>1. i # 0 /\ ~(i <= k) /\ i - 1 = k /\ k \in 0..(k + 1) /\ k <= k
        BY <3>3
      <4> QED
        BY <3>3, <4>1
    <3> QED
      BY <3>1, <3>2, <3>3
  <2>3. Partly(g, s, positions, k + 1)
    <3> HIDE DEF g
    <3>1. g = [i \in 0..(k + 1) |-> g[i]]
      BY DEF g
    <3> QED
      BY <2>2, <3>1 DEF Partly
  <2> QED
    BY <1>2, <2>3
<1> HIDE DEF S
<1>3. n \in S
  <2>1. 0..n \subseteq S
    BY <1>1, <1>2, ByInduction
  <2> QED
    BY <2>1
<1> QED
  BY <1>3 DEF S

(* and Chosen is its last value.                                             *)
LEMMA ChosenIs ==
  ASSUME NEW s, NEW positions, Len(s) \in Nat
  PROVE  \E f : Partly(f, s, positions, Len(s)) /\ Chosen(s, positions) = f[Len(s)]
<1> DEFINE f == CHOOSE f : Partly(f, s, positions, Len(s))
<1>1. Partly(f, s, positions, Len(s))
  BY PartlyExists
<1>2. Chosen(s, positions) = f[Len(s)]
  BY DEF Chosen, Partly
<1> QED
  BY <1>1, <1>2

(* It depends on the elements before alone.                                  *)
LEMMA PartlyUnique ==
  ASSUME NEW s, NEW positions, NEW n \in Nat, NEW f, Partly(f, s, positions, n),
         NEW t, NEW others, NEW k \in Nat, NEW g, Partly(g, t, others, k), n <= k,
         \A i \in 1..n : (i \in positions <=> i \in others) /\ (i \in positions => s[i] = t[i])
  PROVE  \A i \in 0..n : f[i] = g[i]
<1> DEFINE S == {i \in 0..n : f[i] = g[i]}
<1>1. 0 \in S
  BY PartlySteps
<1>2. ASSUME NEW i \in 0..n, i \in S, i < n PROVE i + 1 \in S
  <2>1. i + 1 \in 1..n /\ i + 1 \in 0..n /\ i \in Nat /\ i < k
    BY <1>2
  <2>2. f[i + 1] = IF i + 1 \in positions THEN Append(f[i], s[i + 1]) ELSE f[i]
    BY <1>2, <2>1, PartlySteps
  <2>3. g[i + 1] = IF i + 1 \in others THEN Append(g[i], t[i + 1]) ELSE g[i]
    BY <2>1, PartlySteps
  <2> QED
    BY <1>2, <2>1, <2>2, <2>3
<1> HIDE DEF S
<1>3. 0..n \subseteq S
  BY <1>1, <1>2, ByInduction
<1> QED
  BY <1>3 DEF S

(* Nothing is chosen from nothing.                                          *)
LEMMA ChosenEmpty ==
  ASSUME NEW positions PROVE Chosen(<<>>, positions) = <<>>
<1>1. Len(<<>>) = 0
  OBVIOUS
<1>2. PICK f : Partly(f, <<>>, positions, 0) /\ Chosen(<<>>, positions) = f[0]
  BY <1>1, ChosenIs
<1> QED
  BY <1>2 DEF Partly

(* Chosen depends on the elements that are chosen only.                     *)
LEMMA ChosenSame ==
  ASSUME NEW s, NEW positions, NEW t, NEW others, Len(s) \in Nat, Len(t) = Len(s),
         \A i \in 1..Len(s) : (i \in positions <=> i \in others) /\ (i \in positions => s[i] = t[i])
  PROVE  Chosen(s, positions) = Chosen(t, others)
<1>1. PICK f : Partly(f, s, positions, Len(s)) /\ Chosen(s, positions) = f[Len(s)]
  BY ChosenIs
<1>2. PICK g : Partly(g, t, others, Len(t)) /\ Chosen(t, others) = g[Len(t)]
  BY ChosenIs
<1>3. f[Len(s)] = g[Len(s)]
  BY <1>1, <1>2, PartlyUnique
<1> QED
  BY <1>1, <1>2, <1>3

(* One more element is chosen, or not.                                      *)
LEMMA ChosenAppend ==
  ASSUME NEW S, NEW s \in Seq(S), NEW x \in S, NEW positions
  PROVE  Chosen(Append(s, x), positions) =
           IF Len(s) + 1 \in positions THEN Append(Chosen(s, positions), x) ELSE Chosen(s, positions)
<1> DEFINE t == Append(s, x)
           n == Len(s)
<1>1. n \in Nat /\ Len(t) = n + 1 /\ t[n + 1] = x /\ \A i \in 1..n : t[i] = s[i]
  BY AppendProperties, LenProperties
<1> HIDE DEF t
<1>2. PICK f : Partly(f, s, positions, n) /\ Chosen(s, positions) = f[n]
  BY <1>1, ChosenIs
<1>3. PICK g : Partly(g, t, positions, n + 1) /\ Chosen(t, positions) = g[n + 1]
  BY <1>1, ChosenIs
<1>4. f[n] = g[n]
  <2>1. n \in Nat /\ n + 1 \in Nat /\ n <= n + 1 /\ \A i \in 1..n : s[i] = t[i]
    BY <1>1
  <2> DEFINE k == n + 1
  <2>2. Partly(f, s, positions, n) /\ Partly(g, t, positions, k) /\ n \in Nat /\ k \in Nat /\ n <= k
    BY <1>2, <1>3, <2>1
  <2> HIDE DEF n, k
  <2>4. \A i \in 1..n : (i \in positions <=> i \in positions) /\ (i \in positions => s[i] = t[i])
    BY <2>1
  <2>3. \A i \in 0..n : f[i] = g[i]
    BY <2>2, <2>4, PartlyUnique
  <2> QED
    BY <2>1, <2>3
<1>5. g[n + 1] = IF n + 1 \in positions THEN Append(g[n], t[n + 1]) ELSE g[n]
  <2>1. n \in Nat /\ n + 1 \in Nat /\ n < n + 1
    BY <1>1
  <2>2. Partly(g, t, positions, n + 1)
    BY <1>3
  <2> HIDE DEF n
  <2> QED
    BY <2>1, <2>2, PartlySteps
<1> QED
  BY <1>1, <1>2, <1>3, <1>4, <1>5 DEF t

(* What is chosen is of the kind of its elements.                            *)
LEMMA ChosenType ==
  ASSUME NEW S, NEW s, NEW positions, Len(s) \in Nat,
         \A i \in 1..Len(s) : i \in positions => s[i] \in S
  PROVE  Chosen(s, positions) \in Seq(S)
<1> DEFINE n == Len(s)
<1>1. PICK f : Partly(f, s, positions, n) /\ Chosen(s, positions) = f[n]
  BY ChosenIs
<1> DEFINE T == {i \in 0..n : f[i] \in Seq(S)}
<1>2. 0 \in T
  <2>1. f[0] = <<>> /\ <<>> \in Seq(S) /\ 0 \in 0..n
    BY <1>1, PartlySteps, EmptySeq
  <2> QED
    BY <2>1
<1>3. ASSUME NEW i \in 0..n, i \in T, i < n PROVE i + 1 \in T
  <2>1. i + 1 \in 1..n /\ i + 1 \in 0..n /\ i \in Nat
    BY <1>3
  <2>2. f[i + 1] = IF i + 1 \in positions THEN Append(f[i], s[i + 1]) ELSE f[i]
    BY <1>1, <1>3, <2>1, PartlySteps
  <2>3. f[i] \in Seq(S)
    BY <1>3
  <2>4. CASE i + 1 \in positions
    <3>1. s[i + 1] \in S
      BY <2>1, <2>4
    <3>2. Append(f[i], s[i + 1]) \in Seq(S)
      BY <2>3, <3>1, AppendProperties
    <3> QED
      BY <2>1, <2>2, <2>4, <3>2
  <2>5. CASE i + 1 \notin positions
    BY <2>1, <2>2, <2>3, <2>5
  <2> QED
    BY <2>4, <2>5
<1> HIDE DEF T
<1>4. 0..n \subseteq T
  BY <1>2, <1>3, ByInduction
<1>5. n \in T
  BY <1>4
<1> QED
  BY <1>1, <1>5 DEF T

-----------------------------------------------------------------------------
(* What the types say of an agent and of its memory.                        *)
LEMMA HandleTypes ==
  ASSUME TypeOK, HandlesExact, NEW a \in Agents, Exists(a)
  PROVE  /\ Mem(a) \in Memories /\ memory[Mem(a)] \in MemoryState
         /\ Said(a) \in Seq(Messages) /\ Len(Said(a)) \in Nat
         /\ Checkpoint(a) \in CheckpointState \cup {None}
         /\ agent[a] \in AgentState /\ act[a] \in Activation
<1>1. agent[a] \in AgentState /\ act[a] \in Activation
  BY DEF TypeOK
<1>2. Mem(a) \in Memories
  BY <1>1 DEF Mem, Exists, AgentState
<1>3. memory[Mem(a)] \in MemoryState
  BY <1>2 DEF TypeOK, HandlesExact
<1>4. Said(a) \in Seq(Messages) /\ Checkpoint(a) \in CheckpointState \cup {None}
  BY <1>3 DEF MemoryState, Said, Checkpoint
<1> QED
  BY <1>1, <1>2, <1>3, <1>4, LenProperties

(* What the types say of a memory and of its file.                          *)
LEMMA MemoryTypes ==
  ASSUME TypeOK, NEW m \in Memories
  PROVE  /\ memory[m] # None =>
              /\ memory[m] \in MemoryState /\ memory[m].messages \in Seq(Messages)
              /\ Len(memory[m].messages) \in Nat
              /\ memory[m].checkpoint # None =>
                   /\ memory[m].checkpoint \in CheckpointState
                   /\ memory[m].checkpoint.records \in Seq(Entries)
                   /\ memory[m].checkpoint.revision \in Nat /\ memory[m].checkpoint.leaf \in Nat
         /\ slot[m] # None =>
              /\ slot[m] \in SlotState /\ slot[m].messages \in Seq(Messages)
              /\ slot[m].records \in Seq(Entries) /\ slot[m].revision \in Nat
              /\ Len(slot[m].messages) \in Nat
<1>1. memory[m] \in MemoryState \cup {None} /\ slot[m] \in SlotState \cup {None}
  BY DEF TypeOK
<1>2. ASSUME memory[m] # None
      PROVE  /\ memory[m] \in MemoryState /\ memory[m].messages \in Seq(Messages)
             /\ memory[m].checkpoint \in CheckpointState \cup {None}
  BY <1>1, <1>2 DEF MemoryState
<1>3. ASSUME memory[m] # None, memory[m].checkpoint # None
      PROVE  /\ memory[m].checkpoint \in CheckpointState
             /\ memory[m].checkpoint.records \in Seq(Entries)
             /\ memory[m].checkpoint.revision \in Nat /\ memory[m].checkpoint.leaf \in Nat
  BY <1>2, <1>3 DEF CheckpointState
<1>4. ASSUME slot[m] # None
      PROVE  /\ slot[m] \in SlotState /\ slot[m].messages \in Seq(Messages)
             /\ slot[m].records \in Seq(Entries) /\ slot[m].revision \in Nat
  BY <1>1, <1>4 DEF SlotState
<1> QED
  BY <1>2, <1>3, <1>4, LenProperties

(* What the types say of a live session.                                    *)
LEMMA SessionTypes ==
  ASSUME TypeOK, NEW s \in 1..MaxSessions, Live(s)
  PROVE  /\ session[s] \in SessionState /\ session[s].entries \in Seq(Entries)
         /\ session[s].durable \in Seq(Entries)
         /\ Len(session[s].entries) \in Nat
<1>1. session[s] \in SessionState
  BY DEF TypeOK, Live
<1> QED
  BY <1>1, LenProperties DEF SessionState

(* None is nothing else.                                                     *)
LEMMA NotNone ==
  /\ \A c \in CheckpointState : c # None
  /\ \A r \in MemoryState : r # None
  /\ \A s \in SessionState : s # None
  /\ \A s \in SlotState : s # None
  /\ \A n \in Nat : n # None
  /\ \A m \in Memories : m # None
BY NoneAssumption

(* What a memory says can be part of a continuation.                         *)
LEMMA MessagesAreEntries == Messages \subseteq Entries
BY DEF Messages, Entries

-----------------------------------------------------------------------------
(* A step that leaves alone an agent, its memory and its sessions keeps     *)
(* what the invariant says of it.                                           *)
LEMMA AgentFrame ==
  ASSUME HandlesExact, NEW b \in Agents, AgentExact(b), WorkExact(b), overlooked => overlooked',
         agent'[b] = agent[b], act'[b] = act[b],
         Exists(b) => memory'[Mem(b)] = memory[Mem(b)] /\ slot'[Mem(b)] = slot[Mem(b)],
         agent[b].session # None => session'[agent[b].session] = session[agent[b].session],
         act[b].session # None => session'[act[b].session] = session[act[b].session]
  PROVE  AgentExact(b)' /\ WorkExact(b)'
<1>1. CASE ~Exists(b)
  <2>1. agent[b] = noAgent /\ act[b] = noAct
    BY <1>1 DEF HandlesExact
  <2> QED
    BY <2>1 DEF AgentExact, WorkExact, Busy, noAgent, noAct
<1>2. CASE Exists(b)
  <2>1. /\ Mem(b)' = Mem(b) /\ Said(b)' = Said(b) /\ Checkpoint(b)' = Checkpoint(b)
        /\ Busy(b)' = Busy(b)
    BY <1>2 DEF Mem, Said, Checkpoint, Busy
  <2>2. /\ persistedRecords(Mem(b))' = persistedRecords(Mem(b))
        /\ persistedRevision(Mem(b))' = persistedRevision(Mem(b))
    BY <1>2, <2>1 DEF persistedRecords, persistedRevision
  <2>3. Unsynchronized(b)' = Unsynchronized(b)
    BY <2>1, <2>2 DEF Unsynchronized, Target
  <2>4. AgentExact(b)'
    BY <2>1 DEF AgentExact
  <2>5. act[b].at = "prompting" => act[b].session # None
    BY DEF HandlesExact
  <2>6. WorkExact(b)'
    <3>1. slot'[Mem(b)'] = slot[Mem(b)]
      BY <1>2, <2>1
    <3> QED
      BY <2>1, <2>2, <2>3, <2>5, <3>1 DEF WorkExact, Given, FinalText
  <2> QED
    BY <2>4, <2>6
<1> QED
  BY <1>1, <1>2

\* A session is closed, or has what it had and perhaps more.
GoesOn(s) ==
  \/ session'[s] = session[s]
  \/ ~Live(s)' /\ (failing' \/ prompted' # 0)
  \/ /\ Live(s)' /\ session'[s].prompt = session[s].prompt
     /\ IsPrefix(session[s].entries, session'[s].entries)

(* What a checkpoint refers to, when a step leaves the memory alone and its *)
(* sessions go on or are closed.                                            *)
LEMMA CheckpointFrame ==
  ASSUME TypeOK, TypeOK', NEW n \in Memories, CheckpointExact(n),
         memory'[n] = memory[n], opened <= opened', overlooked => overlooked', prompted' = 0 => prompted = 0, failing => failing',
         \A s \in 1..opened : Live(s) \/ Live(s)' => GoesOn(s) /\ Live(s)
  PROVE  CheckpointExact(n)'
<1> SUFFICES ASSUME memory[n] # None, memory[n].checkpoint # None
             PROVE  CheckpointExact(n)'
  BY DEF CheckpointExact
<1> DEFINE c == memory[n].checkpoint
<1>1. c.revision <= Len(memory[n].messages) /\ (c.session # None => c.session <= opened)
  BY DEF CheckpointExact
<1>2. CASE c.session = None
  BY <1>1, <1>2 DEF CheckpointExact
<1>3. CASE c.session # None
  <2>1. c \in CheckpointState
    BY MemoryTypes
  <2>2. c.session \in 1..MaxSessions /\ c.session <= opened /\ c.leaf \in Nat
    BY <1>1, <1>3, <2>1 DEF CheckpointState
  <2>3. c.session \in 1..opened
    BY <2>2 DEF TypeOK
  <2>4. c.session <= opened'
    BY <2>2 DEF TypeOK
  <2>5. ASSUME Live(c.session)'
        PROVE  /\ session'[c.session].prompt = c.prompt
               /\ c.leaf <= Len(session'[c.session].entries)
               /\ ~overlooked' => IsPrefix(c.records, session'[c.session].entries)
    <3>1. Live(c.session) /\ GoesOn(c.session)
      BY <2>3, <2>5
    <3>2. /\ session[c.session].prompt = c.prompt
          /\ c.leaf <= Len(session[c.session].entries)
          /\ ~overlooked => IsPrefix(c.records, session[c.session].entries)
      BY <1>3, <3>1 DEF CheckpointExact
    <3>3. CASE session'[c.session] = session[c.session]
      BY <3>2, <3>3
    <3>4. CASE /\ session'[c.session].prompt = session[c.session].prompt
               /\ IsPrefix(session[c.session].entries, session'[c.session].entries)
      <4>1. /\ session[c.session].entries \in Seq(Entries)
            /\ session'[c.session].entries \in Seq(Entries) /\ c.records \in Seq(Entries)
        <5>1. session[c.session] \in SessionState /\ session'[c.session] \in SessionState
          BY <2>2, <2>5, <3>1 DEF TypeOK, Live
        <5> QED
          BY <2>1, <5>1 DEF SessionState, CheckpointState
      <4>2. c.leaf <= Len(session'[c.session].entries)
        BY <2>2, <3>2, <3>4, <4>1, PrefixLonger
      <4>3. ~overlooked' => IsPrefix(c.records, session'[c.session].entries)
        BY <3>2, <3>4, <4>1, PrefixTransitive
      <4> QED
        BY <3>2, <3>4, <4>2, <4>3
    <3> QED
      BY <2>5, <3>1, <3>3, <3>4 DEF GoesOn
  <2>6. ASSUME prompted' = 0, ~failing' PROVE Live(c.session)'
    <3>1. Live(c.session)
      BY <1>3, <2>6 DEF CheckpointExact
    <3> QED
      BY <2>3, <2>6, <3>1 DEF GoesOn, Live
  <2> QED
    BY <1>1, <2>4, <2>5, <2>6 DEF CheckpointExact
<1> QED
  BY <1>2, <1>3

(* A step that leaves a memory and its file alone keeps what the invariant  *)
(* says of them, while sessions go on or are closed.                        *)
LEMMA MemoryFrame ==
  ASSUME TypeOK, TypeOK', NEW n \in Memories, CheckpointExact(n), RestExact(n), FileExact(n),
         memory'[n] = memory[n], slot'[n] = slot[n], opened <= opened', overlooked => overlooked',
         prompted' = 0 => prompted = 0, failing => failing',
         \A s \in 1..opened : Live(s) \/ Live(s)' => GoesOn(s) /\ Live(s),
         \A b \in Agents : (Mem(b)' = n <=> Mem(b) = n) /\ (Mem(b) = n => act'[b].at = act[b].at)
  PROVE  CheckpointExact(n)' /\ RestExact(n)' /\ FileExact(n)'
<1>1. CheckpointExact(n)'
  BY CheckpointFrame
<1>2. RestExact(n)'
  BY DEF RestExact, Interrupted, Busy
<1>3. FileExact(n)'
  BY DEF FileExact
<1> QED
  BY <1>1, <1>2, <1>3

(* A step that gives no session to anybody and takes none from anybody      *)
(* keeps the accounts of the sessions.                                      *)
LEMMA SessionsFrame ==
  ASSUME SessionsExact, session' = session, opened' = opened, overlooked => overlooked', prompted > 0 => prompted' > 0,
         \A b \in Agents :
           /\ agent'[b].session = agent[b].session /\ act'[b].session = act[b].session
           /\ retired'[b] = retired[b]
           /\ agent'[b].prompt = agent[b].prompt \/ (agent[b].session = None /\ act[b].session = None)
  PROVE  SessionsExact'
<1>1. \A b \in Agents : \A s \in 1..MaxSessions : Uses(b, s)' <=> Uses(b, s)
  BY DEF Uses
<1>2. \A s \in 1..MaxSessions : Live(s)' <=> Live(s)
  BY DEF Live
<1> QED
  BY <1>1, <1>2 DEF SessionsExact

-----------------------------------------------------------------------------
(* An activation that fails: its sessions are closed, and neither its agent *)
(* nor the checkpoint of its memory refers to them.                         *)
LEMMA FailsKeeps ==
  ASSUME Kept, NEW a \in Agents, Busy(a), NEW why \in SUBSET {"session", "delta"},
         "session" \in why => prompted > 0, "delta" \in why => overlooked, Fails(a, why)
  PROVE  Kept'
<1> DEFINE m == Mem(a)
           ended == {act[a].session, agent[a].session} \ {None}
<1>1. /\ TypeOK /\ HandlesExact /\ SessionsExact
      /\ \A n \in Memories : CheckpointExact(n) /\ RestExact(n) /\ FileExact(n)
      /\ \A b \in Agents : AgentExact(b) /\ WorkExact(b)
  BY DEF Kept
<1>2. Exists(a) /\ retired[a] = None
  BY <1>1 DEF HandlesExact
<1>3. /\ m \in Memories /\ memory[m] \in MemoryState /\ agent[a] \in AgentState
  BY <1>1, <1>2, HandleTypes
<1>4. /\ session' = [s \in 1..MaxSessions |-> IF s \in ended THEN None ELSE session[s]]
      /\ agent' = [agent EXCEPT ![a] = [@ EXCEPT !.session = None, !.leaf = 0, !.revision = 0]]
      /\ memory' = [memory EXCEPT ![m] = [@ EXCEPT !.checkpoint = None]]
      /\ act' = [act EXCEPT ![a] = noAct] /\ failing' = TRUE /\ refused' = refused \cup why
      /\ UNCHANGED <<retired, opened, overlooked, slot, number, prompted, crashes>>
  BY <1>1 DEF Fails, invalidateAgentSession, Closed, TypeOK, bounds
<1>5. TypeOK'
  BY <1>1, <1>3, <1>4 DEF TypeOK, AgentState, MemoryState, Activation, noAct
<1>6. /\ agent'[a].session = None /\ agent'[a].memory = m /\ agent'[a].revision = 0
      /\ agent'[a].prompt = agent[a].prompt
  BY <1>1, <1>3, <1>4 DEF TypeOK, AgentState, Mem
<1>7. /\ act'[a] = noAct
      /\ \A b \in Agents \ {a} : agent'[b] = agent[b] /\ act'[b] = act[b]
  BY <1>1, <1>4 DEF TypeOK
<1>8. /\ memory'[m].checkpoint = None /\ memory'[m].messages = memory[m].messages /\ memory'[m] # None
      /\ \A n \in Memories \ {m} : memory'[n] = memory[n]
  <2>1. memory'[m] = [memory[m] EXCEPT !.checkpoint = None]
    BY <1>1, <1>3, <1>4 DEF TypeOK
  <2>2. memory'[m] \in MemoryState
    BY <1>3, <2>1 DEF MemoryState
  <2>3. memory'[m].checkpoint = None /\ memory'[m].messages = memory[m].messages
    BY <1>3, <2>1 DEF MemoryState
  <2>4. \A n \in Memories \ {m} : memory'[n] = memory[n]
    BY <1>1, <1>4 DEF TypeOK
  <2> QED
    BY <2>2, <2>3, <2>4, NotNone
<1>9. \A b \in Agents : Mem(b)' = Mem(b) /\ (Exists(b)' <=> Exists(b))
  BY <1>6, <1>7 DEF Mem, Exists
<1>10. \A b \in Agents \ {a} : Exists(b) => Mem(b) \in Memories \ {m}
  BY <1>1, <1>2, HandleTypes DEF HandlesExact
<1> HIDE DEF m
<1>11. HandlesExact'
  <2>1. \A b \in Agents :
          /\ ~Exists(b)' => agent'[b] = noAgent /\ act'[b] = noAct /\ retired'[b] = None
          /\ Exists(b)' => memory'[Mem(b)'] # None
          /\ Busy(b)' => /\ Exists(b)' /\ retired'[b] = None
                         /\ Said(b)' # <<>> /\ Last(Said(b))' = <<"in", act'[b].op>>
          /\ act'[b].session # None <=> act'[b].at = "prompting"
          /\ act'[b].turn = "none" <=> act'[b].at # "prompting"
    <3> TAKE b \in Agents
    <3>1. CASE b = a
      BY <1>2, <1>7, <1>8, <1>9, <3>1 DEF m, noAct, Busy
    <3>2. CASE b # a
      BY <1>1, <1>4, <1>7, <1>8, <1>9, <1>10, <3>2 DEF HandlesExact, Busy, Said
    <3> QED
      BY <3>1, <3>2
  <2>2. \A b, c \in Agents : Exists(b)' /\ Mem(b)' = Mem(c)' => b = c
    BY <1>1, <1>9 DEF HandlesExact
  <2>3. /\ \A n \in Memories : memory'[n] = None => slot'[n] = None
        /\ memory'[Main] # None
        /\ memory'[Main].checkpoint # None => slot'[Main] # None
    BY <1>1, <1>4, <1>8, HandleAssumption DEF HandlesExact
  <2> QED
    BY <2>1, <2>2, <2>3 DEF HandlesExact
<1>12. SessionsExact'
  <2>1. \A b \in Agents \ {a} : \A s \in 1..MaxSessions : Uses(b, s)' <=> Uses(b, s)
    BY <1>4, <1>7 DEF Uses
  <2>2. \A s \in 1..MaxSessions : (s \in ended <=> Uses(a, s)) /\ ~Uses(a, s)'
    BY <1>2, <1>4, <1>6, <1>7, NotNone DEF Uses, noAct
  <2>3. \A s \in 1..MaxSessions : Live(s)' <=> Live(s) /\ ~Uses(a, s)
    BY <1>4, <2>2 DEF Live
  <2>4. \A s \in 1..MaxSessions : Live(s)' => session'[s] = session[s]
    BY <1>4, <2>2, <2>3
  <2>5. \A s \in 1..MaxSessions : Live(s)' <=> \E b \in Agents : Uses(b, s)'
    BY <1>1, <2>1, <2>2, <2>3 DEF SessionsExact
  <2>6. \A b \in Agents :
          /\ retired'[b] # None => prompted' > 0 /\ agent'[b].session = None
          /\ agent'[b].session # None /\ act'[b].session # None => agent'[b].session = act'[b].session
          /\ agent'[b].session # None => session'[agent'[b].session].prompt = agent'[b].prompt
          /\ act'[b].session # None => session'[act'[b].session].prompt = agent'[b].prompt
    <3> TAKE b \in Agents
    <3>1. CASE b = a
      BY <1>2, <1>4, <1>6, <1>7, <3>1 DEF noAct
    <3>2. CASE b # a
      <4>1. agent[b].session \in (1..MaxSessions) \cup {None} /\ act[b].session \in (1..MaxSessions) \cup {None}
        BY <1>1 DEF TypeOK, AgentState, Activation
      <4>2. /\ agent[b].session # None => Live(agent[b].session)'
            /\ act[b].session # None => Live(act[b].session)'
        BY <1>7, <2>5, <3>2, <4>1 DEF Uses
      <4> QED
        BY <1>1, <1>4, <1>7, <2>4, <3>2, <4>1, <4>2 DEF SessionsExact
    <3> QED
      BY <3>1, <3>2
  <2>7. /\ \A s \in 1..MaxSessions : s > opened' => ~Live(s)'
        /\ \A s \in 1..MaxSessions : \A b, c \in Agents : Uses(b, s)' /\ Uses(c, s)' => b = c
    BY <1>1, <1>4, <2>1, <2>2, <2>3 DEF SessionsExact
  <2>8. ~overlooked' => \A s \in 1..MaxSessions : Live(s)' => Durable(session'[s])
    BY <1>1, <1>4, <2>3, <2>4 DEF SessionsExact
  <2> QED
    BY <2>5, <2>6, <2>7, <2>8 DEF SessionsExact
<1>13. ASSUME NEW n \in Memories PROVE CheckpointExact(n)' /\ RestExact(n)' /\ FileExact(n)'
  <2>1. CASE n = m
    <3>1. CheckpointExact(n)' /\ RestExact(n)'
      BY <1>4, <1>8, <2>1 DEF CheckpointExact, RestExact
    <3>2. \A b \in Agents : Mem(b)' = m => act'[b].at = "idle"
      BY <1>7, <1>9, <1>10, <1>3, NotNone DEF m, noAct, Exists, Mem
    <3> QED
      BY <1>1, <1>3, <1>4, <1>8, <2>1, <3>1, <3>2 DEF FileExact
  <2>2. CASE n # m
    <3>1. memory'[n] = memory[n] /\ slot'[n] = slot[n]
      BY <1>4, <1>8, <2>2
    <3>2. \A s \in 1..opened : Live(s) \/ Live(s)' => GoesOn(s) /\ Live(s)
      <4> TAKE s \in 1..opened
      <4>1. s \in 1..MaxSessions
        BY <1>1, BoundAssumption DEF TypeOK
      <4> QED
        BY <1>4, <4>1 DEF GoesOn, Live
    <3>3. \A b \in Agents : (Mem(b)' = n <=> Mem(b) = n) /\ (Mem(b) = n => act'[b].at = act[b].at)
      BY <1>7, <1>9, <2>2 DEF m
    <3>4. opened <= opened' /\ (overlooked => overlooked') /\ (prompted' = 0 => prompted = 0) /\ (failing => failing')
      BY <1>1, <1>4 DEF TypeOK
    <3> QED
      BY <1>1, <1>5, <3>1, <3>2, <3>3, <3>4, MemoryFrame
  <2> QED
    BY <2>1, <2>2
<1>14. ASSUME NEW b \in Agents PROVE AgentExact(b)' /\ WorkExact(b)'
  <2>1. CASE b = a
    BY <1>6, <1>7, <2>1 DEF AgentExact, WorkExact, Busy, noAct
  <2>2. CASE b # a
    <3>1. Exists(b) => memory'[Mem(b)] = memory[Mem(b)] /\ slot'[Mem(b)] = slot[Mem(b)]
      BY <1>4, <1>8, <1>10, <2>2
    <3>2. \A s \in 1..MaxSessions : Uses(b, s) => session'[s] = session[s]
      BY <1>1, <1>2, <1>4, <2>2 DEF SessionsExact, Uses
    <3>3. agent[b].session \in (1..MaxSessions) \cup {None} /\ act[b].session \in (1..MaxSessions) \cup {None}
      BY <1>1 DEF TypeOK, AgentState, Activation
    <3> QED
      BY <1>1, <1>4, <1>7, <2>2, <3>1, <3>2, <3>3, AgentFrame DEF Uses
  <2> QED
    BY <2>1, <2>2
<1>15. /\ "unsuited" \notin refused' /\ "append-only" \notin refused'
       /\ "delta" \in refused' => overlooked'
       /\ "session" \in refused' => prompted' > 0
  BY <1>4 DEF Kept
<1> QED
  BY <1>5, <1>11, <1>12, <1>13, <1>14, <1>15 DEF Kept

-----------------------------------------------------------------------------
(* A step of one agent and its memory keeps the handles in order, and what  *)
(* the invariant says of every other agent and memory.                      *)
LEMMA LocalStep ==
  ASSUME Kept, TypeOK', NEW a \in Agents, NEW m, m = Mem(a), Exists(a),
         agent'[a].memory = m, memory'[m] # None,
         \A b \in Agents \ {a} : agent'[b] = agent[b] /\ act'[b] = act[b] /\ retired'[b] = retired[b],
         \A n \in Memories \ {m} : memory'[n] = memory[n] /\ slot'[n] = slot[n],
         Busy(a)' => /\ retired'[a] = None /\ memory'[m].messages # <<>>
                     /\ Last(memory'[m].messages) = <<"in", act'[a].op>>,
         act'[a].session # None <=> act'[a].at = "prompting",
         act'[a].turn = "none" <=> act'[a].at # "prompting",
         m = Main /\ memory'[m].checkpoint # None => slot'[m] # None,
         opened <= opened', overlooked => overlooked', prompted' = 0 => prompted = 0, failing => failing',
         \A s \in 1..opened : Live(s) \/ Live(s)' => GoesOn(s) /\ Live(s),
         \A s \in 1..opened : Uses(a, s) \/ session'[s] = session[s]
  PROVE  /\ HandlesExact'
         /\ \A n \in Memories \ {m} : CheckpointExact(n)' /\ RestExact(n)' /\ FileExact(n)'
         /\ \A b \in Agents \ {a} : AgentExact(b)' /\ WorkExact(b)'
<1>1. /\ TypeOK /\ HandlesExact /\ SessionsExact
      /\ \A n \in Memories : CheckpointExact(n) /\ RestExact(n) /\ FileExact(n)
      /\ \A b \in Agents : AgentExact(b) /\ WorkExact(b)
  BY DEF Kept
<1>2. m \in Memories
  BY <1>1, HandleTypes
<1>3. \A b \in Agents : Mem(b)' = Mem(b) /\ (Exists(b)' <=> Exists(b))
  BY DEF Mem, Exists
<1>4. \A b \in Agents \ {a} : Exists(b) => Mem(b) \in Memories \ {m}
  BY <1>1, HandleTypes DEF HandlesExact
<1>5. HandlesExact'
  <2>1. \A b \in Agents :
          /\ ~Exists(b)' => agent'[b] = noAgent /\ act'[b] = noAct /\ retired'[b] = None
          /\ Exists(b)' => memory'[Mem(b)'] # None
          /\ Busy(b)' => /\ Exists(b)' /\ retired'[b] = None
                         /\ Said(b)' # <<>> /\ Last(Said(b))' = <<"in", act'[b].op>>
          /\ act'[b].session # None <=> act'[b].at = "prompting"
          /\ act'[b].turn = "none" <=> act'[b].at # "prompting"
    <3> TAKE b \in Agents
    <3>1. CASE b = a
      BY <1>3, <3>1 DEF Said
    <3>2. CASE b # a
      BY <1>1, <1>3, <1>4, <3>2 DEF HandlesExact, Busy, Said
    <3> QED
      BY <3>1, <3>2
  <2>2. \A b, c \in Agents : Exists(b)' /\ Mem(b)' = Mem(c)' => b = c
    BY <1>1, <1>3 DEF HandlesExact
  <2>3. \A n \in Memories : memory'[n] = None => slot'[n] = None
    BY <1>1 DEF HandlesExact
  <2>4. memory'[Main] # None /\ (memory'[Main].checkpoint # None => slot'[Main] # None)
    <3>1. CASE m = Main
      BY <3>1
    <3>2. CASE m # Main
      BY <1>1, <3>2, HandleAssumption DEF HandlesExact
    <3> QED
      BY <3>1, <3>2
  <2> QED
    BY <2>1, <2>2, <2>3, <2>4 DEF HandlesExact
<1>6. ASSUME NEW n \in Memories \ {m} PROVE CheckpointExact(n)' /\ RestExact(n)' /\ FileExact(n)'
  <2>1. \A b \in Agents : (Mem(b)' = n <=> Mem(b) = n) /\ (Mem(b) = n => act'[b].at = act[b].at)
    BY <1>3
  <2> QED
    BY <1>1, <2>1, MemoryFrame
<1>7. ASSUME NEW b \in Agents \ {a} PROVE AgentExact(b)' /\ WorkExact(b)'
  <2>1. Exists(b) => memory'[Mem(b)] = memory[Mem(b)] /\ slot'[Mem(b)] = slot[Mem(b)]
    BY <1>4
  <2>2. \A s \in 1..opened : Uses(b, s) => session'[s] = session[s]
    <3> SUFFICES ASSUME NEW s \in 1..opened, Uses(b, s) PROVE ~Uses(a, s)
      OBVIOUS
    <3>1. s \in 1..MaxSessions
      BY <1>1, BoundAssumption DEF TypeOK
    <3> QED
      BY <1>1, <3>1 DEF SessionsExact
  <2>3. \A s \in (1..MaxSessions) \cup {None} : s # None /\ Uses(b, s) => s \in 1..opened
    <3> SUFFICES ASSUME NEW s \in 1..MaxSessions, Uses(b, s) PROVE s \in 1..opened
      OBVIOUS
    <3>1. Live(s)
      BY <1>1 DEF SessionsExact
    <3> QED
      BY <1>1, <3>1 DEF SessionsExact, TypeOK
  <2>4. agent[b].session \in (1..MaxSessions) \cup {None} /\ act[b].session \in (1..MaxSessions) \cup {None}
    BY <1>1 DEF TypeOK, AgentState, Activation
  <2>5. /\ agent[b].session # None => session'[agent[b].session] = session[agent[b].session]
        /\ act[b].session # None => session'[act[b].session] = session[act[b].session]
    BY <2>2, <2>3, <2>4 DEF Uses
  <2> QED
    BY <1>1, <2>1, <2>5, AgentFrame
<1> QED
  BY <1>5, <1>6, <1>7

(* The memory of an idle agent: an interrupted one is synchronized, and its *)
(* file is the beginning of its continuation.                               *)
LEMMA Idlers ==
  ASSUME Kept, NEW a \in Agents, Exists(a), ~Busy(a), ~failing
  PROVE  /\ Interrupted(Mem(a)) => /\ Checkpoint(a) # None
                                   /\ Checkpoint(a).revision = Len(Said(a))
         /\ slot[Mem(a)] # None => /\ Checkpoint(a) # None
                                   /\ IsPrefix(slot[Mem(a)].records, Checkpoint(a).records)
<1>1. \A b \in Agents : Mem(b) = Mem(a) => b = a
  BY DEF Kept, HandlesExact, Exists, Mem
<1>2. Mem(a) \in Memories /\ memory[Mem(a)] # None
  BY HandleTypes DEF Kept, HandlesExact
<1>3. RestExact(Mem(a)) /\ FileExact(Mem(a))
  BY <1>2 DEF Kept
<1> QED
  BY <1>1, <1>2, <1>3 DEF RestExact, FileExact, Checkpoint, Said, Busy

-----------------------------------------------------------------------------
(* agent.do keeps the invariant.                                            *)
LEMMA DoKeeps ==
  ASSUME Kept, NEW a \in Agents, Do(a)
  PROVE  Kept'
<1> SUFFICES ASSUME NEW m, m = Mem(a) PROVE Kept'
  OBVIOUS
<1> DEFINE fresh == ~Interrupted(m)
           op == IF fresh THEN number + 1 ELSE Last(Said(a))[2]
<1>1. /\ TypeOK /\ HandlesExact /\ SessionsExact
      /\ \A n \in Memories : CheckpointExact(n) /\ RestExact(n) /\ FileExact(n)
      /\ \A b \in Agents : AgentExact(b) /\ WorkExact(b)
  BY DEF Kept
<1>2. Exists(a) /\ act[a].at = "idle" /\ retired[a] = None /\ ~failing
  BY DEF Do, Ready
<1>3. /\ m \in Memories /\ memory[m] \in MemoryState /\ agent[a] \in AgentState
      /\ memory[m].messages \in Seq(Messages) /\ Len(memory[m].messages) \in Nat
  BY <1>1, <1>2, HandleTypes DEF Said
<1>4. /\ act' = [act EXCEPT ![a] = [noAct EXCEPT !.at = "input", !.op = op, !.resuming = ~fresh]]
      /\ UNCHANGED <<agent, retired, failing, session, opened, overlooked, slot, refused, prompted, crashes>>
  BY DEF Do, executor
<1>5. /\ fresh => number' = op /\ memory' = [memory EXCEPT ![m].messages = Append(@, <<"in", op>>)]
      /\ ~fresh => number' = number /\ memory' = memory
  <2>1. CASE fresh
    BY <2>1 DEF Do
  <2>2. CASE ~fresh
    BY <2>2 DEF Do
  <2> QED
    BY <2>1, <2>2
<1>6. op \in Nat /\ (~fresh => Said(a) # <<>> /\ Last(Said(a)) = <<"in", op>>)
  <2>1. CASE fresh
    BY <1>1, <2>1 DEF TypeOK
  <2>2. CASE ~fresh
    <3>1. memory[m].messages # <<>> /\ Last(memory[m].messages)[1] = "in"
      BY <2>2 DEF Interrupted
    <3>2. Last(memory[m].messages) \in Messages
      BY <1>3, <3>1, LastIn
    <3> QED
      BY <2>2, <3>1, <3>2 DEF Messages, Said
  <2> QED
    BY <2>1, <2>2
<1>7. /\ memory'[m] \in MemoryState /\ memory'[m].checkpoint = memory[m].checkpoint
      /\ memory'[m].messages = IF fresh THEN Append(memory[m].messages, <<"in", op>>) ELSE memory[m].messages
      /\ \A n \in Memories \ {m} : memory'[n] = memory[n]
  <2>1. CASE fresh
    <3> HIDE DEF fresh, op
    <3>1. memory'[m] = [memory[m] EXCEPT !.messages = Append(@, <<"in", op>>)]
      BY <1>1, <1>3, <1>5, <2>1 DEF TypeOK
    <3>2. Append(memory[m].messages, <<"in", op>>) \in Seq(Messages)
      BY <1>3, <1>6, AppendProperties DEF Messages
    <3> QED
      BY <1>1, <1>3, <1>5, <2>1, <3>1, <3>2 DEF TypeOK, MemoryState
  <2>2. CASE ~fresh
    BY <1>3, <1>5, <2>2
  <2> QED
    BY <2>1, <2>2
<1>8. memory'[m].messages # <<>> /\ Last(memory'[m].messages) = <<"in", op>>
  <2>1. CASE fresh
    <3>1. <<"in", op>> \in Messages
      BY <1>6 DEF Messages
    <3> QED
      BY <1>3, <1>7, <2>1, <3>1, LastAppended
  <2>2. CASE ~fresh
    BY <1>6, <1>7, <2>2 DEF Said
  <2> QED
    BY <2>1, <2>2
<1>9. /\ act'[a].at = "input" /\ act'[a].op = op /\ act'[a].resuming = ~fresh /\ act'[a].session = None
      /\ act'[a].turn = "none" /\ act'[a] \in Activation
      /\ \A b \in Agents \ {a} : act'[b] = act[b]
  BY <1>1, <1>4, <1>6 DEF TypeOK, noAct, Activation
<1> HIDE DEF fresh, op
<1>10. TypeOK'
  <2>1. memory' \in [Memories -> MemoryState \cup {None}]
    BY <1>1, <1>3, <1>5, <1>7 DEF TypeOK
  <2>2. act' \in [Agents -> Activation]
    BY <1>1, <1>4, <1>9 DEF TypeOK
  <2>3. number' \in Nat
    BY <1>1, <1>5, <1>6 DEF TypeOK
  <2> QED
    BY <1>1, <1>4, <2>1, <2>2, <2>3 DEF TypeOK
<1>11. /\ HandlesExact'
       /\ \A n \in Memories \ {m} : CheckpointExact(n)' /\ RestExact(n)' /\ FileExact(n)'
       /\ \A b \in Agents \ {a} : AgentExact(b)' /\ WorkExact(b)'
  <2>1. m = Mem(a) /\ agent'[a].memory = m /\ memory'[m] # None
    BY <1>4, <1>7, NotNone DEF Mem
  <2>2. m = Main /\ memory'[m].checkpoint # None => slot'[m] # None
    BY <1>1, <1>4, <1>7 DEF HandlesExact
  <2>3. opened <= opened' /\ (overlooked => overlooked')
    BY <1>1, <1>4 DEF TypeOK
  <2> QED
    BY <1>2, <1>4, <1>7, <1>8, <1>9, <1>10, <2>1, <2>2, <2>3, LocalStep DEF GoesOn, Live
<1>12. SessionsExact'
  <2>1. act[a].session = None
    BY <1>1, <1>2 DEF HandlesExact
  <2> QED
    BY <1>1, <1>4, <1>9, <2>1, SessionsFrame
<1>13. \A b \in Agents : Mem(b) = m => b = a
  BY <1>1, <1>2 DEF HandlesExact, Exists, Mem
<1>14. CheckpointExact(m)'
  <2>1. Len(memory[m].messages) <= Len(memory'[m].messages)
    BY <1>3, <1>7, <1>6, AppendProperties DEF Messages
  <2>2. memory[m].checkpoint # None => memory[m].checkpoint.revision \in Nat
    BY <1>1, <1>3, NotNone, MemoryTypes
  <2>3. Len(memory'[m].messages) \in Nat
    BY <1>7, LenProperties DEF MemoryState
  <2>4. memory[m] # None
    BY <1>3, NotNone
  <2> QED
    BY <1>1, <1>3, <1>4, <1>7, <2>1, <2>2, <2>3, <2>4 DEF CheckpointExact, Live
<1>15. RestExact(m)'
  BY <1>4, <1>9 DEF RestExact, Busy, Mem
<1>16. FileExact(m)'
  BY <1>1, <1>2, <1>3, <1>4, <1>7, <1>13 DEF FileExact
<1>17. AgentExact(a)' /\ WorkExact(a)'
  <2>1. /\ Mem(a)' = m /\ Checkpoint(a)' = memory'[m].checkpoint /\ Said(a)' = memory'[m].messages
        /\ Checkpoint(a) = memory[m].checkpoint /\ Said(a) = memory[m].messages
    BY <1>4 DEF Mem, Checkpoint, Said
  <2>2. ~fresh => Checkpoint(a) # None /\ Checkpoint(a).revision = Len(Said(a))
    BY <1>2, Idlers DEF fresh, Busy
  <2>3. Checkpoint(a) # None => Checkpoint(a).revision <= Len(Said(a)) /\ Checkpoint(a).revision \in Nat
    BY <1>1, <1>3, <2>1, NotNone, MemoryTypes DEF CheckpointExact
  <2>4. fresh => Len(Said(a)') = Len(Said(a)) + 1
    BY <1>3, <1>6, <1>7, <2>1, AppendProperties DEF Messages
  <2>5. Said(a)' = Said(a) \/ fresh
    BY <1>7, <2>1
  <2>6. agent'[a] = agent[a] /\ session' = session
    BY <1>4
  <2>7. Len(Said(a)) \in Nat
    BY <1>3, <2>1
  <2>8. Checkpoint(a)' = Checkpoint(a)
    BY <1>7, <2>1
  <2>9. Busy(a)' /\ act'[a].at = "input" /\ act[a].at # "prompting"
    BY <1>2, <1>9 DEF Busy
  <2>10. WorkExact(a)'
    BY <1>9, <2>9 DEF WorkExact
  <2>11. /\ fresh /\ Checkpoint(a) # None => Checkpoint(a).revision < Len(Said(a)')
         /\ ~fresh => Checkpoint(a) # None /\ Checkpoint(a).revision = Len(Said(a)')
    BY <2>2, <2>3, <2>4, <2>5, <2>7
  <2>12. AgentExact(a)'
    BY <1>1, <1>4, <1>9, <2>6, <2>8, <2>9, <2>11 DEF AgentExact
  <2> QED
    BY <2>10, <2>12
<1> QED
  BY <1>4, <1>10, <1>11, <1>12, <1>14, <1>15, <1>16, <1>17 DEF Kept

(* restoreAgentSession with nothing to do keeps the invariant.              *)
LEMMA RestoredKeeps ==
  ASSUME Kept, NEW a \in Agents, Restored(a)
  PROVE  Kept'
<1> SUFFICES ASSUME NEW m, m = Mem(a) PROVE Kept'
  OBVIOUS
<1>1. /\ TypeOK /\ HandlesExact /\ SessionsExact
      /\ \A n \in Memories : CheckpointExact(n) /\ RestExact(n) /\ FileExact(n)
      /\ \A b \in Agents : AgentExact(b) /\ WorkExact(b)
  BY DEF Kept
<1>2. act[a].at = "input" /\ (agent[a].session # None \/ Checkpoint(a) = None)
  BY DEF Restored
<1>3. Exists(a) /\ retired[a] = None /\ Said(a) # <<>> /\ Last(Said(a)) = <<"in", act[a].op>>
  BY <1>1, <1>2 DEF HandlesExact, Busy
<1>4. /\ act' = [act EXCEPT ![a] = [@ EXCEPT !.at = "restored"]]
      /\ UNCHANGED <<agent, memory, retired, failing, session, opened, overlooked, slot, refused, number, prompted, crashes>>
  BY DEF Restored, Goes, executor, bounds
<1>5. /\ act[a] \in Activation /\ act'[a] = [act[a] EXCEPT !.at = "restored"]
      /\ \A b \in Agents \ {a} : act'[b] = act[b]
  BY <1>1, <1>4 DEF TypeOK
<1>6. /\ act'[a].at = "restored" /\ act'[a].op = act[a].op /\ act'[a].resuming = act[a].resuming
      /\ act'[a].session = act[a].session /\ act'[a].turn = act[a].turn /\ act'[a] \in Activation
  BY <1>5 DEF Activation
<1>7. TypeOK'
  BY <1>1, <1>4, <1>6 DEF TypeOK
<1>8. m \in Memories /\ memory[m] # None
  BY <1>1, <1>3, HandleTypes DEF HandlesExact
<1>9. /\ HandlesExact'
      /\ \A n \in Memories \ {m} : CheckpointExact(n)' /\ RestExact(n)' /\ FileExact(n)'
      /\ \A b \in Agents \ {a} : AgentExact(b)' /\ WorkExact(b)'
  <2>1. m = Mem(a) /\ agent'[a].memory = m /\ memory'[m] # None
    BY <1>4, <1>8 DEF Mem
  <2>2. m = Main /\ memory'[m].checkpoint # None => slot'[m] # None
    BY <1>1, <1>4 DEF HandlesExact
  <2>3. opened <= opened' /\ (overlooked => overlooked')
    BY <1>1, <1>4 DEF TypeOK
  <2>4. memory'[m].messages # <<>> /\ Last(memory'[m].messages) = <<"in", act'[a].op>>
    BY <1>3, <1>4, <1>6 DEF Said
  <2>5. /\ act'[a].session # None <=> act'[a].at = "prompting"
        /\ act'[a].turn = "none" <=> act'[a].at # "prompting"
    BY <1>1, <1>2, <1>6 DEF HandlesExact
  <2> QED
    BY <1>3, <1>4, <1>5, <1>7, <2>1, <2>2, <2>3, <2>4, <2>5, LocalStep DEF GoesOn, Live
<1>10. SessionsExact'
  BY <1>1, <1>4, <1>5, <1>6, SessionsFrame
<1>11. CheckpointExact(m)' /\ RestExact(m)' /\ FileExact(m)'
  <2>1. \A b \in Agents : Mem(b) = m => b = a
    BY <1>1, <1>3 DEF HandlesExact, Exists, Mem
  <2>2. CheckpointExact(m)'
    BY <1>1, <1>4, <1>8 DEF CheckpointExact, Live
  <2>3. RestExact(m)'
    BY <1>4, <1>6 DEF RestExact, Busy, Mem
  <2>4. FileExact(m)'
    BY <1>1, <1>2, <1>4, <1>5, <1>6, <1>8, <2>1 DEF FileExact, Mem
  <2> QED
    BY <2>2, <2>3, <2>4
<1>12. AgentExact(a)' /\ WorkExact(a)'
  <2>1. /\ Mem(a)' = Mem(a) /\ Checkpoint(a)' = Checkpoint(a) /\ Said(a)' = Said(a)
    BY <1>4 DEF Mem, Checkpoint, Said
  <2> QED
    BY <1>1, <1>2, <1>4, <1>6, <2>1 DEF AgentExact, WorkExact, Busy
<1> QED
  BY <1>4, <1>7, <1>9, <1>10, <1>11, <1>12 DEF Kept

-----------------------------------------------------------------------------
(* What is to be written when an activation begins has its type and its     *)
(* length: the continuation never reaches beyond the target.                *)
LEMMA Continuation ==
  ASSUME Kept, NEW a \in Agents, Busy(a)
  PROVE  /\ persistedRecords(Mem(a)) \in Seq(Entries)
         /\ persistedRevision(Mem(a)) \in Nat /\ persistedRevision(Mem(a)) <= Target(a)
         /\ Target(a) \in Nat /\ Target(a) <= Len(Said(a))
         /\ Len(Said(a)) \in Nat \ {0} /\ Said(a) \in Seq(Messages)
         /\ Unsynchronized(a) \in Seq(Entries)
<1>1. TypeOK /\ HandlesExact /\ AgentExact(a)
  BY DEF Kept
<1>2. Exists(a) /\ Said(a) # <<>>
  BY <1>1 DEF HandlesExact
<1>3. /\ Mem(a) \in Memories /\ memory[Mem(a)] # None /\ Said(a) \in Seq(Messages)
      /\ Len(Said(a)) \in Nat /\ act[a] \in Activation
  BY <1>1, <1>2, HandleTypes DEF HandlesExact
<1>4. Len(Said(a)) # 0
  BY <1>2, <1>3, EmptySeq
<1>5. act[a].resuming \in BOOLEAN
  BY <1>3 DEF Activation
<1>6. /\ Checkpoint(a) = None => /\ persistedRecords(Mem(a)) = <<>>
                                 /\ persistedRevision(Mem(a)) = 0
      /\ Checkpoint(a) # None => /\ persistedRecords(Mem(a)) = Checkpoint(a).records
                                 /\ persistedRevision(Mem(a)) = Checkpoint(a).revision
                                 /\ Checkpoint(a).records \in Seq(Entries)
                                 /\ Checkpoint(a).revision \in Nat
  BY <1>1, <1>3, MemoryTypes DEF Checkpoint, persistedRecords, persistedRevision
<1>7. persistedRecords(Mem(a)) \in Seq(Entries) /\ persistedRevision(Mem(a)) \in Nat
  <2>1. <<>> \in Seq(Entries)
    OBVIOUS
  <2>2. CASE Checkpoint(a) = None
    BY <1>6, <2>1, <2>2
  <2>3. CASE Checkpoint(a) # None
    BY <1>6, <2>3
  <2> QED
    BY <2>2, <2>3
<1>8. Target(a) \in Nat /\ Target(a) <= Len(Said(a)) /\ persistedRevision(Mem(a)) <= Target(a)
  <2>1. CASE act[a].resuming
    BY <1>1, <1>3, <1>6, <2>1 DEF AgentExact, Target
  <2>2. CASE ~act[a].resuming
    BY <1>1, <1>3, <1>4, <1>6, <2>2 DEF AgentExact, Target
  <2> QED
    BY <2>1, <2>2
<1>9. Unsynchronized(a) \in Seq(Messages)
  <2>1. persistedRevision(Mem(a)) + 1 \in Nat \ {0}
    BY <1>7
  <2> QED
    BY <1>3, <1>8, <2>1, Part DEF Unsynchronized
<1> QED
  BY <1>3, <1>4, <1>7, <1>8, <1>9, SeqMonotonic, MessagesAreEntries

(* beginAgentAttempt keeps the invariant; the file is never refused.        *)
LEMMA BeginKeeps ==
  ASSUME Kept, NEW a \in Agents, Begin(a)
  PROVE  Kept'
<1> SUFFICES ASSUME NEW m, m = Mem(a) PROVE Kept'
  OBVIOUS
<1> DEFINE records == persistedRecords(Mem(a)) \o Unsynchronized(a)
           revision == IF Unsynchronized(a) = <<>> THEN persistedRevision(Mem(a)) ELSE Target(a)
           file == [messages |-> Said(a), records |-> records, revision |-> revision]
<1>1. /\ TypeOK /\ HandlesExact /\ SessionsExact
      /\ \A n \in Memories : CheckpointExact(n) /\ RestExact(n) /\ FileExact(n)
      /\ \A b \in Agents : AgentExact(b) /\ WorkExact(b)
  BY DEF Kept
<1>2. act[a].at = "restored" /\ Busy(a)
  BY DEF Begin, Busy
<1>3. Exists(a) /\ retired[a] = None /\ Said(a) # <<>> /\ Last(Said(a)) = <<"in", act[a].op>>
  BY <1>1, <1>2 DEF HandlesExact
<1>4. /\ m \in Memories /\ memory[m] # None /\ memory[m] \in MemoryState
      /\ memory[m].messages \in Seq(Messages)
      /\ \A b \in Agents : Mem(b) = m => b = a
  BY <1>1, <1>3, HandleTypes DEF HandlesExact, Exists, Mem, Said
<1>5. /\ records \in Seq(Entries) /\ revision \in Nat /\ revision <= Len(Said(a)) /\ Said(a) \in Seq(Messages)
      /\ persistedRecords(Mem(a)) \in Seq(Entries) /\ Unsynchronized(a) \in Seq(Entries)
  BY <1>2, Continuation, ConcatProperties
<1>6. slot[m] # None => AppendOnly(slot[m].records, records)
  <2> SUFFICES ASSUME slot[m] # None PROVE AppendOnly(slot[m].records, records)
    OBVIOUS
  <2>1. memory[m].checkpoint # None /\ IsPrefix(slot[m].records, memory[m].checkpoint.records)
    BY <1>1, <1>2, <1>4 DEF FileExact
  <2>2. persistedRecords(Mem(a)) = memory[m].checkpoint.records
    BY <2>1 DEF persistedRecords
  <2>3. slot[m].records \in Seq(Entries)
    BY <1>1, <1>4, MemoryTypes
  <2> QED
    BY <1>5, <2>1, <2>2, <2>3, PrefixGrows DEF AppendOnly
<1>7. /\ slot' = [slot EXCEPT ![m] = file]
      /\ act' = [act EXCEPT ![a] = [@ EXCEPT !.at = "begun"]]
      /\ UNCHANGED <<agent, memory, retired, failing, session, opened, overlooked, refused, number, prompted, crashes>>
  BY <1>6 DEF Begin, Goes, executor, bounds
<1>8. /\ act[a] \in Activation /\ act'[a] = [act[a] EXCEPT !.at = "begun"]
      /\ \A b \in Agents \ {a} : act'[b] = act[b]
      /\ slot'[m] = file /\ \A n \in Memories \ {m} : slot'[n] = slot[n]
  BY <1>1, <1>4, <1>7 DEF TypeOK
<1>9. /\ act'[a].at = "begun" /\ act'[a].op = act[a].op /\ act'[a].resuming = act[a].resuming
      /\ act'[a].session = act[a].session /\ act'[a].turn = act[a].turn /\ act'[a] \in Activation
  BY <1>8 DEF Activation
<1>10. /\ file \in SlotState /\ file # None /\ file.messages = Said(a) /\ file.records = records
       /\ file.revision = revision
  BY <1>5, NotNone DEF SlotState
<1> HIDE DEF file, records, revision
<1>11. TypeOK'
  <2>1. act' \in [Agents -> Activation]
    BY <1>1, <1>7, <1>9 DEF TypeOK
  <2>2. slot' \in [Memories -> SlotState \cup {None}]
    BY <1>1, <1>7, <1>10 DEF TypeOK
  <2> QED
    BY <1>1, <1>7, <2>1, <2>2 DEF TypeOK
<1>12. /\ HandlesExact'
       /\ \A n \in Memories \ {m} : CheckpointExact(n)' /\ RestExact(n)' /\ FileExact(n)'
       /\ \A b \in Agents \ {a} : AgentExact(b)' /\ WorkExact(b)'
  <2>1. m = Mem(a) /\ agent'[a].memory = m /\ memory'[m] # None
    BY <1>4, <1>7 DEF Mem
  <2>2. m = Main /\ memory'[m].checkpoint # None => slot'[m] # None
    BY <1>8, <1>10
  <2>3. opened <= opened' /\ (overlooked => overlooked')
    BY <1>1, <1>7 DEF TypeOK
  <2>4. memory'[m].messages # <<>> /\ Last(memory'[m].messages) = <<"in", act'[a].op>>
    BY <1>3, <1>7, <1>9 DEF Said
  <2>5. /\ act'[a].session # None <=> act'[a].at = "prompting"
        /\ act'[a].turn = "none" <=> act'[a].at # "prompting"
    BY <1>1, <1>2, <1>9 DEF HandlesExact
  <2> QED
    BY <1>3, <1>7, <1>8, <1>11, <2>1, <2>2, <2>3, <2>4, <2>5, LocalStep DEF GoesOn, Live
<1>13. SessionsExact'
  BY <1>1, <1>7, <1>8, <1>9, SessionsFrame
<1>14. CheckpointExact(m)' /\ RestExact(m)' /\ FileExact(m)'
  <2>1. CheckpointExact(m)'
    BY <1>1, <1>4, <1>7 DEF CheckpointExact, Live
  <2>2. RestExact(m)'
    BY <1>7, <1>9 DEF RestExact, Busy, Mem
  <2>3. FileExact(m)'
    BY <1>5, <1>7, <1>8, <1>9, <1>10 DEF FileExact, Mem
  <2> QED
    BY <2>1, <2>2, <2>3
<1>15. AgentExact(a)' /\ WorkExact(a)'
  <2>1. Mem(a)' = m /\ Checkpoint(a)' = Checkpoint(a) /\ Said(a)' = Said(a)
    BY <1>7 DEF Mem, Checkpoint, Said
  <2>2. AgentExact(a)'
    BY <1>1, <1>2, <1>7, <1>9, <2>1 DEF AgentExact, Busy
  <2>3. /\ persistedRecords(Mem(a))' = persistedRecords(Mem(a))
        /\ persistedRevision(Mem(a))' = persistedRevision(Mem(a))
    BY <1>7 DEF persistedRecords, persistedRevision, Mem
  <2>4. Unsynchronized(a)' = Unsynchronized(a)
    BY <1>9, <2>1, <2>3 DEF Unsynchronized, Target
  <2>5. WorkExact(a)'
    <3>1. act'[a].turn = "none"
      BY <1>1, <1>2, <1>9 DEF HandlesExact
    <3> QED
      BY <1>8, <1>9, <1>10, <2>1, <2>3, <2>4, <3>1 DEF WorkExact, records
  <2> QED
    BY <2>2, <2>5
<1> QED
  BY <1>7, <1>11, <1>12, <1>13, <1>14, <1>15 DEF Kept

-----------------------------------------------------------------------------
(* A session that has recorded all of its entries.                          *)
LEMMA DurableAll ==
  ASSUME NEW s \in SessionState, s.entries = s.durable, s.synced = Len(s.durable)
  PROVE  Durable(s)
<1>1. <<>> \in Seq(Changes) /\ s.durable \in Seq(Entries)
  BY DEF SessionState
<1>2. s.entries = s.durable \o <<>>
  BY <1>1, ConcatEmptySeq
<1> QED
  BY <1>1, <1>2 DEF Durable

(* A new session, under the next number, for an agent that has none: the    *)
(* sessions stay accounted for, and the other ones stay as they are.        *)
LEMMA SessionOpens ==
  ASSUME TypeOK, HandlesExact, SessionsExact, NEW a \in Agents, opened < MaxSessions, opened' = opened + 1,
         NEW new \in SessionState, session' = [session EXCEPT ![opened + 1] = new],
         overlooked => overlooked', ~overlooked' => Durable(new),
         new.prompt = agent[a].prompt, agent'[a].prompt = agent[a].prompt,
         agent[a].session = None, act[a].session = None, retired[a] = None,
         \/ agent'[a].session = opened + 1 /\ act'[a].session = None
         \/ agent'[a].session = None /\ act'[a].session = opened + 1,
         retired' = retired, prompted' = prompted,
         \A b \in Agents \ {a} : agent'[b] = agent[b] /\ act'[b] = act[b]
  PROVE  /\ SessionsExact'
         /\ \A s \in 1..opened : session'[s] = session[s]
         /\ opened + 1 \in 1..MaxSessions /\ session'[opened + 1] = new
<1>1. /\ opened \in Nat /\ opened + 1 \in 1..MaxSessions /\ opened + 1 # None
      /\ \A s \in 1..opened : s \in 1..MaxSessions
  BY BoundAssumption, NotNone DEF TypeOK
<1>2. /\ session'[opened + 1] = new /\ new # None
      /\ \A s \in 1..MaxSessions : s # opened + 1 => session'[s] = session[s]
  BY <1>1, NotNone DEF TypeOK
<1>3. ~Live(opened + 1)
  BY <1>1 DEF SessionsExact
<1>4. \A b \in Agents : ~Uses(b, opened + 1)
  BY <1>1, <1>3 DEF SessionsExact
<1>5. \A s \in 1..MaxSessions : ~Uses(a, s) /\ (Uses(a, s)' <=> s = opened + 1)
  BY <1>1, NotNone DEF Uses
<1>6. \A b \in Agents \ {a} : \A s \in 1..MaxSessions : Uses(b, s)' <=> Uses(b, s)
  BY DEF Uses
<1>7. \A s \in 1..MaxSessions : Live(s)' <=> Live(s) \/ s = opened + 1
  BY <1>2 DEF Live
<1>8. \A s \in 1..MaxSessions : s > opened' => ~Live(s)'
  <2> SUFFICES ASSUME NEW s \in 1..MaxSessions, s > opened' PROVE ~Live(s)'
    OBVIOUS
  <2>1. s > opened /\ s # opened + 1
    BY <1>1
  <2> QED
    BY <1>7, <2>1 DEF SessionsExact
<1>9. \A s \in 1..MaxSessions : Live(s)' <=> \E b \in Agents : Uses(b, s)'
  <2> TAKE s \in 1..MaxSessions
  <2>1. CASE s = opened + 1
    BY <1>5, <1>7, <2>1
  <2>2. CASE s # opened + 1
    <3>1. Live(s)' <=> Live(s)
      BY <1>7, <2>2
    <3>2. Live(s) <=> \E b \in Agents : Uses(b, s)
      BY DEF SessionsExact
    <3> QED
      BY <1>5, <1>6, <2>2, <3>1, <3>2
  <2> QED
    BY <2>1, <2>2
<1>10. \A s \in 1..MaxSessions : \A b, c \in Agents : Uses(b, s)' /\ Uses(c, s)' => b = c
  <2> SUFFICES ASSUME NEW s \in 1..MaxSessions, NEW b \in Agents, NEW c \in Agents,
                      Uses(b, s)', Uses(c, s)'
               PROVE  b = c
    OBVIOUS
  <2>1. CASE b = a \/ c = a
    <3>1. s = opened + 1
      BY <1>5, <2>1
    <3> QED
      BY <1>4, <1>6, <3>1
  <2>2. CASE b # a /\ c # a
    BY <1>6, <2>2 DEF SessionsExact
  <2> QED
    BY <2>1, <2>2
<1>11. ASSUME NEW b \in Agents
       PROVE  /\ retired'[b] # None => prompted' > 0 /\ agent'[b].session = None
              /\ agent'[b].session # None /\ act'[b].session # None => agent'[b].session = act'[b].session
              /\ agent'[b].session # None => session'[agent'[b].session].prompt = agent'[b].prompt
              /\ act'[b].session # None => session'[act'[b].session].prompt = agent'[b].prompt
  <2>1. CASE b = a
    BY <1>2, <2>1
  <2>2. CASE b # a
    <3>1. agent[b].session \in (1..MaxSessions) \cup {None} /\ act[b].session \in (1..MaxSessions) \cup {None}
      BY DEF TypeOK, AgentState, Activation
    <3>2. agent[b].session # opened + 1 /\ act[b].session # opened + 1
      BY <1>4 DEF Uses
    <3>3. /\ agent[b].session # None => session'[agent[b].session] = session[agent[b].session]
          /\ act[b].session # None => session'[act[b].session] = session[act[b].session]
      BY <1>2, <3>1, <3>2
    <3> QED
      BY <2>2, <3>3 DEF SessionsExact
  <2> QED
    BY <2>1, <2>2
<1>12. ~overlooked' => \A s \in 1..MaxSessions : Live(s)' => Durable(session'[s])
  BY <1>2, <1>7 DEF SessionsExact
<1>13. \A s \in 1..opened : session'[s] = session[s]
  BY <1>1, <1>2
<1> QED
  BY <1>1, <1>2, <1>8, <1>9, <1>10, <1>11, <1>12, <1>13 DEF SessionsExact

(* An agent whose new session is what the checkpoint says keeps the         *)
(* invariant.                                                               *)
LEMMA RestoresKeeps ==
  ASSUME Kept, NEW a \in Agents, NEW leaf \in Nat, NeedsSession(a),
         NEW entries \in Seq(Entries), overlooked' \in BOOLEAN, overlooked => overlooked',
         ~overlooked' => entries = Checkpoint(a).records,
         Opens(agent[a].prompt, entries, entries), Restores(a, leaf)
  PROVE  Kept'
<1> SUFFICES ASSUME NEW m, m = Mem(a) PROVE Kept'
  OBVIOUS
<1>1. /\ TypeOK /\ HandlesExact /\ SessionsExact
      /\ \A n \in Memories : CheckpointExact(n) /\ RestExact(n) /\ FileExact(n)
      /\ \A b \in Agents : AgentExact(b) /\ WorkExact(b)
  BY DEF Kept
<1>2. act[a].at = "input" /\ Busy(a) /\ agent[a].session = None /\ Checkpoint(a) # None
  BY DEF NeedsSession, Busy
<1>3. /\ Exists(a) /\ retired[a] = None /\ Said(a) # <<>> /\ Last(Said(a)) = <<"in", act[a].op>>
      /\ act[a].session = None
  BY <1>1, <1>2 DEF HandlesExact
<1>4. /\ m \in Memories /\ memory[m] # None /\ agent[a] \in AgentState /\ act[a] \in Activation
      /\ \A b \in Agents : Mem(b) = m => b = a
  BY <1>1, <1>3, HandleTypes DEF HandlesExact, Exists, Mem
<1>5. Checkpoint(a).revision \in Nat
  BY <1>1, <1>2, <1>4, MemoryTypes DEF Checkpoint
<1> DEFINE revision == Checkpoint(a).revision
           new == [prompt |-> agent[a].prompt, entries |-> entries, durable |-> entries,
                   synced |-> Len(entries)]
<1>6. /\ opened < MaxSessions /\ opened' = opened + 1 /\ session' = [session EXCEPT ![opened + 1] = new]
      /\ agent' = [agent EXCEPT ![a] = [@ EXCEPT !.session = opened + 1, !.leaf = leaf, !.revision = revision]]
      /\ act' = [act EXCEPT ![a] = [@ EXCEPT !.at = "restored"]]
      /\ UNCHANGED <<memory, retired, failing, slot, refused, number, prompted, crashes>>
  BY DEF Opens, Restores, Goes, bounds
<1>7. agent[a].prompt \in Prompts \cup {None}
  BY <1>4 DEF AgentState
<1>8. new \in SessionState /\ new.prompt = agent[a].prompt /\ new.entries = entries /\ new.durable = entries
      /\ new.synced = Len(entries)
  BY <1>5, <1>7, LenProperties DEF SessionState
<1> HIDE DEF new, revision
<1>9. opened + 1 \in 1..MaxSessions
  BY <1>1, <1>6, BoundAssumption DEF TypeOK
<1>10. /\ agent'[a] \in AgentState /\ agent'[a].session = opened + 1 /\ agent'[a].revision = revision
       /\ agent'[a].memory = m /\ agent'[a].prompt = agent[a].prompt
       /\ \A b \in Agents \ {a} : agent'[b] = agent[b]
  <2>1. agent'[a] = [agent[a] EXCEPT !.session = opened + 1, !.leaf = leaf, !.revision = revision]
    BY <1>1, <1>6 DEF TypeOK
  <2>2. revision \in Nat
    BY <1>5 DEF revision
  <2>3. \A b \in Agents \ {a} : agent'[b] = agent[b]
    BY <1>1, <1>6 DEF TypeOK
  <2> QED
    BY <1>4, <1>9, <2>1, <2>2, <2>3 DEF AgentState, Mem
<1>11. /\ act'[a].at = "restored" /\ act'[a].op = act[a].op /\ act'[a].resuming = act[a].resuming
       /\ act'[a].session = act[a].session /\ act'[a].turn = act[a].turn /\ act'[a] \in Activation
       /\ \A b \in Agents \ {a} : act'[b] = act[b]
  <2>1. act'[a] = [act[a] EXCEPT !.at = "restored"] /\ \A b \in Agents \ {a} : act'[b] = act[b]
    BY <1>1, <1>6 DEF TypeOK
  <2> QED
    BY <1>4, <2>1 DEF Activation
<1>12. TypeOK'
  <2>1. agent' \in [Agents -> AgentState] /\ act' \in [Agents -> Activation]
    BY <1>1, <1>6, <1>10, <1>11 DEF TypeOK
  <2>2. session' \in [1..MaxSessions -> SessionState \cup {None}]
    BY <1>1, <1>6, <1>8 DEF TypeOK
  <2>3. opened' \in 0..MaxSessions
    BY <1>1, <1>6, BoundAssumption DEF TypeOK
  <2> QED
    BY <1>1, <1>6, <2>1, <2>2, <2>3 DEF TypeOK
<1>13. /\ SessionsExact'
       /\ \A s \in 1..opened : session'[s] = session[s]
       /\ session'[opened + 1] = new
  <2>1. Durable(new) /\ new.prompt = agent[a].prompt
    BY <1>8, DurableAll
  <2>2. agent'[a].session = opened + 1 /\ act'[a].session = None /\ agent'[a].prompt = agent[a].prompt
    BY <1>3, <1>10, <1>11
  <2>3. /\ opened < MaxSessions /\ opened' = opened + 1 /\ session' = [session EXCEPT ![opened + 1] = new]
        /\ retired' = retired /\ prompted' = prompted
    BY <1>6
  <2>4. \A b \in Agents \ {a} : agent'[b] = agent[b] /\ act'[b] = act[b]
    BY <1>10, <1>11
  <2>5. new \in SessionState
    BY <1>8
  <2> QED
    BY <1>1, <1>2, <1>3, <2>1, <2>2, <2>3, <2>4, <2>5, SessionOpens
<1>14. /\ HandlesExact'
       /\ \A n \in Memories \ {m} : CheckpointExact(n)' /\ RestExact(n)' /\ FileExact(n)'
       /\ \A b \in Agents \ {a} : AgentExact(b)' /\ WorkExact(b)'
  <2>1. m = Main /\ memory'[m].checkpoint # None => slot'[m] # None
    BY <1>1, <1>6 DEF HandlesExact
  <2>2. opened <= opened' /\ (overlooked => overlooked')
    BY <1>1, <1>6 DEF TypeOK
  <2>3. memory'[m].messages # <<>> /\ Last(memory'[m].messages) = <<"in", act'[a].op>>
    BY <1>3, <1>6, <1>11 DEF Said
  <2>4. /\ act'[a].session # None <=> act'[a].at = "prompting"
        /\ act'[a].turn = "none" <=> act'[a].at # "prompting"
    BY <1>1, <1>2, <1>11 DEF HandlesExact
  <2>5. \A s \in 1..opened : Live(s) \/ Live(s)' => GoesOn(s) /\ Live(s)
    BY <1>13 DEF GoesOn, Live
  <2> QED
    BY <1>3, <1>4, <1>6, <1>10, <1>11, <1>12, <1>13, <2>1, <2>2, <2>3, <2>4, <2>5, LocalStep
<1>15. CheckpointExact(m)'
  <2>1. opened <= opened' /\ (overlooked => overlooked')
    BY <1>1, <1>6 DEF TypeOK
  <2>2. \A s \in 1..opened : Live(s) \/ Live(s)' => GoesOn(s) /\ Live(s)
    BY <1>13 DEF GoesOn, Live
  <2> QED
    BY <1>1, <1>4, <1>6, <1>12, <2>1, <2>2, CheckpointFrame
<1>16. RestExact(m)' /\ FileExact(m)'
  <2>1. RestExact(m)'
    BY <1>10, <1>11 DEF RestExact, Busy, Mem
  <2>2. \A b \in Agents : Mem(b)' = Mem(b)
    BY <1>10 DEF Mem
  <2>3. FileExact(m)'
    BY <1>1, <1>2, <1>4, <1>6, <1>11, <2>2 DEF FileExact
  <2> QED
    BY <2>1, <2>3
<1>17. AgentExact(a)' /\ WorkExact(a)'
  <2>1. Mem(a)' = m /\ Checkpoint(a)' = Checkpoint(a) /\ Said(a)' = Said(a)
    BY <1>6, <1>10 DEF Mem, Checkpoint, Said
  <2>2. /\ ~overlooked' => session'[opened + 1].durable = Checkpoint(a).records
        /\ agent'[a].revision = Checkpoint(a).revision
    BY <1>8, <1>10, <1>13 DEF revision
  <2>3. opened + 1 # None
    BY <1>1, NotNone DEF TypeOK
  <2>4. act'[a].turn = "none"
    BY <1>1, <1>2, <1>11 DEF HandlesExact
  <2> QED
    BY <1>1, <1>2, <1>10, <1>11, <2>1, <2>2, <2>3, <2>4 DEF AgentExact, WorkExact, Busy
<1> QED
  BY <1>6, <1>12, <1>13, <1>14, <1>15, <1>16, <1>17 DEF Kept

(* A fork of the live session at its checkpoint is the same as an import of *)
(* what was exported, when that is all of it, and keeps the invariant.      *)
LEMMA ForkLiveKeeps ==
  ASSUME Kept, NEW a \in Agents, ForkLive(a)
  PROVE  Kept'
<1> DEFINE source == session[Checkpoint(a).session]
           entries == SubSeq(source.entries, 1, Checkpoint(a).leaf)
<1>1. /\ NeedsSession(a) /\ Checkpoint(a).session # None /\ Checkpoint(a).prompt = agent[a].prompt
      /\ source # None /\ Opens(source.prompt, entries, entries) /\ Restores(a, Len(entries))
      /\ overlooked' = (overlooked \/ Len(entries) # Len(Checkpoint(a).records))
  BY DEF ForkLive, canForkLive
<1>2. TypeOK /\ HandlesExact /\ \A n \in Memories : CheckpointExact(n)
  BY DEF Kept
<1>3. Exists(a) /\ Checkpoint(a) # None
  BY <1>1, <1>2 DEF NeedsSession, HandlesExact, Busy
<1>4. /\ Mem(a) \in Memories /\ memory[Mem(a)] # None /\ memory[Mem(a)].checkpoint = Checkpoint(a)
  BY <1>2, <1>3, HandleTypes DEF HandlesExact, Checkpoint
<1>5. /\ source.prompt = agent[a].prompt /\ Checkpoint(a).leaf <= Len(source.entries)
      /\ ~overlooked => IsPrefix(Checkpoint(a).records, source.entries)
  BY <1>1, <1>2, <1>3, <1>4 DEF CheckpointExact, Live
<1>6. /\ Checkpoint(a) \in CheckpointState /\ Checkpoint(a).leaf \in Nat
      /\ Checkpoint(a).records \in Seq(Entries)
  BY <1>2, <1>3, <1>4, MemoryTypes
<1>7. source.entries \in Seq(Entries)
  <2>1. Checkpoint(a).session \in 1..MaxSessions
    BY <1>1, <1>6 DEF CheckpointState
  <2> QED
    BY <1>1, <1>2, <2>1, SessionTypes DEF Live
<1>8. entries \in Seq(Entries) /\ Len(entries) \in Nat /\ Len(entries) = Checkpoint(a).leaf
  <2> DEFINE leaf == Checkpoint(a).leaf
             whole == source.entries
  <2>1. leaf \in Nat /\ whole \in Seq(Entries) /\ leaf <= Len(whole)
    BY <1>5, <1>6, <1>7
  <2> HIDE DEF leaf, whole
  <2>2. SubSeq(whole, 1, leaf) \in Seq(Entries) /\ Len(SubSeq(whole, 1, leaf)) = leaf
    BY <2>1, Part
  <2> QED
    BY <2>1, <2>2 DEF leaf, whole
<1>9. ~overlooked' => entries = Checkpoint(a).records
  <2> SUFFICES ASSUME ~overlooked' PROVE entries = Checkpoint(a).records
    OBVIOUS
  <2> DEFINE p == Checkpoint(a).records
             whole == source.entries
  <2>1. Len(entries) = Len(p) /\ Checkpoint(a).leaf = Len(p) /\ IsPrefix(p, whole)
    BY <1>1, <1>5, <1>8
  <2>2. entries = SubSeq(whole, 1, Len(p))
    BY <2>1
  <2>3. p \in Seq(Entries) /\ whole \in Seq(Entries)
    BY <1>6, <1>7
  <2> HIDE DEF entries, p, whole
  <2>4. Len(p) \in Nat /\ SubSeq(whole, 1, Len(p)) = SubSeq(p, 1, Len(p))
    BY <2>1, <2>3, PrefixPart, LenProperties
  <2>5. SubSeq(p, 1, Len(p)) = p
    BY <2>3, SubSeqFull
  <2> QED
    BY <2>2, <2>4, <2>5 DEF p
<1>10. overlooked' \in BOOLEAN /\ (overlooked => overlooked')
  BY <1>1, <1>2 DEF TypeOK
<1> HIDE DEF entries
<1> QED
  BY <1>1, <1>5, <1>8, <1>9, <1>10, RestoresKeeps

(* importAgentSession keeps the invariant.                                  *)
LEMMA ImportSessionKeeps ==
  ASSUME Kept, NEW a \in Agents, ImportSession(a)
  PROVE  Kept'
<1>1. /\ NeedsSession(a) /\ Opens(agent[a].prompt, Checkpoint(a).records, Checkpoint(a).records)
      /\ Restores(a, Len(Checkpoint(a).records)) /\ overlooked' = overlooked
  BY DEF ImportSession, importSession
<1>2. TypeOK /\ HandlesExact
  BY DEF Kept
<1>3. Exists(a) /\ Checkpoint(a) # None
  BY <1>1, <1>2 DEF NeedsSession, HandlesExact, Busy
<1>4. Mem(a) \in Memories /\ memory[Mem(a)] # None /\ memory[Mem(a)].checkpoint = Checkpoint(a)
  BY <1>2, <1>3, HandleTypes DEF HandlesExact, Checkpoint
<1>5. Checkpoint(a).records \in Seq(Entries) /\ overlooked' \in BOOLEAN
  BY <1>1, <1>2, <1>3, <1>4, MemoryTypes DEF TypeOK
<1> QED
  BY <1>1, <1>5, LenProperties, RestoresKeeps

(* A checkpoint whose session is closed fails the activation: only after a  *)
(* system prompt has been set, or in a run that fails anyway.               *)
LEMMA ForkMissingKeeps ==
  ASSUME Kept, NEW a \in Agents, ForkMissing(a)
  PROVE  Kept'
<1> DEFINE why == IF failing THEN {} ELSE {"session"}
<1>1. /\ act[a].at = "input" /\ Checkpoint(a) # None /\ Checkpoint(a).session # None
      /\ session[Checkpoint(a).session] = None /\ Fails(a, why)
  BY DEF ForkMissing, NeedsSession, canForkLive
<1>2. TypeOK /\ HandlesExact /\ \A n \in Memories : CheckpointExact(n)
  BY DEF Kept
<1>3. Busy(a) /\ Exists(a)
  BY <1>1, <1>2 DEF HandlesExact, Busy
<1>4. Mem(a) \in Memories /\ memory[Mem(a)] # None /\ memory[Mem(a)].checkpoint = Checkpoint(a)
  BY <1>2, <1>3, HandleTypes DEF HandlesExact, Checkpoint
<1>5. ~failing => prompted > 0
  BY <1>1, <1>2, <1>4 DEF CheckpointExact, Live, TypeOK
<1>6. why \in SUBSET {"session", "delta"} /\ ("session" \in why => prompted > 0) /\ "delta" \notin why
  BY <1>5
<1> QED
  BY <1>1, <1>3, <1>6, FailsKeeps

(* Anything else that goes wrong keeps the invariant.                       *)
LEMMA ActivationFailsKeeps ==
  ASSUME Kept, NEW a \in Agents, ActivationFails(a)
  PROVE  Kept'
<1>1. Busy(a) /\ Fails(a, {})
  BY DEF ActivationFails, Busy
<1>2. {} \in SUBSET {"session", "delta"} /\ "session" \notin {} /\ "delta" \notin {}
  OBVIOUS
<1> QED
  BY <1>1, <1>2, FailsKeeps

(* A change of tools is part of a session.                                  *)
LEMMA ToolTypes ==
  ASSUME NEW a, act[a] \in Activation
  PROVE  ToolEntry(act[a].op) \in Seq(Changes) /\ ToolEntry(act[a].op) \in Seq(Entries)
<1>1. <<"tools", act[a].op>> \in Changes /\ Changes \subseteq Entries
  BY DEF Activation, Changes, Entries
<1>2. <<<<"tools", act[a].op>>>> \in Seq(Changes) /\ <<>> \in Seq(Changes)
  BY <1>1
<1> QED
  BY <1>1, <1>2, SeqMonotonic DEF ToolEntry

(* execute() with no session keeps the invariant: the new session has the   *)
(* entries of the file.                                                     *)
LEMMA ExecuteNewKeeps ==
  ASSUME Kept, NEW a \in Agents, ExecuteNew(a)
  PROVE  Kept'
<1> SUFFICES ASSUME NEW m, m = Mem(a) PROVE Kept'
  OBVIOUS
<1>1. /\ TypeOK /\ HandlesExact /\ SessionsExact
      /\ \A n \in Memories : CheckpointExact(n) /\ RestExact(n) /\ FileExact(n)
      /\ \A b \in Agents : AgentExact(b) /\ WorkExact(b)
  BY DEF Kept
<1>2. act[a].at = "begun" /\ Busy(a) /\ agent[a].session = None
  BY DEF ExecuteNew, Busy
<1>3. /\ Exists(a) /\ retired[a] = None /\ Said(a) # <<>> /\ Last(Said(a)) = <<"in", act[a].op>>
      /\ act[a].session = None
  BY <1>1, <1>2 DEF HandlesExact
<1>4. /\ m \in Memories /\ memory[m] # None /\ agent[a] \in AgentState /\ act[a] \in Activation
      /\ \A b \in Agents : Mem(b) = m => b = a
  BY <1>1, <1>3, HandleTypes DEF HandlesExact, Exists, Mem
<1>5. Checkpoint(a) = None /\ agent[a].revision = 0 /\ ~act[a].resuming
  BY <1>1, <1>2 DEF AgentExact
<1>6. /\ persistedRecords(m) = <<>> /\ persistedRevision(m) = 0
      /\ Target(a) = Len(Said(a)) - 1 /\ Unsynchronized(a) = SubSeq(Said(a), 1, Len(Said(a)) - 1)
  BY <1>5 DEF persistedRecords, persistedRevision, Target, Unsynchronized, Checkpoint
<1>7. Said(a) \in Seq(Messages) /\ Len(Said(a)) \in Nat \ {0} /\ Unsynchronized(a) \in Seq(Entries)
  BY <1>2, Continuation
<1> DEFINE imports == Imports(a)
<1>8. imports = Unsynchronized(a)
  <2>1. Missing(a) = SubSeq(Said(a), 0 + 1, Len(Said(a)))
    BY <1>5 DEF Missing
  <2>2. Front(SubSeq(Said(a), 0 + 1, Len(Said(a)))) = SubSeq(Said(a), 0 + 1, Len(Said(a)) - 1)
    BY <1>7, FrontOfPart
  <2>3. imports = Front(Missing(a))
    BY <1>5 DEF Imports, resumeNativeSession
  <2> QED
    BY <1>6, <2>1, <2>2, <2>3
<1>9. slot[m] # None /\ slot[m].messages = Said(a) /\ slot[m].records = imports
  <2>1. slot[m] # None /\ slot[m].messages = Said(a) /\ slot[m].records = <<>> \o Unsynchronized(a)
    BY <1>1, <1>2, <1>6 DEF WorkExact
  <2> QED
    BY <1>7, <1>8, <2>1, ConcatEmptySeq
<1> DEFINE tools == ToolEntry(act[a].op)
           new == [prompt |-> agent[a].prompt, entries |-> imports \o tools, durable |-> imports,
                   synced |-> Len(imports)]
<1>10. /\ opened < MaxSessions /\ opened' = opened + 1 /\ session' = [session EXCEPT ![opened + 1] = new]
       /\ act' = [act EXCEPT ![a] = [@ EXCEPT !.at = "prompting", !.session = opened + 1, !.turn = "prompt"]]
       /\ UNCHANGED <<agent, memory, retired, failing, overlooked, slot, refused, number, prompted, crashes>>
  BY DEF ExecuteNew, Opens, bounds
<1>11. /\ new \in SessionState /\ new.prompt = agent[a].prompt
       /\ new.durable = imports /\ Durable(new)
  <2>1. agent[a].prompt \in Prompts \cup {None}
    BY <1>4 DEF AgentState
  <2>2. imports \in Seq(Entries) /\ Len(imports) \in Nat
    BY <1>7, <1>8, LenProperties
  <2>3. tools \in Seq(Changes) /\ tools \in Seq(Entries)
    BY <1>4, ToolTypes
  <2> HIDE DEF imports, tools
  <2>4. imports \o tools \in Seq(Entries)
    BY <2>2, <2>3, ConcatProperties
  <2> QED
    BY <2>1, <2>2, <2>3, <2>4 DEF SessionState, Durable
<1> HIDE DEF new, imports, tools
<1>12. opened + 1 \in 1..MaxSessions /\ opened + 1 # None
  BY <1>1, <1>10, BoundAssumption, NotNone DEF TypeOK
<1>13. /\ act'[a].at = "prompting" /\ act'[a].op = act[a].op /\ act'[a].resuming = act[a].resuming
       /\ act'[a].session = opened + 1 /\ act'[a].turn = "prompt" /\ act'[a] \in Activation
       /\ \A b \in Agents \ {a} : act'[b] = act[b]
  <2>1. /\ act'[a] = [act[a] EXCEPT !.at = "prompting", !.session = opened + 1, !.turn = "prompt"]
        /\ \A b \in Agents \ {a} : act'[b] = act[b]
    BY <1>1, <1>10 DEF TypeOK
  <2> QED
    BY <1>4, <1>12, <2>1 DEF Activation
<1>14. TypeOK'
  <2>1. act' \in [Agents -> Activation]
    BY <1>1, <1>10, <1>13 DEF TypeOK
  <2>2. session' \in [1..MaxSessions -> SessionState \cup {None}]
    BY <1>1, <1>10, <1>11 DEF TypeOK
  <2>3. opened' \in 0..MaxSessions
    BY <1>1, <1>10, BoundAssumption DEF TypeOK
  <2> QED
    BY <1>1, <1>10, <2>1, <2>2, <2>3 DEF TypeOK
<1>15. /\ SessionsExact'
       /\ \A s \in 1..opened : session'[s] = session[s]
       /\ session'[opened + 1] = new
  BY <1>1, <1>2, <1>3, <1>10, <1>11, <1>13, SessionOpens
<1>16. /\ opened <= opened' /\ (overlooked => overlooked')
       /\ \A s \in 1..opened : Live(s) \/ Live(s)' => GoesOn(s) /\ Live(s)
  BY <1>1, <1>10, <1>15 DEF GoesOn, Live, TypeOK
<1>17. /\ HandlesExact'
       /\ \A n \in Memories \ {m} : CheckpointExact(n)' /\ RestExact(n)' /\ FileExact(n)'
       /\ \A b \in Agents \ {a} : AgentExact(b)' /\ WorkExact(b)'
  <2>1. m = Main /\ memory'[m].checkpoint # None => slot'[m] # None
    BY <1>1, <1>10 DEF HandlesExact
  <2>2. memory'[m].messages # <<>> /\ Last(memory'[m].messages) = <<"in", act'[a].op>>
    BY <1>3, <1>10, <1>13 DEF Said
  <2>3. /\ act'[a].session # None <=> act'[a].at = "prompting"
        /\ act'[a].turn = "none" <=> act'[a].at # "prompting"
    BY <1>12, <1>13
  <2>4. agent'[a].memory = m /\ memory'[m] # None
    BY <1>4, <1>10 DEF Mem
  <2> QED
    BY <1>3, <1>4, <1>10, <1>13, <1>14, <1>15, <1>16, <2>1, <2>2, <2>3, <2>4, LocalStep
<1>18. CheckpointExact(m)'
  BY <1>1, <1>4, <1>10, <1>14, <1>16, CheckpointFrame
<1>19. RestExact(m)' /\ FileExact(m)'
  <2>1. RestExact(m)'
    BY <1>10, <1>13 DEF RestExact, Busy, Mem
  <2>2. Mem(a)' = m
    BY <1>10 DEF Mem
  <2>3. FileExact(m)'
    BY <1>1, <1>4, <1>10, <1>13, <2>2 DEF FileExact
  <2> QED
    BY <2>1, <2>3
<1>20. AgentExact(a)' /\ WorkExact(a)'
  <2>1. Mem(a)' = m /\ Checkpoint(a)' = Checkpoint(a) /\ Said(a)' = Said(a)
    BY <1>10 DEF Mem, Checkpoint, Said
  <2>2. AgentExact(a)'
    BY <1>1, <1>2, <1>5, <1>10, <1>13, <2>1 DEF AgentExact, Busy
  <2>3. WorkExact(a)'
    <3>1. Given(a)' = <<>>
      BY <1>13 DEF Given
    <3>2. Said(a) \o <<>> = Said(a)
      BY <1>7, ConcatEmptySeq
    <3> QED
      BY <1>9, <1>10, <1>11, <1>13, <1>15, <2>1, <3>1, <3>2 DEF WorkExact
  <2> QED
    BY <2>2, <2>3
<1> QED
  BY <1>10, <1>14, <1>15, <1>17, <1>18, <1>19, <1>20 DEF Kept

-----------------------------------------------------------------------------
(* A session that records all that comes after what it has recorded, or has *)
(* recorded everything, has a durable beginning when it has been taught.     *)
LEMMA TaughtDurable ==
  ASSUME NEW s \in SessionState, Durable(s), NEW messages \in Seq(Entries), NEW op,
         ToolEntry(op) \in Seq(Changes), messages = <<>> \/ Unrecorded(s) = <<>>
  PROVE  Durable(Taught(s, messages, op))
<1> DEFINE tools == ToolEntry(op)
           d == s.durable
           n == s.synced
           new == Taught(s, messages, op)
<1>1. PICK tail \in Seq(Changes) : s.entries = d \o tail /\ n = Len(d)
  BY DEF Durable
<1>2. Changes \subseteq Entries
  BY DEF Changes, Entries
<1>3. d \in Seq(Entries) /\ tail \in Seq(Entries) /\ tools \in Seq(Entries) /\ tools \in Seq(Changes)
  BY <1>1, <1>2, SeqMonotonic DEF SessionState
<1>4. Unrecorded(s) = tail
  <2>1. SubSeq(d \o tail, Len(d) + 1, Len(d \o tail)) = tail
    BY <1>3, Rest
  <2> QED
    BY <1>1, <2>1 DEF Unrecorded
<1>5. /\ new.entries = ((d \o tail) \o messages) \o tools
      /\ new.durable = d \o messages /\ new.synced = n + Len(messages)
  BY <1>1 DEF Taught, SessionState
<1> HIDE DEF tools, d, n, new
<1>6. /\ Len(d) \in Nat /\ Len(messages) \in Nat
      /\ d \o messages \in Seq(Entries) /\ Len(d \o messages) = Len(d) + Len(messages)
  BY <1>3, LenProperties, ConcatProperties
<1>7. CASE messages = <<>>
  <2>1. (d \o tail) \o messages = d \o tail /\ d \o messages = d
    BY <1>3, <1>7, ConcatEmptySeq, ConcatProperties
  <2>2. (d \o tail) \o tools = d \o (tail \o tools)
    <3>1. d \in Seq(Entries) /\ tail \in Seq(Entries) /\ tools \in Seq(Entries)
      BY <1>3
    <3> QED
      BY <3>1, ConcatAssociative
  <2>3. tail \o tools \in Seq(Changes)
    BY <1>1, <1>3, ConcatProperties
  <2>4. new.entries = d \o (tail \o tools) /\ new.durable = d /\ new.synced = Len(d)
    BY <1>1, <1>5, <1>6, <2>1, <2>2
  <2> QED
    BY <2>3, <2>4 DEF Durable, new
<1>8. CASE tail = <<>>
  <2>1. d \o tail = d
    BY <1>3, <1>8, ConcatEmptySeq
  <2>2. new.entries = (d \o messages) \o tools /\ new.synced = Len(d \o messages)
    BY <1>1, <1>5, <1>6, <2>1
  <2> QED
    BY <1>3, <1>5, <2>2 DEF Durable, new
<1> QED
  BY <1>4, <1>7, <1>8

(* An agent's session gets more entries, and what is durable is the          *)
(* beginning of them still: the sessions stay accounted for, and what        *)
(* checkpoints refer to goes on.                                             *)
LEMMA SessionGrows ==
  ASSUME TypeOK, TypeOK', HandlesExact, SessionsExact, NEW a \in Agents, NEW n \in 1..MaxSessions, Uses(a, n),
         NEW more \in Seq(Entries), Live(n)', session'[n].prompt = session[n].prompt,
         session'[n].entries = session[n].entries \o more,
         overlooked => overlooked', ~overlooked' => Durable(session'[n]),
         \A s \in 1..MaxSessions : s # n => session'[s] = session[s],
         agent' = agent, retired' = retired, opened' = opened, prompted' = prompted,
         act'[a].session = n, act[a].session = None => agent[a].session = n, retired[a] = None,
         act[a].session = None \/ act[a].session = n,
         \A b \in Agents \ {a} : act'[b] = act[b]
  PROVE  /\ SessionsExact'
         /\ \A s \in 1..opened : Live(s) \/ Live(s)' => GoesOn(s) /\ Live(s)
         /\ \A s \in 1..opened : Uses(a, s) \/ session'[s] = session[s]
<1>1. \A s \in 1..MaxSessions : Live(s)' <=> Live(s)
  <2>1. Live(n)
    BY DEF SessionsExact
  <2> QED
    BY <2>1 DEF Live
<1>2. \A s \in 1..opened : s \in 1..MaxSessions
  BY BoundAssumption DEF TypeOK
<1>3. agent[a].session = None \/ agent[a].session = n
  BY DEF SessionsExact
<1>4. \A b \in Agents : \A s \in 1..MaxSessions : Uses(b, s)' <=> Uses(b, s)
  <2> TAKE b \in Agents
  <2> TAKE s \in 1..MaxSessions
  <2>1. CASE b = a
    <3>1. s # None
      BY NotNone
    <3> QED
      BY <1>3, <2>1, <3>1 DEF Uses
  <2>2. CASE b # a
    BY <2>2 DEF Uses
  <2> QED
    BY <2>1, <2>2
<1>5. session'[n].prompt = agent[a].prompt
  <2>1. n # None
    BY NotNone
  <2> QED
    BY <2>1 DEF SessionsExact
<1>6. ASSUME NEW b \in Agents
      PROVE  /\ retired'[b] # None => prompted' > 0 /\ agent'[b].session = None
             /\ agent'[b].session # None /\ act'[b].session # None => agent'[b].session = act'[b].session
             /\ agent'[b].session # None => session'[agent'[b].session].prompt = agent'[b].prompt
             /\ act'[b].session # None => session'[act'[b].session].prompt = agent'[b].prompt
  <2>1. CASE b = a
    BY <1>3, <1>5, <2>1
  <2>2. CASE b # a
    <3>1. agent[b].session \in (1..MaxSessions) \cup {None} /\ act[b].session \in (1..MaxSessions) \cup {None}
      BY DEF TypeOK, AgentState, Activation
    <3>2. agent[b].session # n /\ act[b].session # n
      BY <2>2 DEF SessionsExact, Uses
    <3> QED
      BY <2>2, <3>1, <3>2 DEF SessionsExact
  <2> QED
    BY <2>1, <2>2
<1>7. ~overlooked' => \A s \in 1..MaxSessions : Live(s)' => Durable(session'[s])
  <2> SUFFICES ASSUME ~overlooked', NEW s \in 1..MaxSessions, Live(s)'
               PROVE  Durable(session'[s])
    OBVIOUS
  <2>1. CASE s = n
    BY <2>1
  <2>2. CASE s # n
    BY <1>1, <2>2 DEF SessionsExact
  <2> QED
    BY <2>1, <2>2
<1>8. SessionsExact'
  BY <1>1, <1>4, <1>6, <1>7 DEF SessionsExact
<1>9. \A s \in 1..opened : Live(s) \/ Live(s)' => GoesOn(s) /\ Live(s)
  <2> SUFFICES ASSUME NEW s \in 1..opened, Live(s) PROVE GoesOn(s)
    BY <1>1, <1>2
  <2>1. CASE s = n
    <3>1. session[s].entries \in Seq(Entries)
      BY <1>2, SessionTypes
    <3>2. IsPrefix(session[s].entries, session[s].entries \o more)
      BY <3>1, PrefixOfItself
    <3> QED
      BY <2>1, <3>2 DEF GoesOn
  <2>2. CASE s # n
    BY <1>2, <2>2 DEF GoesOn
  <2> QED
    BY <2>1, <2>2
<1>10. \A s \in 1..opened : Uses(a, s) \/ session'[s] = session[s]
  BY <1>2
<1> QED
  BY <1>8, <1>9, <1>10

(* execute() with the agent's session keeps the invariant: it suits, and    *)
(* learns what the file already has.                                        *)
LEMMA ExecuteSessionKeeps ==
  ASSUME Kept, NEW a \in Agents, ExecuteSession(a)
  PROVE  Kept'
<1> SUFFICES ASSUME NEW m, m = Mem(a), NEW n, n = agent[a].session PROVE Kept'
  OBVIOUS
<1>1. /\ TypeOK /\ HandlesExact /\ SessionsExact
      /\ \A k \in Memories : CheckpointExact(k) /\ RestExact(k) /\ FileExact(k)
      /\ \A b \in Agents : AgentExact(b) /\ WorkExact(b)
  BY DEF Kept
<1>2. act[a].at = "begun" /\ Busy(a) /\ n # None
  BY DEF ExecuteSession, Busy
<1>3. /\ Exists(a) /\ retired[a] = None /\ Said(a) # <<>> /\ Last(Said(a)) = <<"in", act[a].op>>
      /\ act[a].session = None
  BY <1>1, <1>2 DEF HandlesExact
<1>4. /\ m \in Memories /\ memory[m] # None /\ agent[a] \in AgentState /\ act[a] \in Activation
      /\ \A b \in Agents : Mem(b) = m => b = a
  BY <1>1, <1>3, HandleTypes DEF HandlesExact, Exists, Mem
<1>5. n \in 1..MaxSessions /\ Uses(a, n) /\ Live(n)
  <2>1. n \in 1..MaxSessions
    BY <1>2, <1>4 DEF AgentState
  <2> QED
    BY <1>1, <2>1 DEF SessionsExact, Uses
<1>6. session[n] \in SessionState /\ session[n].entries \in Seq(Entries) /\ Len(session[n].entries) \in Nat
  BY <1>1, <1>5, SessionTypes
<1>7. ~overlooked => Durable(session[n])
  BY <1>1, <1>5 DEF SessionsExact
<1>8. /\ Checkpoint(a) # None /\ agent[a].revision = Checkpoint(a).revision
      /\ ~overlooked => session[n].durable = Checkpoint(a).records
      /\ ~act[a].resuming => Checkpoint(a).revision < Len(Said(a))
      /\ act[a].resuming => Checkpoint(a).revision = Len(Said(a))
  BY <1>1, <1>2 DEF AgentExact
<1>9. /\ persistedRecords(m) = Checkpoint(a).records /\ persistedRevision(m) = Checkpoint(a).revision
  BY <1>8 DEF persistedRecords, persistedRevision, Checkpoint
<1>10. /\ Said(a) \in Seq(Messages) /\ Len(Said(a)) \in Nat \ {0} /\ Unsynchronized(a) \in Seq(Entries)
       /\ persistedRevision(m) \in Nat
  BY <1>2, Continuation
<1> DEFINE imports == Imports(a)
<1>11. Suits(a) /\ imports = Unsynchronized(a)
  <2>1. session[n] # None /\ session[n].prompt = agent[a].prompt
    BY <1>1, <1>2, <1>5 DEF SessionsExact, Live
  <2>2. CASE act[a].resuming
    <3>1. Missing(a) = <<>>
      BY <1>8, <1>9, <1>10, <2>2, SubSeqEmpty DEF Missing
    <3>2. resumeNativeSession(a)
      BY <1>2, <2>2, <3>1 DEF resumeNativeSession
    <3>3. Unsynchronized(a) = <<>>
      BY <1>8, <1>9, <1>10, <2>2, SubSeqEmpty DEF Unsynchronized, Target
    <3> QED
      BY <2>1, <3>2, <3>3 DEF Suits, Imports
  <2>3. CASE ~act[a].resuming
    <3> DEFINE r == persistedRevision(m)
    <3>1. Missing(a) = SubSeq(Said(a), r + 1, Len(Said(a)))
      BY <1>8, <1>9 DEF Missing
    <3>2. r \in Nat /\ r < Len(Said(a))
      BY <1>8, <1>9, <1>10, <2>3
    <3>3. Unsynchronized(a) = SubSeq(Said(a), r + 1, Len(Said(a)) - 1)
      BY <2>3 DEF Unsynchronized, Target
    <3> HIDE DEF r
    <3>4. /\ SubSeq(Said(a), r + 1, Len(Said(a))) # <<>>
          /\ Front(SubSeq(Said(a), r + 1, Len(Said(a)))) = SubSeq(Said(a), r + 1, Len(Said(a)) - 1)
      BY <1>10, <3>2, FrontOfPart
    <3>5. imports = Front(Missing(a))
      BY <2>3 DEF Imports, resumeNativeSession
    <3> QED
      BY <2>1, <3>1, <3>3, <3>4, <3>5 DEF Suits
  <2> QED
    BY <2>2, <2>3
<1>12. /\ slot[m] # None /\ slot[m].messages = Said(a)
       /\ ~overlooked => slot[m].records = session[n].durable \o imports
  BY <1>1, <1>2, <1>8, <1>9, <1>11 DEF WorkExact
<1> DEFINE op == act[a].op
           new == Taught(session[n], imports, op)
<1>13. /\ session' = [session EXCEPT ![n] = new]
       /\ overlooked' = (overlooked \/ (imports # <<>> /\ Unrecorded(session[n]) # <<>>))
       /\ act' = [act EXCEPT ![a] = [@ EXCEPT !.at = "prompting", !.session = n, !.turn = "prompt"]]
       /\ UNCHANGED <<agent, memory, retired, failing, opened, slot, refused, number, prompted, crashes>>
  <2>1. /\ session' = [session EXCEPT ![agent[a].session] = Taught(session[agent[a].session], Imports(a), act[a].op)]
        /\ overlooked' = (overlooked \/ (Imports(a) # <<>> /\ Unrecorded(session[agent[a].session]) # <<>>))
        /\ act' = [act EXCEPT ![a].at = "prompting", ![a].session = agent[a].session, ![a].turn = "prompt"]
        /\ UNCHANGED <<agent, memory, retired, failing, opened, slot, refused, bounds>>
    BY <1>11 DEF ExecuteSession
  <2> QED
    BY <2>1 DEF bounds
<1>14. imports \in Seq(Entries) /\ Len(imports) \in Nat
  BY <1>10, <1>11, LenProperties
<1> HIDE DEF imports
<1>15. /\ new \in SessionState /\ new.prompt = session[n].prompt
       /\ new.entries = session[n].entries \o (imports \o ToolEntry(op))
       /\ new.durable = session[n].durable \o imports /\ new # None
       /\ imports \o ToolEntry(op) \in Seq(Entries) /\ (~overlooked' => Durable(new))
  <2> DEFINE tools == ToolEntry(op)
             e == session[n].entries
             d == session[n].durable
  <2>1. tools \in Seq(Changes) /\ tools \in Seq(Entries)
    BY <1>4, ToolTypes
  <2>2. /\ new.prompt = session[n].prompt /\ new.entries = (e \o imports) \o tools
        /\ new.durable = d \o imports /\ new.synced = session[n].synced + Len(imports)
    BY <1>6 DEF SessionState, Taught
  <2>3. ~overlooked' => Durable(new)
    <3> HIDE DEF tools, op
    <3> SUFFICES ASSUME ~overlooked' PROVE Durable(new)
      OBVIOUS
    <3>1. Durable(session[n]) /\ (imports = <<>> \/ Unrecorded(session[n]) = <<>>)
      BY <1>7, <1>13
    <3> QED
      BY <1>6, <1>14, <2>1, <3>1, TaughtDurable DEF tools
  <2>4. e \in Seq(Entries) /\ d \in Seq(Entries) /\ session[n].synced \in Nat
    BY <1>6 DEF SessionState
  <2> HIDE DEF tools, e, d
  <2>5. /\ (e \o imports) \o tools = e \o (imports \o tools) /\ d \o imports \in Seq(Entries)
        /\ imports \o tools \in Seq(Entries) /\ e \o (imports \o tools) \in Seq(Entries)
    BY <1>14, <2>1, <2>4, ConcatAssociative, ConcatProperties
  <2>6. session[n].synced + Len(imports) \in Nat
    BY <1>14, <2>4
  <2>7. /\ new = [session[n] EXCEPT !.entries = (e \o imports) \o tools, !.durable = d \o imports,
                                    !.synced = session[n].synced + Len(imports)]
    BY DEF Taught, tools, e, d
  <2> HIDE DEF new
  <2>8. new \in SessionState
    BY <1>6, <2>5, <2>6, <2>7 DEF SessionState
  <2>9. new # None
    BY <2>8, NotNone
  <2> QED
    BY <2>2, <2>3, <2>5, <2>8, <2>9 DEF tools, e, d
<1> HIDE DEF new
<1>16. /\ act'[a].at = "prompting" /\ act'[a].op = act[a].op /\ act'[a].resuming = act[a].resuming
       /\ act'[a].session = n /\ act'[a].turn = "prompt" /\ act'[a] \in Activation
       /\ \A b \in Agents \ {a} : act'[b] = act[b]
  <2>1. /\ act'[a] = [act[a] EXCEPT !.at = "prompting", !.session = n, !.turn = "prompt"]
        /\ \A b \in Agents \ {a} : act'[b] = act[b]
    BY <1>1, <1>13 DEF TypeOK
  <2> QED
    BY <1>4, <1>5, <2>1 DEF Activation
<1>17. session'[n] = new /\ \A s \in 1..MaxSessions : s # n => session'[s] = session[s]
  BY <1>1, <1>5, <1>13 DEF TypeOK
<1>18. TypeOK'
  <2>1. act' \in [Agents -> Activation]
    BY <1>1, <1>13, <1>16 DEF TypeOK
  <2>2. session' \in [1..MaxSessions -> SessionState \cup {None}]
    BY <1>1, <1>13, <1>15 DEF TypeOK
  <2>3. overlooked' \in BOOLEAN
    BY <1>1, <1>13 DEF TypeOK
  <2> QED
    BY <1>1, <1>13, <2>1, <2>2, <2>3 DEF TypeOK
<1>19. /\ SessionsExact'
       /\ \A s \in 1..opened : Live(s) \/ Live(s)' => GoesOn(s) /\ Live(s)
       /\ \A s \in 1..opened : Uses(a, s) \/ session'[s] = session[s]
  <2>1. Live(n)'
    BY <1>15, <1>17 DEF Live
  <2>2. /\ agent' = agent /\ retired' = retired /\ opened' = opened /\ prompted' = prompted
    BY <1>13
  <2> DEFINE more == imports \o ToolEntry(op)
  <2>3. /\ session'[n].prompt = session[n].prompt /\ session'[n].entries = session[n].entries \o more
        /\ ~overlooked' => Durable(session'[n])
        /\ overlooked => overlooked'
        /\ more \in Seq(Entries)
    BY <1>13, <1>15, <1>17
  <2> HIDE DEF more
  <2> QED
    BY <1>1, <1>3, <1>5, <1>16, <1>17, <1>18, <2>1, <2>2, <2>3, SessionGrows
<1>20. opened <= opened' /\ (overlooked => overlooked')
  BY <1>1, <1>13 DEF TypeOK
<1>21. /\ HandlesExact'
       /\ \A k \in Memories \ {m} : CheckpointExact(k)' /\ RestExact(k)' /\ FileExact(k)'
       /\ \A b \in Agents \ {a} : AgentExact(b)' /\ WorkExact(b)'
  <2>1. m = Main /\ memory'[m].checkpoint # None => slot'[m] # None
    BY <1>1, <1>13 DEF HandlesExact
  <2>2. memory'[m].messages # <<>> /\ Last(memory'[m].messages) = <<"in", act'[a].op>>
    BY <1>3, <1>13, <1>16 DEF Said
  <2>3. /\ act'[a].session # None <=> act'[a].at = "prompting"
        /\ act'[a].turn = "none" <=> act'[a].at # "prompting"
    BY <1>2, <1>16
  <2>4. agent'[a].memory = m /\ memory'[m] # None
    BY <1>4, <1>13 DEF Mem
  <2> QED
    BY <1>3, <1>4, <1>13, <1>16, <1>18, <1>19, <1>20, <2>1, <2>2, <2>3, <2>4, LocalStep
<1>22. CheckpointExact(m)'
  BY <1>1, <1>4, <1>13, <1>18, <1>19, <1>20, CheckpointFrame
<1>23. RestExact(m)' /\ FileExact(m)'
  <2>1. RestExact(m)'
    BY <1>13, <1>16 DEF RestExact, Busy, Mem
  <2>2. Mem(a)' = m
    BY <1>13 DEF Mem
  <2>3. FileExact(m)'
    BY <1>1, <1>4, <1>13, <1>16, <2>2 DEF FileExact
  <2> QED
    BY <2>1, <2>3
<1>24. AgentExact(a)' /\ WorkExact(a)'
  <2>1. Mem(a)' = m /\ Checkpoint(a)' = Checkpoint(a) /\ Said(a)' = Said(a)
    BY <1>13 DEF Mem, Checkpoint, Said
  <2>2. AgentExact(a)'
    BY <1>1, <1>2, <1>13, <1>16, <2>1 DEF AgentExact, Busy
  <2>3. WorkExact(a)'
    <3>1. Given(a)' = <<>>
      BY <1>16 DEF Given
    <3>2. Said(a) \o <<>> = Said(a)
      BY <1>10, ConcatEmptySeq
    <3> QED
      BY <1>12, <1>13, <1>15, <1>16, <1>17, <2>1, <3>1, <3>2 DEF WorkExact
  <2> QED
    BY <2>2, <2>3
<1> QED
  BY <1>13, <1>18, <1>19, <1>21, <1>22, <1>23, <1>24 DEF Kept

-----------------------------------------------------------------------------
(* A sequence that grows by one element, and the part of it that is new.    *)
LEMMA Single ==
  ASSUME NEW S, NEW s \in Seq(S), NEW x \in S
  PROVE  /\ SubSeq(Append(s, x), Len(s) + 1, Len(Append(s, x))) = <<x>> /\ Append(s, x) = s \o <<x>>
         /\ <<x>> \in Seq(S) /\ Append(s, x) \in Seq(S) /\ Len(Append(s, x)) = Len(s) + 1
<1> DEFINE t == Append(s, x)
           n == Len(s) + 1
           p == SubSeq(t, n, n)
<1>1. t \in Seq(S) /\ Len(t) = n /\ t[n] = x /\ Len(s) \in Nat
  BY AppendProperties, LenProperties
<1>2. p \in Seq(S) /\ Len(p) = 1 /\ p[1] = x
  <2> HIDE DEF t
  <2>1. n \in Nat \ {0} /\ n <= Len(t)
    BY <1>1
  <2>2. p \in Seq(S) /\ Len(p) = n - n + 1 /\ \A i \in 1..(n - n + 1) : p[i] = t[n + i - 1]
    BY <1>1, <2>1, Part
  <2> QED
    BY <1>1, <2>2
<1>3. <<x>> \in Seq(S) /\ Len(<<x>>) = 1 /\ <<x>>[1] = x
  OBVIOUS
<1> HIDE DEF t
<1>4. p = <<x>>
  <2> HIDE DEF p
  <2> QED
    BY <1>2, <1>3, SeqEqual
<1> QED
  BY <1>1, <1>3, <1>4, AppendIsConcat DEF t, p

(* Nothing is chosen when no element is at one of the positions.            *)
LEMMA ChosenNone ==
  ASSUME NEW s, NEW positions, Len(s) \in Nat, \A i \in 1..Len(s) : i \notin positions
  PROVE  Chosen(s, positions) = <<>>
<1> DEFINE c == Chosen(s, positions)
<1>1. c \in Seq({})
  BY ChosenType
<1> HIDE DEF c
<1>2. Len(c) \in Nat /\ \A i \in 1..Len(c) : c[i] \in {}
  BY <1>1, LenProperties, ElementOfSeq
<1>3. Len(c) = 0
  BY <1>2
<1> QED
  BY <1>1, <1>3, EmptySeq DEF c

(* What the records of an event project to are messages.                     *)
LEMMA ProjectedTypes ==
  ASSUME NEW messages \in Seq(Messages), NEW records \in Seq(Entries)
  PROVE  Projected(messages, records) \in Seq(Messages) /\ Len(Projected(messages, records)) \in Nat
<1> DEFINE kept == {i \in DOMAIN records : records[i][1] \in {"out", "text"}}
<1>1. Len(records) \in Nat
  BY LenProperties
<1>2. \A i \in 1..Len(records) : i \in kept => records[i] \in Messages
  <2> SUFFICES ASSUME NEW i \in 1..Len(records), i \in kept PROVE records[i] \in Messages
    OBVIOUS
  <2>1. records[i] \in Entries
    BY ElementOfSeq
  <2> QED
    BY <2>1 DEF Entries, Messages
<1> HIDE DEF kept
<1>3. Chosen(records, kept) \in Seq(Messages)
  BY <1>1, <1>2, ChosenType
<1>4. Canonical(records) \in Seq(Messages)
  BY <1>3 DEF Canonical, OfKind, kept
<1>5. Projected(messages, records) \in Seq(Messages)
  BY <1>4, ConcatProperties DEF Projected
<1> QED
  BY <1>5, LenProperties

(* What changes of tools and one entry more add to the messages of a memory. *)
LEMMA ProjectedOne ==
  ASSUME NEW messages \in Seq(Messages), NEW x \in Entries, x # Last(messages) \/ x[1] \notin {"out", "text"}, NEW tail \in Seq(Changes)
  PROVE  Projected(messages, Append(tail, x)) =
           IF x[1] \in {"out", "text"} THEN messages \o <<x>> ELSE messages
<1> DEFINE records == Append(tail, x)
           n == Len(tail)
           kept == {i \in DOMAIN records : records[i][1] \in {"out", "text"}}
<1>1. tail \in Seq(Entries)
  <2>1. Changes \subseteq Entries
    BY DEF Changes, Entries
  <2> QED
    BY <2>1, SeqMonotonic
<1>2. /\ n \in Nat /\ DOMAIN records = 1..(n + 1) /\ records[n + 1] = x
      /\ \A i \in 1..n : records[i] = tail[i]
  <2>1. records \in Seq(Entries) /\ Len(records) = n + 1
    BY <1>1, AppendProperties
  <2>2. DOMAIN records = 1..(n + 1)
    BY <2>1, LenProperties
  <2> QED
    BY <1>1, <2>2, AppendProperties, LenProperties
<1>3. n + 1 \in kept <=> x[1] \in {"out", "text"}
  BY <1>2
<1>4. \A i \in 1..n : i \notin kept
  <2> SUFFICES ASSUME NEW i \in 1..n PROVE i \notin kept
    OBVIOUS
  <2>1. tail[i] \in Changes
    BY ElementOfSeq
  <2>2. records[i][1] = "tools"
    BY <1>2, <2>1 DEF Changes
  <2> QED
    BY <2>2
<1> HIDE DEF kept
<1>5. Chosen(tail, kept) = <<>>
  BY <1>2, <1>4, ChosenNone
<1>6. Chosen(records, kept) = IF x[1] \in {"out", "text"} THEN <<x>> ELSE <<>>
  <2>1. Chosen(records, kept) = IF n + 1 \in kept THEN Append(Chosen(tail, kept), x) ELSE Chosen(tail, kept)
    BY <1>1, ChosenAppend
  <2>2. Append(<<>>, x) = <<x>>
    OBVIOUS
  <2> QED
    BY <1>3, <1>5, <2>1, <2>2
<1>7. Canonical(records) = IF x[1] \in {"out", "text"} THEN <<x>> ELSE <<>>
  BY <1>6 DEF Canonical, OfKind, kept
<1> HIDE DEF records
<1>8. <<>> # <<Last(messages)>> /\ (x # Last(messages) => <<x>> # <<Last(messages)>>)
  <2>1. <<x>>[1] = x /\ <<Last(messages)>>[1] = Last(messages)
    OBVIOUS
  <2>2. Len(<<>>) = 0 /\ Len(<<Last(messages)>>) = 1
    OBVIOUS
  <2> QED
    BY <2>1, <2>2
<1>9. Projected(messages, records) = messages \o Canonical(records)
  BY <1>7, <1>8 DEF Projected
<1>10. messages \o <<>> = messages
  BY ConcatEmptySeq
<1> QED
  BY <1>7, <1>9, <1>10 DEF records

\* A durability event: one entry more in the session, recorded with the changes
\* of tools before it, in the file too.
Advances(a, m, n, entry, turn, records) ==
  /\ entry \in Entries /\ records \in Seq(Entries)
  /\ act[a].turn \in {"prompt", "work", "closing", "submitted"}
  /\ turn \in {"work", "closing", "submitted", "answered", "unaccepted"}
  /\ entry[2] = act[a].op /\ (turn \in {"submitted", "unaccepted"} => act[a].op \in Formats)
  /\ entry[1] \in {"out", "text"} => entry = FinalText(a)
  /\ entry[1] \in {"out", "text"} <=> turn = "unaccepted" \/ (turn = "answered" /\ act[a].op \notin Formats)
  /\ ~overlooked => \E tail \in Seq(Changes) :
       session[n].entries = session[n].durable \o tail /\ records = Append(tail, entry)
  /\ slot' = [slot EXCEPT ![m] = Continued(slot[m], records)]
  /\ session' = [session EXCEPT ![n] =
        Persisted(session[n], Append(session[n].entries, entry), records)]
  /\ act' = [act EXCEPT ![a] = [@ EXCEPT !.turn = turn]]
  /\ UNCHANGED <<agent, memory, retired, failing, opened, overlooked, refused, number, prompted, crashes>>

(* The tail of a session that is not recorded, with one entry more.          *)
LEMMA UnrecordedIs ==
  ASSUME NEW s \in SessionState, NEW x \in Entries
  PROVE  /\ Unrecorded([s EXCEPT !.entries = Append(s.entries, x)]) \in Seq(Entries)
         /\ Durable(s) => \E tail \in Seq(Changes) :
              /\ s.entries = s.durable \o tail
              /\ Unrecorded([s EXCEPT !.entries = Append(s.entries, x)]) = Append(tail, x)
<1> DEFINE e == s.entries
           d == s.durable
           n == s.synced
           t == Append(e, x)
           u == Unrecorded([s EXCEPT !.entries = t])
<1>1. e \in Seq(Entries) /\ d \in Seq(Entries) /\ n \in Nat
  BY DEF SessionState
<1>2. t \in Seq(Entries) /\ Len(t) \in Nat
  BY <1>1, AppendProperties, LenProperties
<1>3. u = SubSeq(t, n + 1, Len(t))
  BY DEF SessionState, Unrecorded
<1> HIDE DEF u, t
<1>4. u \in Seq(Entries)
  BY <1>1, <1>2, <1>3, Part
<1>5. ASSUME Durable(s)
      PROVE  \E tail \in Seq(Changes) : e = d \o tail /\ u = Append(tail, x)
  <2>1. PICK tail \in Seq(Changes) : e = d \o tail /\ n = Len(d)
    BY <1>5 DEF Durable
  <2>2. tail \in Seq(Entries)
    <3>1. Changes \subseteq Entries
      BY DEF Changes, Entries
    <3> QED
      BY <3>1, SeqMonotonic
  <2> HIDE DEF e, d, n
  <2>3. <<x>> \in Seq(Entries) /\ Append(e, x) = e \o <<x>> /\ Append(tail, x) = tail \o <<x>>
    BY <1>1, <2>2, AppendIsConcat
  <2>4. (d \o tail) \o <<x>> = d \o (tail \o <<x>>)
    BY <1>1, <2>2, <2>3, ConcatAssociative
  <2>5. t = d \o (tail \o <<x>>)
    BY <2>1, <2>3, <2>4 DEF t
  <2> DEFINE q == tail \o <<x>>
  <2>6. q \in Seq(Entries)
    BY <2>2, <2>3, ConcatProperties
  <2>7. SubSeq(d \o q, Len(d) + 1, Len(d \o q)) = q
    BY <1>1, <2>6, Rest
  <2>8. u = q
    BY <1>3, <2>1, <2>5, <2>7
  <2> QED
    BY <2>1, <2>3, <2>8
<1> QED
  BY <1>4, <1>5 DEF u, t

(* A durability event is accepted, unless entries have been overlooked.      *)
LEMMA TurnIs ==
  ASSUME Kept, NEW a \in Agents, Turn(a), NEW m, m = Mem(a), NEW n, n = act[a].session
  PROVE  \/ overlooked /\ Fails(a, {"delta"})
         \/ \E entry \in NextEntries(a) : \E turn \in After(a, entry) :
              \E records : Advances(a, m, n, entry, turn, records)
<1>1. /\ TypeOK /\ HandlesExact /\ SessionsExact
      /\ \A k \in Memories : CheckpointExact(k) /\ RestExact(k) /\ FileExact(k)
      /\ \A b \in Agents : AgentExact(b) /\ WorkExact(b)
  BY DEF Kept
<1>2. act[a].at = "prompting" /\ Busy(a) /\ n # None
  BY <1>1 DEF Turn, Busy, HandlesExact
<1>3. act[a] \in Activation /\ act[a].op \in Nat
  BY <1>1 DEF TypeOK, Activation
<1>4. n \in 1..MaxSessions /\ Uses(a, n) /\ Live(n)
  <2>1. n \in 1..MaxSessions
    BY <1>2, <1>3 DEF Activation
  <2> QED
    BY <1>1, <2>1 DEF SessionsExact, Uses
<1>5. session[n] \in SessionState
  BY <1>1, <1>4, SessionTypes
<1>6. ~overlooked => Durable(session[n]) /\ slot[m].records = session[n].durable
  BY <1>1, <1>2, <1>4 DEF SessionsExact, WorkExact
<1>7. PICK entry \in NextEntries(a) : \E turn \in After(a, entry) :
         LET s == session[act[a].session]
             k == Mem(a)
             entries == Append(s.entries, entry)
             records == Unrecorded([s EXCEPT !.entries = entries])
         IN  IF ~Applies(k, Len(s.durable)) THEN Fails(a, {"delta"})
             ELSE /\ appendContinuation(k, records)
                  /\ session' = [session EXCEPT ![act[a].session] = Persisted(@, entries, records)]
                  /\ act' = [act EXCEPT ![a].turn = turn]
                  /\ UNCHANGED <<agent, memory, retired, failing, opened, overlooked, refused, bounds>>
  BY DEF Turn
<1>8. PICK turn \in After(a, entry) :
         LET s == session[act[a].session]
             k == Mem(a)
             entries == Append(s.entries, entry)
             records == Unrecorded([s EXCEPT !.entries = entries])
         IN  IF ~Applies(k, Len(s.durable)) THEN Fails(a, {"delta"})
             ELSE /\ appendContinuation(k, records)
                  /\ session' = [session EXCEPT ![act[a].session] = Persisted(@, entries, records)]
                  /\ act' = [act EXCEPT ![a].turn = turn]
                  /\ UNCHANGED <<agent, memory, retired, failing, opened, overlooked, refused, bounds>>
  BY <1>7
<1>9. /\ entry \in Entries /\ act[a].turn \in {"prompt", "work", "closing", "submitted"}
      /\ turn \in {"work", "closing", "submitted", "answered", "unaccepted"}
      /\ entry[2] = act[a].op /\ (turn \in {"submitted", "unaccepted"} => act[a].op \in Formats)
      /\ entry[1] \in {"out", "text"} => entry = FinalText(a)
      /\ entry[1] \in {"out", "text"} <=>
           turn = "unaccepted" \/ (turn = "answered" /\ act[a].op \notin Formats)
  <2>1. act[a].turn \in {"none", "prompt", "work", "closing", "submitted", "answered", "unaccepted"}
    BY <1>3 DEF Activation
  <2>2. CASE act[a].turn = "prompt"
    <3>1. entry = <<"again", act[a].op>> \/ entry = <<"in", act[a].op>>
      BY <2>2 DEF NextEntries, Prompt
    <3>2. entry[2] = act[a].op /\ entry[1] \in {"in", "again"} /\ entry \in Entries
      BY <1>3, <3>1 DEF Entries
    <3>3. turn = "work"
      BY <3>2 DEF After
    <3> QED
      BY <2>2, <3>2, <3>3
  <2>3. CASE act[a].turn = "submitted"
    <3>1. entry = <<"fin", act[a].op>> /\ entry \in Entries
      BY <1>3, <2>3 DEF NextEntries, Entries
    <3>2. turn = "answered" /\ act[a].op \in Formats
      BY <1>1, <2>3, <3>1 DEF After, WorkExact
    <3> QED
      BY <2>3, <3>1, <3>2
  <2>4. CASE (act[a].turn = "work" \/ act[a].turn = "closing") /\ entry = <<"mid", act[a].op>>
    <3>1. entry \in Entries
      BY <1>3, <2>4 DEF Entries
    <3>2. turn = "closing" \/ (turn = "submitted" /\ act[a].op \in Formats)
      BY <2>4 DEF After
    <3> QED
      BY <2>4, <3>1, <3>2
  <2>5. CASE (act[a].turn = "work" \/ act[a].turn = "closing") /\ entry = FinalText(a)
    <3>1. CASE act[a].op \in Formats
      <4>1. entry = <<"text", act[a].op>> /\ entry \in Entries
        BY <1>3, <2>5, <3>1 DEF FinalText, Entries
      <4>2. turn = "unaccepted"
        BY <4>1 DEF After
      <4> QED
        BY <2>5, <3>1, <4>1, <4>2
    <3>2. CASE act[a].op \notin Formats
      <4>1. entry = <<"out", act[a].op>> /\ entry \in Entries
        BY <1>3, <2>5, <3>2 DEF FinalText, Entries
      <4>2. turn = "answered"
        BY <4>1 DEF After
      <4> QED
        BY <2>5, <3>2, <4>1, <4>2
    <3> QED
      BY <3>1, <3>2
  <2>6. CASE act[a].turn \in {"none", "answered", "unaccepted"}
    <3>1. NextEntries(a) = {}
      BY <2>6 DEF NextEntries
    <3> QED
      BY <3>1
  <2>7. CASE act[a].turn = "work" \/ act[a].turn = "closing"
    <3>1. entry = <<"mid", act[a].op>> \/ entry = FinalText(a)
      BY <2>7 DEF NextEntries
    <3> QED
      BY <2>4, <2>5, <2>7, <3>1
  <2> QED
    BY <2>1, <2>2, <2>3, <2>6, <2>7
<1> DEFINE entries == Append(session[n].entries, entry)
           records == Unrecorded([session[n] EXCEPT !.entries = entries])
<1>10. /\ records \in Seq(Entries)
       /\ ~overlooked => \E tail \in Seq(Changes) :
            session[n].entries = session[n].durable \o tail /\ records = Append(tail, entry)
  BY <1>5, <1>6, <1>9, UnrecordedIs
<1>11. CASE ~Applies(m, Len(session[n].durable))
  <2>1. Fails(a, {"delta"})
    BY <1>8, <1>11
  <2>2. overlooked
    BY <1>6, <1>11 DEF Applies
  <2> QED
    BY <2>1, <2>2
<1>12. CASE Applies(m, Len(session[n].durable))
  <2>1. /\ appendContinuation(m, records)
        /\ session' = [session EXCEPT ![n] = Persisted(session[n], entries, records)]
        /\ act' = [act EXCEPT ![a].turn = turn]
        /\ UNCHANGED <<agent, memory, retired, failing, opened, overlooked, refused, bounds>>
    BY <1>8, <1>12
  <2>2. slot' = [slot EXCEPT ![m] = Continued(slot[m], records)]
    BY <2>1 DEF appendContinuation
  <2> HIDE DEF records
  <2>3. Advances(a, m, n, entry, turn, records)
    BY <1>9, <1>10, <2>1, <2>2 DEF bounds, Advances
  <2> QED
    BY <2>3
<1> QED
  BY <1>11, <1>12

(* A durability event keeps the invariant.                                  *)
LEMMA AdvancesKeeps ==
  ASSUME Kept, NEW a \in Agents, act[a].at = "prompting", NEW m, m = Mem(a), NEW n, n = act[a].session,
         NEW entry, NEW turn, NEW records, Advances(a, m, n, entry, turn, records)
  PROVE  Kept'
<1>1. /\ TypeOK /\ HandlesExact /\ SessionsExact
      /\ \A k \in Memories : CheckpointExact(k) /\ RestExact(k) /\ FileExact(k)
      /\ \A b \in Agents : AgentExact(b) /\ WorkExact(b)
  BY DEF Kept
<1>2. act[a].at = "prompting" /\ Busy(a) /\ n # None
  BY <1>1 DEF Busy, HandlesExact
<1>3. /\ Exists(a) /\ retired[a] = None /\ Said(a) # <<>> /\ Last(Said(a)) = <<"in", act[a].op>>
  BY <1>1, <1>2 DEF HandlesExact
<1>4. /\ m \in Memories /\ memory[m] # None /\ agent[a] \in AgentState /\ act[a] \in Activation
      /\ Said(a) \in Seq(Messages)
      /\ \A b \in Agents : Mem(b) = m => b = a
  BY <1>1, <1>3, HandleTypes DEF HandlesExact, Exists, Mem
<1>5. n \in 1..MaxSessions /\ Uses(a, n) /\ Live(n)
  <2>1. n \in 1..MaxSessions
    BY <1>2, <1>4 DEF Activation
  <2> QED
    BY <1>1, <2>1 DEF SessionsExact, Uses
<1>6. /\ session[n] \in SessionState /\ session[n].entries \in Seq(Entries)
      /\ session[n].durable \in Seq(Entries)
  BY <1>1, <1>5, SessionTypes
<1>8. /\ slot[m] # None
      /\ ~overlooked => /\ slot[m].records = session[n].durable
                        /\ slot[m].messages = Said(a) \o Given(a)
  BY <1>1, <1>2 DEF WorkExact
<1>9. slot[m] \in SlotState /\ slot[m].messages \in Seq(Messages) /\ slot[m].records \in Seq(Entries)
  BY <1>1, <1>4, <1>8, MemoryTypes
<1>10. act[a].op \in Nat
  BY <1>4 DEF Activation
<1>12. /\ entry \in Entries /\ records \in Seq(Entries)
       /\ act[a].turn \in {"prompt", "work", "closing", "submitted"}
       /\ turn \in {"work", "closing", "submitted", "answered", "unaccepted"}
       /\ entry[2] = act[a].op /\ (turn \in {"submitted", "unaccepted"} => act[a].op \in Formats)
       /\ entry[1] \in {"out", "text"} => entry = FinalText(a)
       /\ entry[1] \in {"out", "text"} <=> turn = "unaccepted" \/ (turn = "answered" /\ act[a].op \notin Formats)
       /\ ~overlooked => \E tail \in Seq(Changes) :
            session[n].entries = session[n].durable \o tail /\ records = Append(tail, entry)
  BY DEF Advances
<1> DEFINE entries == Append(session[n].entries, entry)
           messages == Projected(slot[m].messages, records)
           new == Persisted(session[n], entries, records)
           file == Continued(slot[m], records)
<1>13. /\ entries = session[n].entries \o <<entry>>
       /\ <<entry>> \in Seq(Entries) /\ entries \in Seq(Entries) /\ Len(entries) \in Nat
  BY <1>6, <1>12, Single, LenProperties
<1>15. /\ slot' = [slot EXCEPT ![m] = file]
       /\ session' = [session EXCEPT ![n] = new]
       /\ act' = [act EXCEPT ![a] = [@ EXCEPT !.turn = turn]]
       /\ UNCHANGED <<agent, memory, retired, failing, opened, overlooked, refused, number, prompted, crashes>>
  BY DEF Advances
<1>16. /\ messages \in Seq(Messages) /\ Len(messages) \in Nat
       /\ ~overlooked => messages = IF entry[1] \in {"out", "text"} THEN Said(a) \o <<entry>> ELSE Said(a)
  <2>1. messages \in Seq(Messages) /\ Len(messages) \in Nat
    BY <1>9, <1>12, ProjectedTypes
  <2>2. ASSUME ~overlooked
        PROVE  messages = IF entry[1] \in {"out", "text"} THEN Said(a) \o <<entry>> ELSE Said(a)
    <3>1. Given(a) = <<>>
      BY <1>12 DEF Given
    <3>2. slot[m].messages = Said(a)
      BY <1>4, <1>8, <2>2, <3>1, ConcatEmptySeq
    <3>3. PICK tail \in Seq(Changes) : records = Append(tail, entry)
      BY <1>12, <2>2
    <3>4. entry # Last(Said(a)) \/ entry[1] \notin {"out", "text"}
      BY <1>3
    <3> QED
      BY <1>4, <1>12, <3>2, <3>3, <3>4, ProjectedOne
  <2> QED
    BY <2>1, <2>2
<1>17. /\ new \in SessionState /\ new.prompt = session[n].prompt /\ new.entries = session[n].entries \o <<entry>>
       /\ new.durable = session[n].durable \o records /\ new # None
       /\ ~overlooked => new.entries = new.durable /\ Durable(new)
  <2>1. new.prompt = session[n].prompt /\ new.entries = entries /\ new.synced = Len(entries)
    BY <1>6 DEF SessionState, Persisted
  <2>2. new.durable = session[n].durable \o records
    BY <1>6 DEF SessionState, Persisted
  <2>3. new \in SessionState
    <3>1. session[n].durable \o records \in Seq(Entries)
      BY <1>6, <1>12, ConcatProperties
    <3> QED
      BY <1>6, <1>13, <3>1 DEF SessionState, Persisted
  <2>4. ASSUME ~overlooked PROVE new.entries = new.durable /\ Durable(new)
    <3> DEFINE d == session[n].durable
    <3>1. PICK tail \in Seq(Changes) : session[n].entries = d \o tail /\ records = Append(tail, entry)
      BY <1>12, <2>4
    <3>2. tail \in Seq(Entries)
      <4>1. Changes \subseteq Entries
        BY DEF Changes, Entries
      <4> QED
        BY <4>1, SeqMonotonic
    <3>3. d \in Seq(Entries)
      BY <1>6
    <3> HIDE DEF d, new, entries
    <3>4. records = tail \o <<entry>>
      BY <1>12, <3>1, <3>2, AppendIsConcat
    <3>5. (d \o tail) \o <<entry>> = d \o (tail \o <<entry>>)
      BY <1>13, <3>2, <3>3, ConcatAssociative
    <3>6. new.entries = new.durable
      BY <1>13, <2>1, <2>2, <3>1, <3>4, <3>5 DEF d
    <3> QED
      BY <2>1, <2>3, <3>6, DurableAll
  <2> QED
    BY <1>13, <2>1, <2>2, <2>3, <2>4, NotNone
<1>18. /\ file \in SlotState /\ file # None /\ file.messages = messages
       /\ file.records = slot[m].records \o records /\ file.revision = Len(messages)
  <2>1. slot[m].records \o records \in Seq(Entries)
    BY <1>9, <1>12, ConcatProperties
  <2>2. file \in SlotState
    BY <1>9, <1>16, <2>1 DEF SlotState, Continued
  <2>3. file.messages = messages /\ file.records = slot[m].records \o records
        /\ file.revision = Len(messages)
    BY <1>9 DEF SlotState, Continued
  <2> QED
    BY <2>2, <2>3, NotNone
<1> HIDE DEF new, file, entries, messages
<1>19. /\ act'[a].at = "prompting" /\ act'[a].op = act[a].op /\ act'[a].resuming = act[a].resuming
       /\ act'[a].session = n /\ act'[a].turn = turn /\ act'[a] \in Activation
       /\ \A b \in Agents \ {a} : act'[b] = act[b]
  <2>1. /\ act'[a] = [act[a] EXCEPT !.turn = turn]
        /\ \A b \in Agents \ {a} : act'[b] = act[b]
    BY <1>1, <1>15 DEF TypeOK
  <2> QED
    BY <1>2, <1>4, <1>12, <2>1 DEF Activation
<1>20. /\ session'[n] = new /\ (\A s \in 1..MaxSessions : s # n => session'[s] = session[s])
       /\ slot'[m] = file /\ \A k \in Memories \ {m} : slot'[k] = slot[k]
  BY <1>1, <1>4, <1>5, <1>15 DEF TypeOK
<1>21. TypeOK'
  <2>1. act' \in [Agents -> Activation]
    BY <1>1, <1>15, <1>19 DEF TypeOK
  <2>2. session' \in [1..MaxSessions -> SessionState \cup {None}]
    BY <1>1, <1>15, <1>17 DEF TypeOK
  <2>3. slot' \in [Memories -> SlotState \cup {None}]
    BY <1>1, <1>15, <1>18 DEF TypeOK
  <2> QED
    BY <1>1, <1>15, <2>1, <2>2, <2>3 DEF TypeOK
<1>22. /\ SessionsExact'
       /\ \A s \in 1..opened : Live(s) \/ Live(s)' => GoesOn(s) /\ Live(s)
       /\ \A s \in 1..opened : Uses(a, s) \/ session'[s] = session[s]
  <2>1. Live(n)'
    BY <1>17, <1>20 DEF Live
  <2>2. /\ agent' = agent /\ retired' = retired /\ opened' = opened /\ prompted' = prompted
    BY <1>15
  <2>3. /\ session'[n].prompt = session[n].prompt /\ session'[n].entries = session[n].entries \o <<entry>>
        /\ overlooked => overlooked'
        /\ ~overlooked' => Durable(session'[n])
    BY <1>15, <1>17, <1>20
  <2>4. act[a].session = None => agent[a].session = n
    BY <1>2
  <2> QED
    BY <1>1, <1>3, <1>5, <1>13, <1>19, <1>20, <1>21, <2>1, <2>2, <2>3, <2>4, SessionGrows
<1>23. opened <= opened' /\ (overlooked => overlooked')
  BY <1>1, <1>15 DEF TypeOK
<1>24. /\ HandlesExact'
       /\ \A k \in Memories \ {m} : CheckpointExact(k)' /\ RestExact(k)' /\ FileExact(k)'
       /\ \A b \in Agents \ {a} : AgentExact(b)' /\ WorkExact(b)'
  <2>1. m = Main /\ memory'[m].checkpoint # None => slot'[m] # None
    BY <1>18, <1>20
  <2>2. memory'[m].messages # <<>> /\ Last(memory'[m].messages) = <<"in", act'[a].op>>
    BY <1>3, <1>15, <1>19 DEF Said
  <2>3. /\ act'[a].session # None <=> act'[a].at = "prompting"
        /\ act'[a].turn = "none" <=> act'[a].at # "prompting"
    BY <1>2, <1>12, <1>19
  <2>4. agent'[a].memory = m /\ memory'[m] # None
    BY <1>4, <1>15 DEF Mem
  <2> QED
    BY <1>3, <1>4, <1>15, <1>19, <1>20, <1>21, <1>22, <1>23, <2>1, <2>2, <2>3, <2>4, LocalStep
<1>25. CheckpointExact(m)'
  BY <1>1, <1>4, <1>15, <1>21, <1>22, <1>23, CheckpointFrame
<1>26. RestExact(m)' /\ FileExact(m)'
  <2>1. RestExact(m)'
    BY <1>15, <1>19 DEF RestExact, Busy, Mem
  <2>2. Mem(a)' = m
    BY <1>15 DEF Mem
  <2>3. slot'[m].revision = Len(messages) /\ slot'[m].messages = messages
    BY <1>18, <1>20
  <2>4. slot'[m].revision <= Len(slot'[m].messages)
    BY <1>16, <2>3
  <2>5. FileExact(m)'
    BY <1>19, <2>2, <2>3, <2>4 DEF FileExact
  <2> QED
    BY <2>1, <2>5
<1>27. AgentExact(a)' /\ WorkExact(a)'
  <2>1. Mem(a)' = m /\ Checkpoint(a)' = Checkpoint(a) /\ Said(a)' = Said(a)
    BY <1>15 DEF Mem, Checkpoint, Said
  <2>2. AgentExact(a)'
    BY <1>1, <1>2, <1>15, <1>19, <2>1 DEF AgentExact, Busy
  <2>3. slot'[m] # None
    BY <1>18, <1>20
  <2>4. ASSUME ~overlooked'
        PROVE  /\ slot'[m].records = session'[n].durable
               /\ slot'[m].messages = Said(a) \o Given(a)'
               /\ slot'[m].revision = Len(slot'[m].messages)
               /\ session'[n].entries = session'[n].durable
    <3>1. ~overlooked
      BY <1>15, <2>4
    <3>2. slot'[m].records = session'[n].durable /\ session'[n].entries = session'[n].durable
      BY <1>8, <1>17, <1>18, <1>20, <3>1
    <3>3. slot'[m].revision = Len(slot'[m].messages) /\ slot'[m].messages = messages
      BY <1>18, <1>20
    <3>4. FinalText(a)' = FinalText(a)
      BY <1>19 DEF FinalText
    <3>5. CASE entry[1] \in {"out", "text"}
      <4>1. Given(a)' = <<entry>>
        BY <1>12, <1>19, <3>4, <3>5 DEF Given
      <4> QED
        BY <1>16, <3>1, <3>2, <3>3, <3>5, <4>1
    <3>6. CASE entry[1] \notin {"out", "text"}
      <4>1. Given(a)' = <<>>
        BY <1>12, <1>19, <3>6 DEF Given
      <4>2. Said(a) \o <<>> = Said(a)
        BY <1>4, ConcatEmptySeq
      <4> QED
        BY <1>16, <3>1, <3>2, <3>3, <3>6, <4>1, <4>2
    <3> QED
      BY <3>5, <3>6
  <2>5. act'[a].turn \in {"submitted", "unaccepted"} => act'[a].op \in Formats
    BY <1>12, <1>19
  <2>6. WorkExact(a)'
    BY <1>19, <2>1, <2>3, <2>4, <2>5 DEF WorkExact
  <2> QED
    BY <2>2, <2>6
<1> QED
  BY <1>15, <1>21, <1>22, <1>24, <1>25, <1>26, <1>27 DEF Kept

LEMMA TurnKeeps ==
  ASSUME Kept, NEW a \in Agents, Turn(a)
  PROVE  Kept'
<1> SUFFICES ASSUME NEW m, m = Mem(a), NEW n, n = act[a].session PROVE Kept'
  OBVIOUS
<1>1. act[a].at = "prompting" /\ Busy(a)
  BY DEF Turn, Busy
<1>2. CASE overlooked /\ Fails(a, {"delta"})
  BY <1>1, <1>2, FailsKeeps
<1>3. ASSUME NEW entry, NEW turn, NEW records, Advances(a, m, n, entry, turn, records) PROVE Kept'
  BY <1>1, <1>3, AdvancesKeeps
<1> QED
  BY <1>2, <1>3, TurnIs
-----------------------------------------------------------------------------
(* The end of an activation keeps the invariant: what is checkpointed is    *)
(* what the file has.                                                       *)
LEMMA ReturnKeeps ==
  ASSUME Kept, NEW a \in Agents, Return(a)
  PROVE  Kept'
<1> SUFFICES ASSUME NEW m, m = Mem(a), NEW n, n = act[a].session PROVE Kept'
  OBVIOUS
<1>1. /\ TypeOK /\ HandlesExact /\ SessionsExact
      /\ \A k \in Memories : CheckpointExact(k) /\ RestExact(k) /\ FileExact(k)
      /\ \A b \in Agents : AgentExact(b) /\ WorkExact(b)
  BY DEF Kept
<1>2. act[a].at = "prompting" /\ Busy(a) /\ n # None
  BY <1>1 DEF Return, Busy, HandlesExact
<1>3. Exists(a) /\ retired[a] = None
  BY <1>1, <1>2 DEF HandlesExact
<1>4. /\ m \in Memories /\ memory[m] # None /\ agent[a] \in AgentState /\ act[a] \in Activation
      /\ Said(a) \in Seq(Messages)
      /\ \A b \in Agents : Mem(b) = m => b = a
  BY <1>1, <1>3, HandleTypes DEF HandlesExact, Exists, Mem
<1>5. n \in 1..MaxSessions /\ Uses(a, n) /\ Live(n)
  <2>1. n \in 1..MaxSessions
    BY <1>2, <1>4 DEF Activation
  <2> QED
    BY <1>1, <2>1 DEF SessionsExact, Uses
<1>6. /\ session[n] \in SessionState /\ session[n].entries \in Seq(Entries)
      /\ session[n].durable \in Seq(Entries)
  BY <1>1, <1>5, SessionTypes
<1>7. /\ session[n].prompt = agent[a].prompt
      /\ ~overlooked => Durable(session[n]) /\ session[n].entries = session[n].durable
  <2>1. act[a].turn # "prompt"
    BY DEF Return
  <2> QED
    BY <1>1, <1>2, <1>5, <2>1 DEF SessionsExact, WorkExact
<1> DEFINE tools == ToolEntry(act[a].op)
           entries == session[n].entries \o tools
           new == [session[n] EXCEPT !.entries = entries]
           messages == Append(Said(a), <<"out", act[a].op>>)
           point == [session |-> n, leaf |-> Len(entries), records |-> session[n].durable,
                     revision |-> Len(messages), prompt |-> agent[a].prompt]
           held == [messages |-> messages, checkpoint |-> point]
           file == [messages |-> messages, records |-> session[n].durable,
                    revision |-> Len(messages)]
<1>8. /\ session' = [session EXCEPT ![n] = new]
      /\ agent' = [agent EXCEPT ![a] = [@ EXCEPT !.session = n, !.leaf = Len(entries),
                                                 !.revision = Len(messages)]]
      /\ memory' = [memory EXCEPT ![m] = held] /\ slot' = [slot EXCEPT ![m] = file]
      /\ act' = [act EXCEPT ![a] = noAct]
      /\ UNCHANGED <<retired, failing, opened, overlooked, refused, number, prompted, crashes>>
  BY DEF Return, exportSession, bounds
<1>30. /\ tools \in Seq(Entries) /\ tools \in Seq(Changes)
       /\ entries \in Seq(Entries) /\ Len(entries) \in Nat
  <2>1. tools \in Seq(Entries) /\ tools \in Seq(Changes)
    BY <1>4, ToolTypes
  <2> HIDE DEF tools
  <2>2. entries \in Seq(Entries)
    BY <1>6, <2>1, ConcatProperties
  <2> HIDE DEF entries
  <2> QED
    BY <2>1, <2>2, LenProperties
<1>31. /\ new \in SessionState /\ new # None /\ new.prompt = session[n].prompt /\ new.entries = entries
       /\ new.durable = session[n].durable /\ (~overlooked => Durable(new))
  <2> HIDE DEF entries
  <2>1. /\ new \in SessionState /\ new.prompt = session[n].prompt /\ new.entries = entries
        /\ new.durable = session[n].durable /\ new.synced = session[n].synced
    BY <1>6, <1>30 DEF SessionState
  <2>2. ASSUME ~overlooked PROVE Durable(new)
    <3>1. entries = session[n].durable \o tools
      BY <1>7, <2>2 DEF entries
    <3>2. session[n].synced = Len(session[n].durable)
      BY <1>7, <2>2 DEF Durable
    <3> HIDE DEF new, tools
    <3> QED
      BY <1>30, <2>1, <3>1, <3>2 DEF Durable
  <2> QED
    BY <2>1, <2>2, NotNone
<1>32. /\ session'[n] = new /\ \A s \in 1..MaxSessions : s # n => session'[s] = session[s]
  <2> HIDE DEF new
  <2> QED
    BY <1>1, <1>5, <1>8 DEF TypeOK
<1>33. IsPrefix(session[n].entries, entries) /\ (~overlooked => IsPrefix(session[n].durable, entries))
  <2> HIDE DEF tools
  <2> QED
    BY <1>6, <1>7, <1>30, PrefixOfItself
<1> HIDE DEF new, entries, tools
<1>9. /\ messages \in Seq(Messages) /\ Len(messages) \in Nat /\ messages # <<>>
      /\ Last(messages) = <<"out", act[a].op>>
  <2>1. <<"out", act[a].op>> \in Messages
    BY <1>4 DEF Activation, Messages
  <2> QED
    BY <1>4, <2>1, LastAppended, AppendProperties, LenProperties
<1> HIDE DEF messages
<1>10. /\ point \in CheckpointState /\ point # None /\ point.session = n
       /\ point.leaf = Len(entries) /\ point.records = session[n].durable
       /\ point.revision = Len(messages) /\ point.prompt = agent[a].prompt
  BY <1>4, <1>5, <1>6, <1>9, <1>30, NotNone DEF CheckpointState, AgentState
<1> HIDE DEF point
<1>11. held \in MemoryState /\ held # None /\ held.messages = messages /\ held.checkpoint = point
  BY <1>9, <1>10, NotNone DEF MemoryState
<1>12. /\ file \in SlotState /\ file # None /\ file.messages = messages
       /\ file.records = session[n].durable /\ file.revision = Len(messages)
  BY <1>6, <1>7, <1>9, NotNone DEF SlotState
<1> HIDE DEF held, file
<1>13. /\ agent'[a] \in AgentState /\ agent'[a].session = n /\ agent'[a].revision = Len(messages)
       /\ agent'[a].memory = m /\ agent'[a].prompt = agent[a].prompt
       /\ \A b \in Agents \ {a} : agent'[b] = agent[b]
  <2>1. agent'[a] = [agent[a] EXCEPT !.session = n, !.leaf = Len(entries), !.revision = Len(messages)]
    BY <1>1, <1>8 DEF TypeOK
  <2>2. \A b \in Agents \ {a} : agent'[b] = agent[b]
    BY <1>1, <1>8 DEF TypeOK
  <2> QED
    BY <1>4, <1>5, <1>9, <1>30, <2>1, <2>2 DEF AgentState, Mem
<1>14. act'[a] = noAct /\ noAct \in Activation /\ \A b \in Agents \ {a} : act'[b] = act[b]
  BY <1>1, <1>8 DEF TypeOK, noAct, Activation
<1>15. /\ memory'[m] = held /\ slot'[m] = file
       /\ \A k \in Memories \ {m} : memory'[k] = memory[k] /\ slot'[k] = slot[k]
  BY <1>1, <1>4, <1>8 DEF TypeOK
<1>16. TypeOK'
  <2>1. act' \in [Agents -> Activation] /\ agent' \in [Agents -> AgentState]
    BY <1>1, <1>8, <1>13, <1>14 DEF TypeOK
  <2>2. memory' \in [Memories -> MemoryState \cup {None}]
    BY <1>1, <1>8, <1>11 DEF TypeOK
  <2>3. slot' \in [Memories -> SlotState \cup {None}]
    BY <1>1, <1>8, <1>12 DEF TypeOK
  <2>4. session' \in [1..MaxSessions -> SessionState \cup {None}]
    BY <1>1, <1>8, <1>31 DEF TypeOK
  <2> QED
    BY <1>1, <1>8, <2>1, <2>2, <2>3, <2>4 DEF TypeOK
<1>34. \A s \in 1..opened : /\ Live(s) \/ Live(s)' => GoesOn(s) /\ Live(s)
                            /\ Uses(a, s) \/ session'[s] = session[s]
  <2> TAKE s \in 1..opened
  <2>1. s \in 1..MaxSessions
    BY <1>1, BoundAssumption DEF TypeOK
  <2> QED
    BY <1>5, <1>31, <1>32, <1>33, <2>1 DEF GoesOn, Live
<1>17. /\ HandlesExact'
       /\ \A k \in Memories \ {m} : CheckpointExact(k)' /\ RestExact(k)' /\ FileExact(k)'
       /\ \A b \in Agents \ {a} : AgentExact(b)' /\ WorkExact(b)'
  <2>1. m = Main /\ memory'[m].checkpoint # None => slot'[m] # None
    BY <1>12, <1>15
  <2>2. ~Busy(a)'
    BY <1>14 DEF Busy, noAct
  <2>3. /\ act'[a].session # None <=> act'[a].at = "prompting"
        /\ act'[a].turn = "none" <=> act'[a].at # "prompting"
    BY <1>14 DEF noAct
  <2>4. memory'[m] # None
    BY <1>11, <1>15
  <2>5. opened <= opened' /\ (overlooked => overlooked')
    BY <1>1, <1>8 DEF TypeOK
  <2>6. /\ \A s \in 1..opened : Live(s) \/ Live(s)' => GoesOn(s) /\ Live(s)
        /\ \A s \in 1..opened : Uses(a, s) \/ session'[s] = session[s]
    BY <1>34
  <2>7. /\ prompted' = 0 => prompted = 0
        /\ failing => failing'
        /\ \A b \in Agents \ {a} : agent'[b] = agent[b] /\ act'[b] = act[b] /\ retired'[b] = retired[b]
    BY <1>8, <1>13, <1>14
  <2> QED
    BY <1>3, <1>4, <1>13, <1>15, <1>16, <2>1, <2>2, <2>3, <2>4, <2>5, <2>6, <2>7, LocalStep
<1>18. SessionsExact'
  <2>1. \A s \in 1..MaxSessions : Live(s)' <=> Live(s)
    BY <1>5, <1>31, <1>32 DEF Live
  <2>2. \A b \in Agents : \A s \in 1..MaxSessions : Uses(b, s)' <=> Uses(b, s)
    <3> TAKE b \in Agents
    <3> TAKE s \in 1..MaxSessions
    <3>1. CASE b = a
      <4>1. s # None /\ (agent[a].session = None \/ agent[a].session = n)
        BY <1>1, <1>2, NotNone DEF SessionsExact
      <4> QED
        BY <1>3, <1>8, <1>13, <1>14, <3>1, <4>1 DEF Uses, noAct
    <3>2. CASE b # a
      BY <1>8, <1>13, <1>14, <3>2 DEF Uses
    <3> QED
      BY <3>1, <3>2
  <2>3. ASSUME NEW b \in Agents
        PROVE  /\ retired'[b] # None => prompted' > 0 /\ agent'[b].session = None
               /\ agent'[b].session # None /\ act'[b].session # None => agent'[b].session = act'[b].session
               /\ agent'[b].session # None => session'[agent'[b].session].prompt = agent'[b].prompt
               /\ act'[b].session # None => session'[act'[b].session].prompt = agent'[b].prompt
    <3>1. CASE b = a
      BY <1>3, <1>7, <1>8, <1>13, <1>14, <1>31, <1>32, <3>1 DEF noAct
    <3>2. CASE b # a
      <4>1. \A s \in 1..MaxSessions : session'[s].prompt = session[s].prompt
        BY <1>31, <1>32
      <4>2. agent[b].session \in (1..MaxSessions) \cup {None} /\ act[b].session \in (1..MaxSessions) \cup {None}
        BY <1>1 DEF TypeOK, AgentState, Activation
      <4> QED
        BY <1>1, <1>8, <1>13, <1>14, <3>2, <4>1, <4>2 DEF SessionsExact
    <3> QED
      BY <3>1, <3>2
  <2>4. ~overlooked' => \A s \in 1..MaxSessions : Live(s)' => Durable(session'[s])
    BY <1>1, <1>8, <1>31, <1>32, <2>1 DEF SessionsExact
  <2> QED
    BY <1>1, <1>8, <2>1, <2>2, <2>3, <2>4 DEF SessionsExact
<1>19. CheckpointExact(m)'
  <2>1. n <= opened
    BY <1>1, <1>5 DEF SessionsExact, TypeOK
  <2>2. /\ memory'[m].checkpoint = point /\ memory'[m].messages = messages
        /\ opened' = opened /\ overlooked' = overlooked
    BY <1>8, <1>11, <1>15
  <2>3. point.revision <= Len(messages) /\ point.leaf <= Len(session'[n].entries)
    BY <1>9, <1>10, <1>30, <1>31, <1>32
  <2>4. session'[n] # None
    BY <1>31, <1>32
  <2>5. /\ point.session = n /\ n <= opened /\ session'[n].prompt = point.prompt
        /\ ~overlooked => IsPrefix(point.records, session'[n].entries)
    BY <1>7, <1>10, <1>31, <1>32, <1>33, <2>1
  <2> QED
    <3> SUFFICES ASSUME memory'[m] # None, memory'[m].checkpoint # None PROVE CheckpointExact(m)'
      BY DEF CheckpointExact
    <3>1. point.revision <= Len(memory'[m].messages) /\ point.session <= opened'
      BY <2>2, <2>3, <2>5
    <3>2. /\ session'[point.session].prompt = point.prompt
          /\ point.leaf <= Len(session'[point.session].entries)
          /\ ~overlooked' => IsPrefix(point.records, session'[point.session].entries)
      BY <2>2, <2>3, <2>5
    <3>3. session'[point.session] # None
      BY <2>4, <2>5
    <3> QED
      BY <2>2, <3>1, <3>2, <3>3 DEF CheckpointExact, Live
<1>20. RestExact(m)'
  BY <1>9, <1>11, <1>15 DEF RestExact, Interrupted
<1>21. FileExact(m)'
  <2>1. IsPrefix(session[n].durable, session[n].durable)
    BY <1>6, EmptySeq, PrefixOfItself
  <2>2. slot'[m].revision = Len(messages) /\ slot'[m].messages = messages
    BY <1>12, <1>15
  <2>3. slot'[m].revision <= Len(slot'[m].messages)
    BY <1>9, <2>2
  <2>4. memory'[m].checkpoint # None /\ memory'[m].checkpoint.records = session[n].durable
        /\ slot'[m].records = session[n].durable
    BY <1>10, <1>11, <1>12, <1>15
  <2> QED
    BY <2>1, <2>2, <2>3, <2>4 DEF FileExact
<1>22. AgentExact(a)' /\ WorkExact(a)'
  <2>1. Checkpoint(a)' = point
    BY <1>11, <1>13, <1>15 DEF Checkpoint, Mem
  <2> QED
    BY <1>2, <1>8, <1>10, <1>13, <1>14, <1>31, <1>32, <2>1 DEF AgentExact, WorkExact, Busy, noAct
<1> QED
  BY <1>8, <1>16, <1>17, <1>18, <1>19, <1>20, <1>21, <1>22 DEF Kept

(* Closing the session that a system prompt has replaced keeps the          *)
(* invariant.                                                               *)
LEMMA CloseRetiredKeeps ==
  ASSUME Kept, NEW a \in Agents, CloseRetired(a)
  PROVE  Kept'
<1> SUFFICES ASSUME NEW n, n = retired[a] PROVE Kept'
  OBVIOUS
<1>1. /\ TypeOK /\ HandlesExact /\ SessionsExact
      /\ \A k \in Memories : CheckpointExact(k) /\ RestExact(k) /\ FileExact(k)
      /\ \A b \in Agents : AgentExact(b) /\ WorkExact(b)
  BY DEF Kept
<1>2. n # None /\ n \in 1..MaxSessions /\ prompted > 0 /\ agent[a].session = None
  BY <1>1 DEF CloseRetired, TypeOK, SessionsExact
<1>3. act[a].session = None /\ ~Busy(a)
  BY <1>1, <1>2 DEF HandlesExact, Busy
<1>4. /\ session' = [s \in 1..MaxSessions |-> IF s = n THEN None ELSE session[s]]
      /\ retired' = [retired EXCEPT ![a] = None]
      /\ UNCHANGED <<agent, memory, act, failing, opened, overlooked, slot, refused, number, prompted, crashes>>
  BY <1>1 DEF CloseRetired, Closed, TypeOK, bounds
<1>5. retired'[a] = None /\ \A b \in Agents \ {a} : retired'[b] = retired[b]
  BY <1>1, <1>4 DEF TypeOK
<1>6. TypeOK'
  BY <1>1, <1>4 DEF TypeOK
<1>7. HandlesExact'
  <2>1. \A b \in Agents : Busy(b) \/ ~Exists(b) => b # a /\ retired'[b] = None
    BY <1>1, <1>2, <1>3, <1>5 DEF HandlesExact
  <2>2. \A b \in Agents : Mem(b)' = Mem(b) /\ Exists(b)' = Exists(b) /\ Said(b)' = Said(b) /\ Busy(b)' = Busy(b)
    BY <1>4 DEF Mem, Exists, Said, Busy
  <2> QED
    BY <1>1, <1>4, <2>1, <2>2 DEF HandlesExact
<1>8. \A s \in 1..MaxSessions : Live(s)' <=> Live(s) /\ s # n
  BY <1>4 DEF Live
<1>9. \A s \in 1..MaxSessions : \A b \in Agents : Uses(b, s)' <=> Uses(b, s) /\ s # n
  <2> TAKE s \in 1..MaxSessions
  <2> TAKE b \in Agents
  <2>1. s # None
    BY NotNone
  <2>2. CASE b = a
    BY <1>2, <1>3, <1>4, <1>5, <2>1, <2>2 DEF Uses
  <2>3. CASE b # a
    <3>1. Uses(a, n)
      BY DEF Uses
    <3>2. ~Uses(b, n)
      BY <1>1, <1>2, <2>3, <3>1 DEF SessionsExact
    <3> QED
      BY <1>4, <1>5, <2>3, <3>2 DEF Uses
  <2> QED
    BY <2>2, <2>3
<1>10. \A b \in Agents : /\ agent[b].session # None => session'[agent[b].session] = session[agent[b].session]
                         /\ act[b].session # None => session'[act[b].session] = session[act[b].session]
  <2> TAKE b \in Agents
  <2>1. agent[b].session \in (1..MaxSessions) \cup {None} /\ act[b].session \in (1..MaxSessions) \cup {None}
    BY <1>1 DEF TypeOK, AgentState, Activation
  <2>2. agent[b].session # n /\ act[b].session # n
    <3>1. CASE b = a
      BY <1>2, <1>3, <3>1
    <3>2. CASE b # a
      BY <1>1, <1>2, <3>2 DEF SessionsExact, Uses
    <3> QED
      BY <3>1, <3>2
  <2> QED
    BY <1>4, <2>1, <2>2
<1>11. SessionsExact'
  <2>1. \A s \in 1..MaxSessions : Live(s)' => session'[s] = session[s]
    BY <1>4, <1>8
  <2>2. \A b \in Agents : retired'[b] # None => retired[b] # None
    BY <1>5
  <2>3. \A s \in 1..MaxSessions : Live(s)' <=> \E b \in Agents : Uses(b, s)'
    BY <1>1, <1>8, <1>9 DEF SessionsExact
  <2>4. \A s \in 1..MaxSessions : \A b, c \in Agents : Uses(b, s)' /\ Uses(c, s)' => b = c
    BY <1>1, <1>9 DEF SessionsExact
  <2>5. \A s \in 1..MaxSessions : s > opened' => ~Live(s)'
    BY <1>1, <1>4, <1>8 DEF SessionsExact
  <2>6. ~overlooked' => \A s \in 1..MaxSessions : Live(s)' => Durable(session'[s])
    BY <1>1, <1>4, <1>8, <2>1 DEF SessionsExact
  <2> QED
    BY <1>1, <1>4, <1>10, <2>2, <2>3, <2>4, <2>5, <2>6 DEF SessionsExact
<1>12. ASSUME NEW k \in Memories PROVE CheckpointExact(k)' /\ RestExact(k)' /\ FileExact(k)'
  <2>1. \A s \in 1..opened : Live(s) \/ Live(s)' => GoesOn(s) /\ Live(s)
    <3> TAKE s \in 1..opened
    <3>1. s \in 1..MaxSessions
      BY <1>1, BoundAssumption DEF TypeOK
    <3> QED
      BY <1>2, <1>4, <1>8, <3>1 DEF GoesOn, Live
  <2>2. \A b \in Agents : Mem(b)' = Mem(b)
    BY <1>4 DEF Mem
  <2>3. opened <= opened' /\ (overlooked => overlooked')
    BY <1>1, <1>4 DEF TypeOK
  <2> QED
    BY <1>1, <1>4, <1>6, <2>1, <2>2, <2>3, MemoryFrame
<1>13. ASSUME NEW b \in Agents PROVE AgentExact(b)' /\ WorkExact(b)'
  BY <1>1, <1>4, <1>10, AgentFrame
<1> QED
  BY <1>4, <1>6, <1>7, <1>11, <1>12, <1>13 DEF Kept

-----------------------------------------------------------------------------
(* agent.system_prompt keeps the invariant.                                 *)
LEMMA SystemPromptKeeps ==
  ASSUME Kept, NEW a \in Agents, NEW prompt \in Prompts, SystemPrompt(a, prompt)
  PROVE  Kept'
<1> SUFFICES ASSUME NEW m, m = Mem(a) PROVE Kept'
  OBVIOUS
<1>1. /\ TypeOK /\ HandlesExact /\ SessionsExact
      /\ \A k \in Memories : CheckpointExact(k) /\ RestExact(k) /\ FileExact(k)
      /\ \A b \in Agents : AgentExact(b) /\ WorkExact(b)
  BY DEF Kept
<1>2. /\ Exists(a) /\ act[a].at = "idle" /\ retired[a] = None /\ ~failing /\ ~Interrupted(m)
      /\ act[a].session = None
  BY <1>1 DEF SystemPrompt, Ready, Usable, HandlesExact
<1>3. /\ m \in Memories /\ memory[m] # None /\ memory[m] \in MemoryState /\ agent[a] \in AgentState
      /\ \A b \in Agents : Mem(b) = m => b = a
  BY <1>1, <1>2, HandleTypes DEF HandlesExact, Exists, Mem
<1> DEFINE old == memory[m].checkpoint
           point == IF old = None THEN None ELSE [old EXCEPT !.session = None, !.leaf = 0, !.prompt = prompt]
           held == [memory[m] EXCEPT !.checkpoint = point]
<1>4. /\ agent' = [agent EXCEPT ![a] = [@ EXCEPT !.prompt = prompt, !.session = None,
                                                 !.leaf = 0, !.revision = 0]]
      /\ memory' = [memory EXCEPT ![m].checkpoint = point]
      /\ retired' = [retired EXCEPT ![a] = agent[a].session] /\ prompted' = prompted + 1
      /\ UNCHANGED <<act, failing, session, opened, overlooked, slot, refused, number, crashes>>
  BY DEF SystemPrompt, executor
<1>5. old \in CheckpointState \cup {None}
  BY <1>3 DEF MemoryState
<1>6. /\ point \in CheckpointState \cup {None} /\ (point # None <=> old # None)
      /\ point # None => point.session = None /\ point.records = old.records /\ point.revision = old.revision
  <2>1. CASE old = None
    BY <2>1
  <2>2. CASE old # None
    <3>1. old \in CheckpointState
      BY <1>5, <2>2
    <3>2. [old EXCEPT !.session = None, !.leaf = 0, !.prompt = prompt] \in CheckpointState
      BY <3>1 DEF CheckpointState
    <3> QED
      BY <2>2, <3>1, <3>2, NotNone DEF CheckpointState
  <2> QED
    BY <2>1, <2>2
<1> HIDE DEF point
<1>7. /\ memory'[m] = held /\ \A k \in Memories \ {m} : memory'[k] = memory[k]
  BY <1>1, <1>3, <1>4 DEF TypeOK
<1>8. /\ held \in MemoryState /\ held # None /\ held.messages = memory[m].messages /\ held.checkpoint = point
  BY <1>3, <1>6, NotNone DEF MemoryState
<1> HIDE DEF held
<1>9. /\ agent'[a] \in AgentState /\ agent'[a].session = None /\ agent'[a].revision = 0 /\ agent'[a].memory = m
      /\ \A b \in Agents \ {a} : agent'[b] = agent[b] /\ retired'[b] = retired[b]
      /\ retired'[a] = agent[a].session
  <2>1. agent'[a] = [agent[a] EXCEPT !.prompt = prompt, !.session = None, !.leaf = 0, !.revision = 0]
    BY <1>1, <1>4 DEF TypeOK
  <2>2. (\A b \in Agents \ {a} : agent'[b] = agent[b] /\ retired'[b] = retired[b]) /\ retired'[a] = agent[a].session
    BY <1>1, <1>4 DEF TypeOK
  <2>3. agent'[a] \in AgentState
    <3>1. agent'[a] = [memory |-> agent[a].memory, prompt |-> prompt, session |-> None, leaf |-> 0, revision |-> 0]
      BY <1>3, <2>1 DEF AgentState
    <3> QED
      BY <1>3, <3>1 DEF AgentState
  <2>4. agent'[a].session = None /\ agent'[a].revision = 0 /\ agent'[a].memory = m
    BY <1>3, <2>1 DEF AgentState, Mem
  <2> QED
    BY <2>2, <2>3, <2>4
<1>10. TypeOK'
  <2>1. agent' \in [Agents -> AgentState]
    BY <1>1, <1>4, <1>9 DEF TypeOK
  <2>2. memory' \in [Memories -> MemoryState \cup {None}]
    <3>1. memory' = [memory EXCEPT ![m] = held]
      BY <1>1, <1>3, <1>4, <1>7 DEF TypeOK
    <3> QED
      BY <1>1, <1>8, <3>1 DEF TypeOK
  <2>3. retired' \in [Agents -> (1..MaxSessions) \cup {None}]
    BY <1>1, <1>3, <1>4 DEF TypeOK, AgentState
  <2>4. prompted' \in Nat
    BY <1>1, <1>4 DEF TypeOK
  <2> QED
    BY <1>1, <1>4, <2>1, <2>2, <2>3, <2>4 DEF TypeOK
<1>11. prompted' > 0 /\ opened <= opened' /\ (overlooked => overlooked')
  BY <1>1, <1>4 DEF TypeOK
<1>12. /\ HandlesExact'
       /\ \A k \in Memories \ {m} : CheckpointExact(k)' /\ RestExact(k)' /\ FileExact(k)'
       /\ \A b \in Agents \ {a} : AgentExact(b)' /\ WorkExact(b)'
  <2>1. m = Main /\ memory'[m].checkpoint # None => slot'[m] # None
    BY <1>1, <1>4, <1>6, <1>7, <1>8 DEF HandlesExact
  <2>2. ~Busy(a)'
    BY <1>2, <1>4 DEF Busy
  <2>3. /\ act'[a].session # None <=> act'[a].at = "prompting"
        /\ act'[a].turn = "none" <=> act'[a].at # "prompting"
    BY <1>1, <1>4 DEF HandlesExact
  <2>4. memory'[m] # None
    BY <1>7, <1>8
  <2> QED
    BY <1>2, <1>3, <1>4, <1>7, <1>9, <1>10, <1>11, <2>1, <2>2, <2>3, <2>4, LocalStep DEF GoesOn, Live
<1>13. SessionsExact'
  <2>1. \A s \in 1..MaxSessions : Live(s)' <=> Live(s)
    BY <1>4 DEF Live
  <2>2. \A b \in Agents : \A s \in 1..MaxSessions : Uses(b, s)' <=> Uses(b, s)
    <3> TAKE b \in Agents
    <3> TAKE s \in 1..MaxSessions
    <3>1. CASE b = a
      BY <1>2, <1>4, <1>9, <3>1, NotNone DEF Uses
    <3>2. CASE b # a
      BY <1>4, <1>9, <3>2 DEF Uses
    <3> QED
      BY <3>1, <3>2
  <2>3. ASSUME NEW b \in Agents
        PROVE  /\ retired'[b] # None => prompted' > 0 /\ agent'[b].session = None
               /\ agent'[b].session # None /\ act'[b].session # None => agent'[b].session = act'[b].session
               /\ agent'[b].session # None => session'[agent'[b].session].prompt = agent'[b].prompt
               /\ act'[b].session # None => session'[act'[b].session].prompt = agent'[b].prompt
    <3>1. CASE b = a
      BY <1>2, <1>4, <1>9, <1>11, <3>1
    <3>2. CASE b # a
      BY <1>1, <1>4, <1>9, <1>11, <3>2 DEF SessionsExact
    <3> QED
      BY <3>1, <3>2
  <2> QED
    BY <1>1, <1>4, <2>1, <2>2, <2>3 DEF SessionsExact
<1>14. CheckpointExact(m)' /\ RestExact(m)' /\ FileExact(m)'
  <2>1. CheckpointExact(m)'
    BY <1>1, <1>3, <1>6, <1>7, <1>8 DEF CheckpointExact
  <2>2. RestExact(m)'
    BY <1>2, <1>7, <1>8 DEF RestExact, Interrupted
  <2>3. FileExact(m)'
    BY <1>1, <1>2, <1>3, <1>4, <1>6, <1>7, <1>8 DEF FileExact
  <2> QED
    BY <2>1, <2>2, <2>3
<1>15. AgentExact(a)' /\ WorkExact(a)'
  <2>1. act'[a].turn = "none" /\ act'[a].at = "idle"
    BY <1>1, <1>2, <1>4 DEF HandlesExact
  <2> QED
    BY <1>2, <1>4, <1>9, <2>1 DEF AgentExact, WorkExact, Busy
<1>16. "session" \in refused' => prompted' > 0
  BY <1>11
<1> QED
  BY <1>4, <1>10, <1>12, <1>13, <1>14, <1>15, <1>16 DEF Kept

(* memory.append keeps the invariant.                                       *)
LEMMA AppendMessageKeeps ==
  ASSUME Kept, NEW m \in Memories, AppendMessage(m)
  PROVE  Kept'
<1> DEFINE messages == Append(memory[m].messages, <<"app", number + 1>>)
           file == IF slot[m] = None THEN None
                   ELSE [slot[m] EXCEPT !.messages = messages, !.records = persistedRecords(m),
                                        !.revision = persistedRevision(m)]
<1>1. /\ TypeOK /\ HandlesExact /\ SessionsExact
      /\ \A k \in Memories : CheckpointExact(k) /\ RestExact(k) /\ FileExact(k)
      /\ \A b \in Agents : AgentExact(b) /\ WorkExact(b)
  BY DEF Kept
<1>2. /\ memory[m] # None /\ ~failing
      /\ \A b \in Agents : Mem(b) = m => act[b].at = "idle"
  BY DEF AppendMessage, Usable, Unlocked
<1>3. /\ memory[m] \in MemoryState /\ memory[m].messages \in Seq(Messages) /\ Len(memory[m].messages) \in Nat
  BY <1>1, <1>2, MemoryTypes
<1>4. /\ memory' = [memory EXCEPT ![m].messages = messages] /\ slot' = [slot EXCEPT ![m] = file]
      /\ number' = number + 1
      /\ UNCHANGED <<agent, act, retired, failing, session, opened, overlooked, refused, prompted, crashes>>
  BY DEF AppendMessage, executor
<1>5. /\ messages \in Seq(Messages) /\ messages # <<>> /\ Last(messages) = <<"app", number + 1>>
      /\ Len(messages) = Len(memory[m].messages) + 1
  <2>1. <<"app", number + 1>> \in Messages
    BY <1>1 DEF TypeOK, Messages
  <2> QED
    BY <1>3, <2>1, LastAppended, AppendProperties
<1> HIDE DEF messages
<1>6. /\ memory'[m] \in MemoryState /\ memory'[m].messages = messages
      /\ memory'[m].checkpoint = memory[m].checkpoint
      /\ \A k \in Memories \ {m} : memory'[k] = memory[k]
  <2>1. memory'[m] = [memory[m] EXCEPT !.messages = messages] /\ \A k \in Memories \ {m} : memory'[k] = memory[k]
    BY <1>1, <1>4 DEF TypeOK
  <2> QED
    BY <1>3, <1>5, <2>1 DEF MemoryState
<1>7. /\ memory[m].checkpoint = None => persistedRecords(m) = <<>> /\ persistedRevision(m) = 0
      /\ memory[m].checkpoint # None => /\ persistedRecords(m) = memory[m].checkpoint.records
                                        /\ persistedRevision(m) = memory[m].checkpoint.revision
                                        /\ memory[m].checkpoint.records \in Seq(Entries)
                                        /\ memory[m].checkpoint.revision \in Nat
  BY <1>1, <1>2, MemoryTypes DEF persistedRecords, persistedRevision
<1>8. slot[m] # None => memory[m].checkpoint # None
  BY <1>1, <1>2 DEF FileExact
<1>9. /\ file # None <=> slot[m] # None
      /\ file \in SlotState \cup {None}
      /\ file # None => file.messages = messages /\ file.records = persistedRecords(m)
                        /\ file.revision = persistedRevision(m)
  <2>1. CASE slot[m] = None
    BY <2>1
  <2>2. CASE slot[m] # None
    <3>1. slot[m] \in SlotState
      BY <1>1, <2>2, MemoryTypes
    <3>2. file = [slot[m] EXCEPT !.messages = messages, !.records = persistedRecords(m),
                                 !.revision = persistedRevision(m)]
      BY <2>2
    <3> HIDE DEF file
    <3>3. file \in SlotState
      BY <1>5, <1>7, <1>8, <2>2, <3>1, <3>2 DEF SlotState
    <3>4. file.messages = messages /\ file.records = persistedRecords(m)
          /\ file.revision = persistedRevision(m)
      BY <1>8, <2>2, <3>1, <3>2 DEF SlotState
    <3> QED
      BY <2>2, <3>3, <3>4, NotNone
  <2> QED
    BY <2>1, <2>2
<1> HIDE DEF file
<1>10. slot'[m] = file /\ \A k \in Memories \ {m} : slot'[k] = slot[k]
  BY <1>1, <1>4 DEF TypeOK
<1>11. TypeOK'
  <2>1. memory' \in [Memories -> MemoryState \cup {None}]
    <3>1. memory' = [memory EXCEPT ![m] = memory'[m]]
      BY <1>1, <1>4 DEF TypeOK
    <3> QED
      BY <1>1, <1>6, <3>1 DEF TypeOK
  <2>2. slot' \in [Memories -> SlotState \cup {None}]
    BY <1>1, <1>4, <1>9 DEF TypeOK
  <2>3. number' \in Nat
    BY <1>1, <1>4 DEF TypeOK
  <2> QED
    BY <1>1, <1>4, <2>1, <2>2, <2>3 DEF TypeOK
<1>12. \A b \in Agents : Mem(b)' = Mem(b) /\ Exists(b)' = Exists(b) /\ Busy(b)' = Busy(b)
  BY <1>4 DEF Mem, Exists, Busy
<1>13. \A b \in Agents : Exists(b) => Mem(b) \in Memories
  BY <1>1, HandleTypes
<1>14. memory'[m] # None
  BY <1>6, NotNone
<1>15. HandlesExact'
  <2>1. \A b \in Agents :
          /\ ~Exists(b)' => agent'[b] = noAgent /\ act'[b] = noAct /\ retired'[b] = None
          /\ Exists(b)' => memory'[Mem(b)'] # None
          /\ Busy(b)' => /\ Exists(b)' /\ retired'[b] = None
                         /\ Said(b)' # <<>> /\ Last(Said(b))' = <<"in", act'[b].op>>
          /\ act'[b].session # None <=> act'[b].at = "prompting"
          /\ act'[b].turn = "none" <=> act'[b].at # "prompting"
    <3> TAKE b \in Agents
    <3>1. Exists(b) => memory'[Mem(b)] # None
      <4>1. CASE Mem(b) = m
        BY <1>14, <4>1
      <4>2. CASE Mem(b) # m
        BY <1>1, <1>6, <1>13, <4>2 DEF HandlesExact
      <4> QED
        BY <4>1, <4>2
    <3>2. Busy(b) => Exists(b) /\ Mem(b) # m
      BY <1>1, <1>2 DEF HandlesExact, Busy
    <3>3. Busy(b) => Said(b)' = Said(b)
      BY <1>6, <1>12, <1>13, <3>2 DEF Said
    <3> QED
      BY <1>1, <1>4, <1>12, <3>1, <3>2, <3>3 DEF HandlesExact
  <2>2. \A b, c \in Agents : Exists(b)' /\ Mem(b)' = Mem(c)' => b = c
    BY <1>1, <1>12 DEF HandlesExact
  <2>3. \A k \in Memories : memory'[k] = None => slot'[k] = None
    BY <1>1, <1>6, <1>10, <1>14 DEF HandlesExact
  <2>4. memory'[Main] # None /\ (memory'[Main].checkpoint # None => slot'[Main] # None)
    <3>1. CASE m = Main
      BY <1>1, <1>6, <1>9, <1>10, <1>14, <3>1 DEF HandlesExact
    <3>2. CASE m # Main
      BY <1>1, <1>6, <1>10, <3>2, HandleAssumption DEF HandlesExact
    <3> QED
      BY <3>1, <3>2
  <2> QED
    BY <2>1, <2>2, <2>3, <2>4 DEF HandlesExact
<1>16. SessionsExact'
  BY <1>1, <1>4, SessionsFrame
<1>17. ASSUME NEW k \in Memories PROVE CheckpointExact(k)' /\ RestExact(k)' /\ FileExact(k)'
  <2>1. CASE k # m
    <3>1. opened <= opened' /\ (overlooked => overlooked')
      BY <1>1, <1>4 DEF TypeOK
    <3>2. memory'[k] = memory[k] /\ slot'[k] = slot[k]
      BY <1>6, <1>10, <2>1
    <3> QED
      BY <1>1, <1>4, <1>11, <1>12, <3>1, <3>2, MemoryFrame DEF GoesOn, Live
  <2>2. CASE k = m
    <3>1. CheckpointExact(m)'
      <4>1. memory[m].checkpoint # None => memory[m].checkpoint.revision <= Len(messages)
        BY <1>1, <1>2, <1>3, <1>5, <1>7 DEF CheckpointExact
      <4> QED
        BY <1>1, <1>2, <1>4, <1>6, <4>1 DEF CheckpointExact, Live
    <3>2. RestExact(m)'
      BY <1>5, <1>6 DEF RestExact, Interrupted
    <3>3. FileExact(m)'
      <4> SUFFICES ASSUME slot'[m] # None PROVE FileExact(m)'
        BY DEF FileExact
      <4>1. memory[m].checkpoint # None /\ slot[m] # None
        BY <1>8, <1>9, <1>10
      <4>2. IsPrefix(slot'[m].records, memory'[m].checkpoint.records)
        BY <1>6, <1>7, <1>9, <1>10, <4>1, EmptySeq, PrefixOfItself
      <4>3. slot'[m].revision <= Len(slot'[m].messages)
        <5>1. persistedRevision(m) <= Len(messages)
          BY <1>1, <1>2, <1>3, <1>5, <1>7, <4>1 DEF CheckpointExact
        <5> QED
          BY <1>9, <1>10, <5>1
      <4> QED
        BY <1>6, <4>1, <4>2, <4>3 DEF FileExact
    <3> QED
      BY <2>2, <3>1, <3>2, <3>3
  <2> QED
    BY <2>1, <2>2
<1>18. ASSUME NEW b \in Agents PROVE AgentExact(b)' /\ WorkExact(b)'
  <2>1. CASE Mem(b) = m
    <3>1. Checkpoint(b)' = Checkpoint(b)
      BY <1>6, <1>12, <2>1 DEF Checkpoint
    <3>2. act'[b].at = "idle" /\ act'[b] = act[b] /\ agent'[b] = agent[b] /\ session' = session /\ ~Busy(b)
      BY <1>2, <1>4, <2>1 DEF Busy
    <3>3. act'[b].turn = "none"
      BY <1>1, <3>2 DEF HandlesExact
    <3> QED
      BY <1>1, <1>4, <1>12, <3>1, <3>2, <3>3 DEF AgentExact, WorkExact
  <2>2. CASE Mem(b) # m
    BY <1>1, <1>4, <1>6, <1>10, <1>13, <2>2, AgentFrame
  <2> QED
    BY <2>1, <2>2
<1> QED
  BY <1>4, <1>11, <1>15, <1>16, <1>17, <1>18 DEF Kept

-----------------------------------------------------------------------------
(* memory.copy keeps the invariant: two checkpoints may name one session.   *)
LEMMA CopyKeeps ==
  ASSUME Kept, NEW m \in Memories, NEW n \in Memories, Copy(m, n)
  PROVE  Kept'
<1>1. /\ TypeOK /\ HandlesExact /\ SessionsExact
      /\ \A k \in Memories : CheckpointExact(k) /\ RestExact(k) /\ FileExact(k)
      /\ \A b \in Agents : AgentExact(b) /\ WorkExact(b)
  BY DEF Kept
<1>2. /\ memory[m] # None /\ memory[n] = None /\ ~Interrupted(m)
      /\ memory' = [memory EXCEPT ![n] = memory[m]]
      /\ UNCHANGED <<agent, act, retired, failing, session, opened, overlooked, slot, refused, number, prompted, crashes>>
  BY DEF Copy, Usable, executor, bounds
<1>3. slot[n] = None /\ n # Main /\ \A b \in Agents : Mem(b) # n
  BY <1>1, <1>2, NotNone DEF HandlesExact, Exists, Mem
<1>4. memory'[n] = memory[m] /\ \A k \in Memories \ {n} : memory'[k] = memory[k]
  BY <1>1, <1>2 DEF TypeOK
<1>5. TypeOK'
  BY <1>1, <1>2 DEF TypeOK
<1>6. \A b \in Agents : /\ Mem(b)' = Mem(b) /\ Exists(b)' = Exists(b) /\ Busy(b)' = Busy(b)
                        /\ Exists(b) => Mem(b) \in Memories \ {n}
  BY <1>1, <1>2, <1>3, HandleTypes DEF Mem, Exists, Busy
<1>7. HandlesExact'
  <2>1. \A b \in Agents : Exists(b) => memory'[Mem(b)] = memory[Mem(b)] /\ Said(b)' = Said(b)
    BY <1>4, <1>6 DEF Said
  <2>2. \A b \in Agents :
          /\ ~Exists(b)' => agent'[b] = noAgent /\ act'[b] = noAct /\ retired'[b] = None
          /\ Exists(b)' => memory'[Mem(b)'] # None
          /\ Busy(b)' => /\ Exists(b)' /\ retired'[b] = None
                         /\ Said(b)' # <<>> /\ Last(Said(b))' = <<"in", act'[b].op>>
          /\ act'[b].session # None <=> act'[b].at = "prompting"
          /\ act'[b].turn = "none" <=> act'[b].at # "prompting"
    BY <1>1, <1>2, <1>6, <2>1 DEF HandlesExact
  <2>3. \A b, c \in Agents : Exists(b)' /\ Mem(b)' = Mem(c)' => b = c
    BY <1>1, <1>6 DEF HandlesExact
  <2>4. \A k \in Memories : memory'[k] = None => slot'[k] = None
    BY <1>1, <1>2, <1>3, <1>4 DEF HandlesExact
  <2>5. memory'[Main] # None /\ (memory'[Main].checkpoint # None => slot'[Main] # None)
    BY <1>1, <1>2, <1>3, <1>4, HandleAssumption DEF HandlesExact
  <2> QED
    BY <2>2, <2>3, <2>4, <2>5 DEF HandlesExact
<1>8. SessionsExact'
  BY <1>1, <1>2, SessionsFrame
<1>9. ASSUME NEW k \in Memories PROVE CheckpointExact(k)' /\ RestExact(k)' /\ FileExact(k)'
  <2>1. CASE k # n
    <3>1. opened <= opened' /\ (overlooked => overlooked')
      BY <1>1, <1>2 DEF TypeOK
    <3> QED
      BY <1>1, <1>2, <1>4, <1>5, <1>6, <2>1, <3>1, MemoryFrame DEF GoesOn, Live
  <2>2. CASE k = n
    <3>1. CheckpointExact(k)'
      BY <1>1, <1>2, <1>4, <2>2 DEF CheckpointExact, Live
    <3>2. RestExact(k)' /\ FileExact(k)'
      BY <1>2, <1>3, <1>4, <2>2 DEF RestExact, FileExact, Interrupted
    <3> QED
      BY <3>1, <3>2
  <2> QED
    BY <2>1, <2>2
<1>10. ASSUME NEW b \in Agents PROVE AgentExact(b)' /\ WorkExact(b)'
  BY <1>1, <1>2, <1>4, <1>6, AgentFrame
<1> QED
  BY <1>2, <1>5, <1>7, <1>8, <1>9, <1>10 DEF Kept

(* A step that makes an agent on a memory that had none keeps the           *)
(* invariant.                                                               *)
LEMMA AgentAppears ==
  ASSUME Kept, TypeOK', NEW b \in Agents, NEW n \in Memories, ~Exists(b), ~Owned(n), ~failing,
         agent'[b].memory = n, agent'[b].session = None, agent'[b].revision = 0,
         act'[b].session = None, act'[b].turn = "none", act'[b].at \in {"idle", "input"}, ~act'[b].resuming,
         \A c \in Agents \ {b} : agent'[c] = agent[c] /\ act'[c] = act[c],
         memory'[n] # None, \A k \in Memories \ {n} : memory'[k] = memory[k],
         memory[n] = memory'[n] \/ memory[n] = None,
         act'[b].at = "idle" => memory[n] = memory'[n],
         act'[b].at = "input" => /\ memory'[n].messages # <<>>
                                 /\ Last(memory'[n].messages) = <<"in", act'[b].op>>
                                 /\ memory'[n].checkpoint # None =>
                                      memory'[n].checkpoint.revision < Len(memory'[n].messages),
         CheckpointExact(n)',
         UNCHANGED <<retired, failing, session, opened, overlooked, slot, refused, prompted, crashes>>
  PROVE  Kept'
<1>1. /\ TypeOK /\ HandlesExact /\ SessionsExact
      /\ \A k \in Memories : CheckpointExact(k) /\ RestExact(k) /\ FileExact(k)
      /\ \A c \in Agents : AgentExact(c) /\ WorkExact(c)
  BY DEF Kept
<1>2. agent[b] = noAgent /\ act[b] = noAct /\ retired[b] = None /\ n # None
  BY <1>1, NotNone DEF HandlesExact
<1>3. \A c \in Agents : Mem(c) # n
  BY DEF Owned, Mem
<1>4. /\ Mem(b)' = n /\ Exists(b)'
      /\ \A c \in Agents \ {b} : /\ Mem(c)' = Mem(c) /\ Exists(c)' = Exists(c) /\ Busy(c)' = Busy(c)
                                 /\ Exists(c) => Mem(c) \in Memories \ {n}
  BY <1>1, <1>2, <1>3, HandleTypes DEF Mem, Exists, Busy
<1>5. HandlesExact'
  <2>1. \A c \in Agents :
          /\ ~Exists(c)' => agent'[c] = noAgent /\ act'[c] = noAct /\ retired'[c] = None
          /\ Exists(c)' => memory'[Mem(c)'] # None
          /\ Busy(c)' => /\ Exists(c)' /\ retired'[c] = None
                         /\ Said(c)' # <<>> /\ Last(Said(c))' = <<"in", act'[c].op>>
          /\ act'[c].session # None <=> act'[c].at = "prompting"
          /\ act'[c].turn = "none" <=> act'[c].at # "prompting"
    <3> TAKE c \in Agents
    <3>1. CASE c = b
      BY <1>2, <1>4, <3>1 DEF Busy, Said
    <3>2. CASE c # b
      BY <1>1, <1>4, <3>2 DEF HandlesExact, Said
    <3> QED
      BY <3>1, <3>2
  <2>2. \A c, d \in Agents : Exists(c)' /\ Mem(c)' = Mem(d)' => c = d
    <3> SUFFICES ASSUME NEW c \in Agents, NEW d \in Agents, Exists(c)', Mem(c)' = Mem(d)' PROVE c = d
      OBVIOUS
    <3>1. CASE c = b \/ d = b
      BY <1>3, <1>4, <3>1
    <3>2. CASE c # b /\ d # b
      BY <1>1, <1>4, <3>2 DEF HandlesExact
    <3> QED
      BY <3>1, <3>2
  <2>3. \A k \in Memories : memory'[k] = None => slot'[k] = None
    BY <1>1 DEF HandlesExact
  <2>4. memory'[Main] # None /\ (memory'[Main].checkpoint # None => slot'[Main] # None)
    BY <1>1, HandleAssumption DEF HandlesExact
  <2> QED
    BY <2>1, <2>2, <2>3, <2>4 DEF HandlesExact
<1>6. SessionsExact'
  <2>1. \A c \in Agents :
          /\ agent'[c].session = agent[c].session /\ act'[c].session = act[c].session
          /\ retired'[c] = retired[c]
          /\ agent'[c].prompt = agent[c].prompt \/ (agent[c].session = None /\ act[c].session = None)
    BY <1>2 DEF noAgent, noAct
  <2> QED
    BY <1>1, <2>1, SessionsFrame
<1>7. ASSUME NEW k \in Memories PROVE CheckpointExact(k)' /\ RestExact(k)' /\ FileExact(k)'
  <2>1. CASE k # n
    <3>1. opened <= opened' /\ (overlooked => overlooked')
      BY <1>1 DEF TypeOK
    <3>2. \A c \in Agents : (Mem(c)' = k <=> Mem(c) = k) /\ (Mem(c) = k => act'[c].at = act[c].at)
      <4> TAKE c \in Agents
      <4>1. CASE c = b
        BY <1>2, <1>4, <2>1, <4>1, NotNone DEF noAgent, Mem
      <4>2. CASE c # b
        BY <1>4, <4>2
      <4> QED
        BY <4>1, <4>2
    <3> QED
      BY <1>1, <2>1, <3>1, <3>2, MemoryFrame DEF GoesOn, Live
  <2>2. CASE k = n
    <3>1. RestExact(n)'
      <4>1. CASE act'[b].at = "input"
        BY <1>4, <4>1 DEF RestExact, Busy
      <4>2. CASE act'[b].at = "idle"
        BY <1>1, <1>3, <4>2 DEF RestExact, Interrupted
      <4> QED
        BY <4>1, <4>2
    <3>2. FileExact(n)'
      BY <1>1, <1>3 DEF FileExact, HandlesExact
    <3> QED
      BY <2>2, <3>1, <3>2
  <2> QED
    BY <2>1, <2>2
<1>8. ASSUME NEW c \in Agents PROVE AgentExact(c)' /\ WorkExact(c)'
  <2>1. CASE c = b
    <3>1. Checkpoint(c)' = memory'[n].checkpoint /\ Said(c)' = memory'[n].messages
      BY <1>4, <2>1 DEF Checkpoint, Said
    <3> QED
      BY <2>1, <3>1 DEF AgentExact, WorkExact, Busy
  <2>2. CASE c # b
    BY <1>1, <1>4, <2>2, AgentFrame
  <2> QED
    BY <2>1, <2>2
<1> QED
  BY <1>5, <1>6, <1>7, <1>8 DEF Kept

(* agent.with_memory keeps the invariant.                                   *)
LEMMA WithMemoryKeeps ==
  ASSUME Kept, NEW a \in Agents, NEW b \in Agents, NEW n \in Memories, WithMemory(a, b, n)
  PROVE  Kept'
<1> DEFINE new == [noAgent EXCEPT !.memory = n, !.prompt = agent[a].prompt]
<1>1. TypeOK /\ HandlesExact /\ CheckpointExact(n)
  BY DEF Kept
<1>2. /\ ~Exists(b) /\ ~Owned(n) /\ ~failing /\ memory[n] # None
      /\ agent' = [agent EXCEPT ![b] = new]
      /\ UNCHANGED <<memory, act, retired, failing, session, opened, overlooked, slot, refused, number, prompted, crashes>>
  BY DEF WithMemory, Takes, Ready, executor, bounds
<1>3. /\ new \in AgentState /\ new.memory = n /\ new.session = None /\ new.revision = 0
  <2>1. agent[a].prompt \in Prompts \cup {None}
    BY <1>1 DEF TypeOK, AgentState
  <2> QED
    BY <2>1 DEF AgentState, noAgent
<1> HIDE DEF new
<1>4. agent'[b] = new /\ \A c \in Agents \ {b} : agent'[c] = agent[c]
  BY <1>1, <1>2 DEF TypeOK
<1>5. TypeOK'
  BY <1>1, <1>2, <1>3 DEF TypeOK
<1>6. act'[b] = noAct
  BY <1>1, <1>2 DEF HandlesExact
<1>7. CheckpointExact(n)'
  BY <1>1, <1>2 DEF CheckpointExact, Live
<1>8. /\ act'[b].session = None /\ act'[b].turn = "none" /\ act'[b].at = "idle" /\ ~act'[b].resuming
  BY <1>6 DEF noAct
<1> QED
  BY <1>2, <1>3, <1>4, <1>5, <1>7, <1>8, AgentAppears

(* fork keeps the invariant.                                                *)
LEMMA ForkKeeps ==
  ASSUME Kept, NEW a \in Agents, NEW b \in Agents, NEW n \in Memories, Fork(a, b, n)
  PROVE  Kept'
<1> DEFINE new == [noAgent EXCEPT !.memory = n, !.prompt = agent[a].prompt]
           op == number + 1
           messages == Append(Said(a), <<"in", op>>)
           held == [messages |-> messages, checkpoint |-> Checkpoint(a)]
           first == [noAct EXCEPT !.at = "input", !.op = op]
<1>1. TypeOK /\ HandlesExact /\ \A k \in Memories : CheckpointExact(k)
  BY DEF Kept
<1>2. /\ Exists(a) /\ ~Exists(b) /\ ~failing /\ memory[n] = None
      /\ agent' = [agent EXCEPT ![b] = new] /\ memory' = [memory EXCEPT ![n] = held]
      /\ act' = [act EXCEPT ![b] = first] /\ number' = op
      /\ UNCHANGED <<retired, failing, session, opened, overlooked, slot, refused, prompted, crashes>>
  BY DEF Fork, Takes, Ready, executor, bounds
<1>3. /\ new \in AgentState /\ new.memory = n /\ new.session = None /\ new.revision = 0
  <2>1. agent[a].prompt \in Prompts \cup {None}
    BY <1>1 DEF TypeOK, AgentState
  <2> QED
    BY <2>1 DEF AgentState, noAgent
<1>4. /\ Mem(a) \in Memories /\ memory[Mem(a)] # None /\ Said(a) \in Seq(Messages) /\ Len(Said(a)) \in Nat
      /\ Checkpoint(a) \in CheckpointState \cup {None}
  BY <1>1, <1>2, HandleTypes DEF HandlesExact
<1>5. op \in Nat /\ <<"in", op>> \in Messages
  BY <1>1 DEF TypeOK, Messages
<1>6. /\ messages \in Seq(Messages) /\ messages # <<>> /\ Last(messages) = <<"in", op>>
      /\ Len(messages) = Len(Said(a)) + 1
  BY <1>4, <1>5, LastAppended, AppendProperties
<1>7. /\ first \in Activation /\ first.session = None /\ first.turn = "none" /\ first.at = "input"
      /\ ~first.resuming /\ first.op = op
  BY <1>5 DEF noAct, Activation
<1> HIDE DEF new, op, messages, first
<1>8. held \in MemoryState /\ held # None /\ held.messages = messages /\ held.checkpoint = Checkpoint(a)
  BY <1>4, <1>6, NotNone DEF MemoryState
<1> HIDE DEF held
<1>9. /\ agent'[b] = new /\ \A c \in Agents \ {b} : agent'[c] = agent[c] /\ act'[c] = act[c]
      /\ act'[b] = first /\ memory'[n] = held /\ \A k \in Memories \ {n} : memory'[k] = memory[k]
  BY <1>1, <1>2 DEF TypeOK
<1>10. TypeOK'
  <2>1. agent' \in [Agents -> AgentState] /\ act' \in [Agents -> Activation]
    BY <1>1, <1>2, <1>3, <1>7 DEF TypeOK
  <2>2. memory' \in [Memories -> MemoryState \cup {None}]
    BY <1>1, <1>2, <1>8 DEF TypeOK
  <2> QED
    BY <1>1, <1>2, <1>5, <2>1, <2>2 DEF TypeOK
<1>11. ~Owned(n)
  BY <1>1, <1>2, NotNone DEF HandlesExact, Owned, Exists, Mem
<1>12. Checkpoint(a) # None => Checkpoint(a).revision <= Len(Said(a)) /\ Checkpoint(a).revision \in Nat
  BY <1>1, <1>4, MemoryTypes DEF CheckpointExact, Checkpoint, Said
<1>13. CheckpointExact(n)'
  <2>1. CheckpointExact(Mem(a))
    BY <1>1, <1>4
  <2>2. Checkpoint(a) # None => Checkpoint(a).revision <= Len(messages)
    BY <1>4, <1>6, <1>12
  <2> QED
    BY <1>2, <1>4, <1>8, <1>9, <2>1, <2>2 DEF CheckpointExact, Live, Checkpoint
<1>14. held.checkpoint # None => held.checkpoint.revision < Len(held.messages)
  BY <1>4, <1>6, <1>8, <1>12
<1> QED
  BY <1>2, <1>3, <1>6, <1>7, <1>8, <1>9, <1>10, <1>11, <1>13, <1>14, AgentAppears

-----------------------------------------------------------------------------
(* What is chosen by kinds is of these kinds.                               *)
LEMMA ChosenSatisfies ==
  ASSUME NEW S, NEW s \in Seq(S), NEW kinds
  PROVE  OfKind(s, kinds) \in Seq({x \in S : x[1] \in kinds})
<1> DEFINE kept == {i \in DOMAIN s : s[i][1] \in kinds}
           T == {x \in S : x[1] \in kinds}
<1>1. Len(s) \in Nat /\ \A i \in 1..Len(s) : i \in kept => s[i] \in T
  BY LenProperties, ElementOfSeq
<1> HIDE DEF kept, T
<1>2. Chosen(s, kept) \in Seq(T)
  BY <1>1, ChosenType
<1> QED
  BY <1>2 DEF OfKind, kept, T

(* A crash keeps the invariant: every memory that has a file is loaded from *)
(* it, and no agent has a session.                                          *)
LEMMA CrashKeeps ==
  ASSUME Kept, Crash
  PROVE  Kept'
<1>1. /\ TypeOK /\ HandlesExact /\ SessionsExact
      /\ \A k \in Memories : CheckpointExact(k) /\ RestExact(k) /\ FileExact(k)
      /\ \A b \in Agents : AgentExact(b) /\ WorkExact(b)
  BY DEF Kept
<1> DEFINE point(m) == [session |-> None, leaf |-> 0, prompt |-> None,
                        records |-> Loaded(m), revision |-> Len(slot[m].messages)]
           loaded(m) == [messages |-> slot[m].messages, checkpoint |-> point(m)]
           again(m) == [memory[m] EXCEPT !.messages = OfKind(@, {"app"})]
           remains(b) == [agent[b] EXCEPT !.session = None, !.leaf = 0, !.revision = 0]
<1>2. /\ ~failing /\ crashes' = crashes + 1
      /\ session' = [s \in 1..MaxSessions |-> None]
      /\ act' = [b \in Agents |-> noAct] /\ retired' = [b \in Agents |-> None]
      /\ memory' = [m \in Memories |-> IF slot[m] # None THEN loaded(m)
                                       ELSE IF m = Main /\ memory[m] # None THEN again(m) ELSE None]
      /\ agent' = [b \in Agents |-> IF Exists(b) /\ (slot[Mem(b)] # None \/ Mem(b) = Main)
                                    THEN remains(b) ELSE noAgent]
      /\ UNCHANGED <<failing, opened, overlooked, slot, refused, number, prompted>>
  BY <1>1 DEF Crash, TypeOK
<1>3. ASSUME NEW m \in Memories, slot[m] # None
      PROVE  /\ memory'[m] \in MemoryState /\ memory'[m] # None /\ memory'[m].messages = slot[m].messages
             /\ memory'[m].checkpoint # None /\ memory'[m].checkpoint.session = None
             /\ memory'[m].checkpoint.revision = Len(slot[m].messages)
             /\ IsPrefix(slot[m].records, memory'[m].checkpoint.records)
  <2>1. /\ slot[m].messages \in Seq(Messages) /\ slot[m].records \in Seq(Entries) /\ slot[m].revision \in Nat
        /\ Len(slot[m].messages) \in Nat
    BY <1>1, <1>3, MemoryTypes DEF FileExact
  <2>2. Behind(slot[m]) \in Seq(Entries)
    <3>1. slot[m].revision + 1 \in Nat \ {0} /\ Len(slot[m].messages) \in Int
      BY <2>1
    <3>2. Behind(slot[m]) \in Seq(Messages)
      BY <2>1, <3>1, Part DEF Behind
    <3> QED
      BY <3>2, SeqMonotonic, MessagesAreEntries
  <2>3. Loaded(m) \in Seq(Entries) /\ IsPrefix(slot[m].records, Loaded(m))
    BY <2>1, <2>2, PrefixOfItself, ConcatProperties DEF Loaded
  <2>4. point(m) \in CheckpointState /\ point(m) # None
    BY <2>1, <2>3, NotNone DEF CheckpointState
  <2>5. memory'[m] = loaded(m)
    BY <1>2, <1>3
  <2>6. loaded(m).messages = slot[m].messages /\ loaded(m).checkpoint = point(m)
    BY <2>1
  <2>7. point(m).session = None /\ point(m).revision = Len(slot[m].messages) /\ point(m).records = Loaded(m)
    OBVIOUS
  <2>8. loaded(m) \in MemoryState /\ loaded(m) # None
    BY <2>1, <2>4, NotNone DEF MemoryState
  <2> HIDE DEF point, loaded
  <2> QED
    BY <2>3, <2>4, <2>5, <2>6, <2>7, <2>8
<1>4. ASSUME slot[Main] = None
      PROVE  /\ memory'[Main] \in MemoryState /\ memory'[Main] # None /\ memory'[Main].checkpoint = None
             /\ memory'[Main].messages \in Seq({x \in Messages : x[1] \in {"app"}})
  <2>1. memory[Main] # None /\ memory[Main].checkpoint = None /\ memory[Main] \in MemoryState
    BY <1>1, <1>4, MemoryTypes, HandleAssumption DEF HandlesExact
  <2>2. memory'[Main] = again(Main)
    BY <1>2, <1>4, <2>1, HandleAssumption
  <2>3. memory[Main].messages \in Seq(Messages)
    BY <2>1 DEF MemoryState
  <2> DEFINE messages == OfKind(memory[Main].messages, {"app"})
  <2>4. messages \in Seq({x \in Messages : x[1] \in {"app"}})
    BY <2>3, ChosenSatisfies
  <2> HIDE DEF messages
  <2>5. messages \in Seq(Messages)
    BY <2>4, SeqMonotonic
  <2>6. /\ again(Main) \in MemoryState /\ again(Main).messages = messages
        /\ again(Main).checkpoint = memory[Main].checkpoint
    BY <2>1, <2>5 DEF MemoryState, messages
  <2> HIDE DEF again
  <2> QED
    BY <2>1, <2>2, <2>4, <2>6, NotNone
<1> HIDE DEF point, loaded, again
<1>5. \A m \in Memories : slot[m] = None /\ m # Main => memory'[m] = None
  BY <1>2
<1>6. ASSUME NEW b \in Agents
      PROVE  /\ act'[b] = noAct /\ retired'[b] = None /\ agent'[b].session = None /\ agent'[b].revision = 0
             /\ agent'[b] \in AgentState
             /\ Exists(b)' => Exists(b) /\ Mem(b)' = Mem(b) /\ Mem(b) \in Memories /\ memory'[Mem(b)] # None
             /\ ~Exists(b)' => agent'[b] = noAgent
  <2>1. act'[b] = noAct /\ retired'[b] = None
    BY <1>2
  <2>2. CASE Exists(b) /\ (slot[Mem(b)] # None \/ Mem(b) = Main)
    <3>1. agent'[b] = remains(b) /\ agent[b] \in AgentState /\ Mem(b) \in Memories
      BY <1>1, <1>2, <2>2, HandleTypes
    <3>2. /\ remains(b) \in AgentState /\ remains(b).session = None /\ remains(b).revision = 0
          /\ remains(b).memory = Mem(b)
      BY <3>1 DEF AgentState, Mem
    <3> HIDE DEF remains
    <3>3. memory'[Mem(b)] # None
      BY <1>3, <1>4, <2>2, <3>1
    <3> QED
      BY <2>1, <2>2, <3>1, <3>2, <3>3 DEF Mem, Exists
  <2>3. CASE ~(Exists(b) /\ (slot[Mem(b)] # None \/ Mem(b) = Main))
    <3>1. agent'[b] = noAgent
      BY <1>2, <2>3
    <3> QED
      BY <2>1, <3>1 DEF noAgent, AgentState, Exists
  <2> QED
    BY <2>2, <2>3
<1>7. TypeOK'
  <2>1. agent' \in [Agents -> AgentState]
    BY <1>2, <1>6
  <2>2. memory' \in [Memories -> MemoryState \cup {None}]
    <3>1. \A m \in Memories : memory'[m] \in MemoryState \cup {None}
      BY <1>3, <1>4, <1>5
    <3> QED
      BY <1>2, <3>1
  <2>3. act' \in [Agents -> Activation]
    BY <1>2 DEF noAct, Activation
  <2>4. session' \in [1..MaxSessions -> SessionState \cup {None}]
    BY <1>2
  <2>5. retired' \in [Agents -> (1..MaxSessions) \cup {None}]
    BY <1>2
  <2>6. crashes' \in Nat
    <3>1. crashes \in Nat
      BY <1>1 DEF TypeOK
    <3>2. crashes' = crashes + 1
      BY <1>2
    <3> QED
      BY <3>1, <3>2
  <2> QED
    BY <1>1, <1>2, <2>1, <2>2, <2>3, <2>4, <2>5, <2>6 DEF TypeOK
<1>8. HandlesExact'
  <2>1. \A b \in Agents :
          /\ ~Exists(b)' => agent'[b] = noAgent /\ act'[b] = noAct /\ retired'[b] = None
          /\ Exists(b)' => memory'[Mem(b)'] # None
          /\ Busy(b)' => /\ Exists(b)' /\ retired'[b] = None
                         /\ Said(b)' # <<>> /\ Last(Said(b))' = <<"in", act'[b].op>>
          /\ act'[b].session # None <=> act'[b].at = "prompting"
          /\ act'[b].turn = "none" <=> act'[b].at # "prompting"
    <3> TAKE b \in Agents
    <3>1. act'[b].session = None /\ act'[b].at = "idle" /\ act'[b].turn = "none" /\ ~Busy(b)'
      BY <1>6 DEF noAct, Busy
    <3> QED
      BY <1>6, <3>1
  <2>2. \A b, c \in Agents : Exists(b)' /\ Mem(b)' = Mem(c)' => b = c
    <3> SUFFICES ASSUME NEW b \in Agents, NEW c \in Agents, Exists(b)', Mem(b)' = Mem(c)' PROVE b = c
      OBVIOUS
    <3>1. Exists(c)'
      BY DEF Exists, Mem
    <3> QED
      BY <1>1, <1>6, <3>1 DEF HandlesExact
  <2>3. \A m \in Memories : memory'[m] = None => slot'[m] = None
    BY <1>2, <1>3
  <2>4. memory'[Main] # None /\ (memory'[Main].checkpoint # None => slot'[Main] # None)
    BY <1>2, <1>3, <1>4, HandleAssumption
  <2> QED
    BY <2>1, <2>2, <2>3, <2>4 DEF HandlesExact
<1>9. SessionsExact'
  <2>1. \A s \in 1..MaxSessions : ~Live(s)'
    BY <1>2 DEF Live
  <2>2. \A b \in Agents : \A s \in 1..MaxSessions : ~Uses(b, s)'
    BY <1>6, NotNone DEF Uses, noAct
  <2> QED
    BY <1>6, <2>1, <2>2 DEF SessionsExact, noAct
<1>10. ASSUME NEW m \in Memories PROVE CheckpointExact(m)' /\ RestExact(m)' /\ FileExact(m)'
  <2>1. CASE slot[m] # None
    <3>1. /\ slot[m].revision <= Len(slot[m].messages) /\ Len(slot[m].messages) \in Nat
      BY <1>1, <2>1, MemoryTypes DEF FileExact
    <3>2. slot'[m] = slot[m]
      BY <1>2
    <3>3. CheckpointExact(m)' /\ RestExact(m)'
      BY <1>3, <2>1, <3>1 DEF CheckpointExact, RestExact
    <3>4. FileExact(m)'
      BY <1>3, <2>1, <3>1, <3>2 DEF FileExact
    <3> QED
      BY <3>3, <3>4
  <2>2. CASE slot[m] = None /\ m = Main
    <3>1. Interrupted(m)' => FALSE
      <4> SUFFICES ASSUME memory'[m].messages # <<>>, Last(memory'[m].messages)[1] = "in" PROVE FALSE
        BY DEF Interrupted
      <4>1. Last(memory'[m].messages) \in {x \in Messages : x[1] \in {"app"}}
        BY <1>4, <2>2, LastIn
      <4> QED
        BY <4>1
    <3> QED
      BY <1>2, <1>4, <2>2, <3>1 DEF CheckpointExact, RestExact, FileExact
  <2>3. CASE slot[m] = None /\ m # Main
    BY <1>2, <1>5, <2>3 DEF CheckpointExact, RestExact, FileExact
  <2> QED
    BY <2>1, <2>2, <2>3
<1>11. ASSUME NEW b \in Agents PROVE AgentExact(b)' /\ WorkExact(b)'
  BY <1>6 DEF AgentExact, WorkExact, Busy, noAct
<1> QED
  BY <1>2, <1>7, <1>8, <1>9, <1>10, <1>11 DEF Kept

-----------------------------------------------------------------------------
(* The invariant holds at the start.                                        *)
LEMMA KeptInit ==
  ASSUME Init
  PROVE  Kept
<1> DEFINE p == CHOOSE p \in Prompts : TRUE
<1>1. p \in Prompts
  BY HandleAssumption
<1>2. /\ agent = [a \in Agents |-> IF a = First THEN [noAgent EXCEPT !.memory = Main, !.prompt = p] ELSE noAgent]
      /\ memory = [m \in Memories |-> IF m = Main THEN noMemory ELSE None]
      /\ act = [a \in Agents |-> noAct] /\ retired = [a \in Agents |-> None] /\ failing = FALSE
      /\ session = [s \in 1..MaxSessions |-> None] /\ opened = 0 /\ overlooked = FALSE
      /\ slot = [m \in Memories |-> None] /\ refused = {}
      /\ number = 0 /\ prompted = 0 /\ crashes = 0
  BY DEF Init
<1> HIDE DEF p
<1>3. /\ Main # None /\ Main \in Memories /\ noMemory \in MemoryState /\ noMemory # None
      /\ noMemory.checkpoint = None /\ noMemory.messages = <<>>
  <2>1. noMemory \in MemoryState /\ noMemory.checkpoint = None /\ noMemory.messages = <<>>
    BY DEF noMemory, MemoryState
  <2> QED
    BY <2>1, HandleAssumption, NotNone
<1>4. \A a \in Agents : /\ agent[a] \in AgentState /\ agent[a].session = None /\ agent[a].revision = 0
                        /\ Exists(a) => a = First /\ Mem(a) = Main
                        /\ ~Exists(a) => agent[a] = noAgent
                        /\ act[a] = noAct /\ retired[a] = None
  <2> TAKE a \in Agents
  <2>1. CASE a = First
    BY <1>1, <1>2, <1>3, <2>1 DEF noAgent, AgentState, Exists, Mem
  <2>2. CASE a # First
    BY <1>1, <1>2, <1>3, <2>2 DEF noAgent, AgentState, Exists, Mem
  <2> QED
    BY <2>1, <2>2
<1>5. TypeOK
  <2>1. agent \in [Agents -> AgentState]
    BY <1>2, <1>4
  <2>2. act \in [Agents -> Activation]
    BY <1>2 DEF noAct, Activation
  <2>3. memory \in [Memories -> MemoryState \cup {None}]
    BY <1>2, <1>3
  <2>4. opened \in 0..MaxSessions
    BY <1>2, BoundAssumption
  <2> QED
    BY <1>2, <2>1, <2>2, <2>3, <2>4 DEF TypeOK
<1>6. HandlesExact
  <2>1. memory[Main] = noMemory
    BY <1>2, <1>3
  <2> QED
    BY <1>2, <1>3, <1>4, <2>1 DEF HandlesExact, Busy, noAct, Exists, Mem
<1>7. SessionsExact
  BY <1>2, <1>4, NotNone DEF SessionsExact, Live, Uses, noAct
<1>8. ASSUME NEW m \in Memories PROVE CheckpointExact(m) /\ RestExact(m) /\ FileExact(m)
  BY <1>2, <1>3 DEF CheckpointExact, RestExact, FileExact, Interrupted
<1>9. ASSUME NEW a \in Agents PROVE AgentExact(a) /\ WorkExact(a)
  BY <1>4 DEF AgentExact, WorkExact, Busy, noAct
<1> QED
  BY <1>2, <1>5, <1>6, <1>7, <1>8, <1>9 DEF Kept

(* Every step keeps the invariant.                                          *)
LEMMA KeptStep ==
  ASSUME Kept, [Next]_vars
  PROVE  Kept'
<1>1. CASE UNCHANGED vars
  <2>1. /\ TypeOK /\ HandlesExact /\ SessionsExact
        /\ \A m \in Memories : CheckpointExact(m) /\ RestExact(m) /\ FileExact(m)
        /\ \A a \in Agents : AgentExact(a) /\ WorkExact(a)
    BY DEF Kept
  <2>2. UNCHANGED <<agent, memory, act, retired, failing, session, opened, overlooked, slot, refused, number, prompted, crashes>>
    BY <1>1 DEF vars, vm, executor, bounds
  <2>3. TypeOK' /\ HandlesExact'
    BY <2>1, <2>2 DEF TypeOK, HandlesExact, Busy, Exists, Mem, Said
  <2>4. SessionsExact'
    BY <2>1, <2>2, SessionsFrame
  <2>5. ASSUME NEW m \in Memories PROVE CheckpointExact(m)' /\ RestExact(m)' /\ FileExact(m)'
    <3>1. opened <= opened' /\ (overlooked => overlooked') /\ \A b \in Agents : Mem(b)' = Mem(b)
      BY <2>1, <2>2 DEF TypeOK, Mem
    <3> QED
      BY <2>1, <2>2, <2>3, <3>1, MemoryFrame DEF GoesOn, Live
  <2>6. ASSUME NEW a \in Agents PROVE AgentExact(a)' /\ WorkExact(a)'
    BY <2>1, <2>2, AgentFrame
  <2> QED
    BY <2>2, <2>3, <2>4, <2>5, <2>6 DEF Kept
<1>2. ASSUME NEW a \in Agents, Do(a) \/ Step(a) \/ ActivationFails(a) PROVE Kept'
  BY <1>2, DoKeeps, RestoredKeeps, ForkLiveKeeps, ForkMissingKeeps, ImportSessionKeeps, BeginKeeps,
     ExecuteNewKeeps, ExecuteSessionKeeps, TurnKeeps, ReturnKeeps, CloseRetiredKeeps, ActivationFailsKeeps DEF Step
<1>3. ASSUME NEW a \in Agents, NEW b \in Agents, NEW n \in Memories, WithMemory(a, b, n) \/ Fork(a, b, n)
      PROVE  Kept'
  BY <1>3, WithMemoryKeeps, ForkKeeps
<1> QED
  BY <1>1, <1>2, <1>3, SystemPromptKeeps, CopyKeeps, AppendMessageKeeps, CrashKeeps DEF Next

(* What the VM, the executor and the store keep of sessions agrees at every *)
(* moment, for any number of agents, memories, sessions and crashes.        *)
THEOREM KeptAlways == Spec => []Kept
<1>1. Init => Kept
  BY KeptInit
<1>2. Kept /\ [Next]_vars => Kept'
  BY KeptStep
<1> QED
  BY <1>1, <1>2, PTL DEF Spec

(* The invariant implies that the file can replace the session.             *)
LEMMA JournalFromKept ==
  ASSUME Kept
  PROVE  JournalExact
<1>1. /\ TypeOK /\ HandlesExact
      /\ \A m \in Memories : FileExact(m)
      /\ \A b \in Agents : WorkExact(b)
  BY DEF Kept
<1>2. ASSUME NEW a \in Agents, InPrompt(a), ~overlooked
      PROVE  /\ Loaded(Mem(a)) = Native(a).entries
             /\ slot[Mem(a)].messages = Said(a) \o Given(a)
  <2>1. act[a].at = "prompting" /\ act[a].turn # "prompt"
    BY <1>2 DEF InPrompt
  <2>2. Mem(a) \in Memories
    BY <1>1, <2>1, HandleTypes DEF HandlesExact, Busy
  <2>3. /\ slot[Mem(a)] # None /\ slot[Mem(a)].records = session[act[a].session].entries
        /\ slot[Mem(a)].messages = Said(a) \o Given(a)
        /\ slot[Mem(a)].revision = Len(slot[Mem(a)].messages)
    BY <1>1, <1>2, <2>1 DEF WorkExact
  <2>4. /\ slot[Mem(a)].records \in Seq(Entries) /\ Len(slot[Mem(a)].messages) \in Nat
    BY <1>1, <2>2, <2>3, MemoryTypes DEF FileExact
  <2>5. Behind(slot[Mem(a)]) = <<>>
    BY <2>3, <2>4, SubSeqEmpty DEF Behind
  <2>6. Loaded(Mem(a)) = slot[Mem(a)].records
    BY <2>4, <2>5, ConcatEmptySeq DEF Loaded
  <2> QED
    BY <2>3, <2>6 DEF Native
<1> QED
  BY <1>2 DEF JournalExact, Kept

(* The file can replace the session at any moment: what the store would     *)
(* load is entry for entry what the executor has, and its messages are those *)
(* of the memory with the final text the model has given, accepted or not,  *)
(* until a session goes on over entries that no event had recorded.  No     *)
(* write is ever refused as not append-only, and none before that for its   *)
(* count.                                                                   *)
THEOREM FileReplacesSession == Spec => []JournalExact
BY KeptAlways, JournalFromKept, PTL

(* The invariant implies that every live session has one holder.            *)
LEMMA OwnedFromKept ==
  ASSUME Kept
  PROVE  SessionsOwned
<1>1. TypeOK /\ HandlesExact /\ SessionsExact
  BY DEF Kept
<1>2. ASSUME NEW s \in 1..MaxSessions
      PROVE  Cardinality(Holders(s)) = IF session[s] = None THEN 0 ELSE 1
  <2>1. CASE session[s] = None
    <3>1. \A a \in Agents : ~Uses(a, s)
      BY <1>1, <2>1 DEF SessionsExact, Live
    <3>2. Holders(s) = {}
      BY <3>1 DEF Holders, Uses
    <3> QED
      BY <2>1, <3>2, FS_EmptySet
  <2>2. CASE session[s] # None
    <3>1. PICK a \in Agents : Uses(a, s)
      BY <1>1, <2>2 DEF SessionsExact, Live
    <3>2. \A b \in Agents : Uses(b, s) => b = a
      BY <1>1, <3>1 DEF SessionsExact
    <3>3. s # None
      BY NotNone
    <3>4. CASE retired[a] = s
      <4>1. agent[a].session = None /\ act[a].session = None
        BY <1>1, <3>3, <3>4 DEF SessionsExact, HandlesExact, Busy
      <4>2. Holders(s) = {<<a, "retired">>}
        BY <3>2, <3>3, <3>4, <4>1 DEF Holders, Uses
      <4> QED
        BY <2>2, <4>2, FS_Singleton
    <3>5. CASE retired[a] # s
      <4>1. Holders(s) = {<<a, "agent">>}
        BY <3>1, <3>2, <3>5 DEF Holders, Uses
      <4> QED
        BY <2>2, <4>1, FS_Singleton
    <3> QED
      BY <3>4, <3>5
  <2> QED
    BY <2>1, <2>2
<1>3. DOMAIN session = 1..MaxSessions
  BY <1>1 DEF TypeOK
<1> QED
  BY <1>2, <1>3 DEF SessionsOwned, Kept

(* No session is shared, left behind or closed under its agent, and no      *)
(* activation finds its own session closed or of another prompt.            *)
THEOREM NoSessionShared == Spec => []SessionsOwned
BY KeptAlways, OwnedFromKept, PTL


-----------------------------------------------------------------------------
\* What entries stand for.
StatedOf(s) == [i \in DOMAIN s |-> Stated(s[i])]
CountOf(s, op) == {i \in DOMAIN s : Counts(s, i, op)}

(* The entries of a session, each as the message it stands for.             *)
LEMMA StatedAll ==
  ASSUME NEW s \in Seq(Entries)
  PROVE  /\ StatedOf(s) \in Seq(Entries) /\ Len(StatedOf(s)) = Len(s)
         /\ \A i \in 1..Len(s) : StatedOf(s)[i] = Stated(s[i])
<1>1. Len(s) \in Nat /\ DOMAIN s = 1..Len(s) /\ \A i \in 1..Len(s) : s[i] \in Entries
  BY LenProperties, ElementOfSeq
<1>2. \A x \in Entries : Stated(x) \in Entries
  BY DEF Stated, Entries
<1>3. StatedOf(s) \in [1..Len(s) -> Entries]
  BY <1>1, <1>2 DEF StatedOf
<1>4. StatedOf(s) \in Seq(Entries)
  BY <1>1, <1>3
<1>5. Len(StatedOf(s)) = Len(s)
  BY <1>1, <1>3, <1>4, LenProperties
<1> QED
  BY <1>1, <1>4, <1>5 DEF StatedOf

(* Whether one more entry adds to the conversation.                          *)
Adds(s, x, op) == /\ x[1] \in {"in", "app", "out", "text", "fin"}
                  /\ x \notin {"out", "text", "fin"} \X {op}
                  /\ x[1] = "fin" => ~Has(s, x) /\ ~Has(s, <<"text", x[2]>>)

(* One more entry, after entries that count as they did.                    *)
LEMMA ConvGrows ==
  ASSUME NEW s \in Seq(Entries), NEW x \in Entries, NEW o, NEW p,
         \A i \in 1..Len(s) : Counts(Append(s, x), i, p) <=> Counts(s, i, o)
  PROVE  Conversation(Append(s, x), p) =
           IF Counts(Append(s, x), Len(s) + 1, p) THEN Append(Conversation(s, o), Stated(x))
           ELSE Conversation(s, o)
<1> DEFINE t == Append(s, x)
           n == Len(s)
<1>1. /\ n \in Nat /\ t \in Seq(Entries) /\ Len(t) = n + 1 /\ t[n + 1] = x
      /\ \A i \in 1..n : t[i] = s[i]
      /\ DOMAIN t = 1..(n + 1) /\ DOMAIN s = 1..n
  BY AppendProperties, LenProperties
<1>0. \A i \in 1..n : Counts(t, i, p) <=> Counts(s, i, o)
  OBVIOUS
<1> HIDE DEF t
<1>2. Stated(x) \in Entries
  BY DEF Stated, Entries
<1>3. StatedOf(t) = Append(StatedOf(s), Stated(x))
  <2> DEFINE u == StatedOf(s)
             v == Append(u, Stated(x))
  <2>1. u \in Seq(Entries) /\ Len(u) = n /\ \A i \in 1..n : u[i] = Stated(s[i])
    BY StatedAll
  <2>2. /\ StatedOf(t) \in Seq(Entries) /\ Len(StatedOf(t)) = n + 1
        /\ \A i \in 1..(n + 1) : StatedOf(t)[i] = Stated(t[i])
    BY <1>1, StatedAll
  <2> HIDE DEF u
  <2>3. v \in Seq(Entries) /\ Len(v) = n + 1 /\ v[n + 1] = Stated(x) /\ \A i \in 1..n : v[i] = u[i]
    BY <1>2, <2>1, AppendProperties
  <2> HIDE DEF v
  <2>4. \A i \in 1..(n + 1) : v[i] = StatedOf(t)[i]
    <3> TAKE i \in 1..(n + 1)
    <3>1. i \in 1..n \/ i = n + 1
      BY <1>1
    <3> QED
      BY <1>1, <2>1, <2>2, <2>3, <3>1
  <2>5. StatedOf(t) = v
    BY <2>2, <2>3, <2>4, SeqEqual
  <2> QED
    BY <2>5 DEF v, u
<1>4. \A i \in 1..n : i \in CountOf(t, p) <=> i \in CountOf(s, o)
  <2> TAKE i \in 1..n
  <2>1. i \in 1..(n + 1)
    BY <1>1
  <2> QED
    BY <1>0, <1>1, <2>1 DEF CountOf
<1>5. n + 1 \in CountOf(t, p) <=> Counts(t, n + 1, p)
  <2>1. n + 1 \in 1..(n + 1)
    BY <1>1
  <2> QED
    BY <1>1, <2>1 DEF CountOf
<1>6. Chosen(StatedOf(s), CountOf(t, p)) = Chosen(StatedOf(s), CountOf(s, o))
  <2>1. Len(StatedOf(s)) = n
    BY StatedAll
  <2> QED
    BY <1>1, <1>4, <2>1, ChosenSame
<1>7. Chosen(Append(StatedOf(s), Stated(x)), CountOf(t, p)) =
        IF n + 1 \in CountOf(t, p) THEN Append(Chosen(StatedOf(s), CountOf(t, p)), Stated(x))
        ELSE Chosen(StatedOf(s), CountOf(t, p))
  <2>1. StatedOf(s) \in Seq(Entries) /\ Len(StatedOf(s)) = n
    BY StatedAll
  <2> DEFINE u == StatedOf(s)
             y == Stated(x)
             kept == CountOf(t, p)
  <2>2. u \in Seq(Entries) /\ Len(u) = n /\ y \in Entries
    BY <1>2, <2>1
  <2> HIDE DEF u, y, kept
  <2>3. Chosen(Append(u, y), kept) = IF n + 1 \in kept THEN Append(Chosen(u, kept), y) ELSE Chosen(u, kept)
    BY <2>2, ChosenAppend
  <2> QED
    BY <2>3 DEF u, y, kept
<1>8. /\ Conversation(t, p) = Chosen(StatedOf(t), CountOf(t, p))
      /\ Conversation(s, o) = Chosen(StatedOf(s), CountOf(s, o))
  BY DEF Conversation, StatedOf, CountOf
<1>9. Conversation(t, p) = IF Counts(t, n + 1, p) THEN Append(Conversation(s, o), Stated(x)) ELSE Conversation(s, o)
  BY <1>3, <1>5, <1>6, <1>7, <1>8
<1> QED
  BY <1>9 DEF t

(* One more entry adds its message to the conversation, or nothing.         *)
LEMMA ConvAppend ==
  ASSUME NEW s \in Seq(Entries), NEW x \in Entries, NEW op,
         x[1] = "text" /\ x[2] # op => ~Has(s, <<"fin", x[2]>>)
  PROVE  Conversation(Append(s, x), op) =
           IF Adds(s, x, op) THEN Append(Conversation(s, op), Stated(x)) ELSE Conversation(s, op)
<1> DEFINE t == Append(s, x)
           n == Len(s)
<1>1. /\ n \in Nat /\ Len(t) = n + 1 /\ t[n + 1] = x
      /\ \A i \in 1..n : t[i] = s[i] /\ s[i] \in Entries
      /\ DOMAIN t = 1..(n + 1) /\ DOMAIN s = 1..n
  BY AppendProperties, LenProperties, ElementOfSeq
<1> HIDE DEF t
<1>2. \A i \in 1..n : Counts(t, i, op) <=> Counts(s, i, op)
  <2> TAKE i \in 1..n
  <2>1. i \in 1..(n + 1) /\ t[i] = s[i] /\ n + 1 >= i /\ n + 1 \in 1..(n + 1)
    BY <1>1
  <2>2. s[i][1] = "fin" => x # <<"text", s[i][2]>> \/ s[i] \in {"out", "text", "fin"} \X {op}
    <3> SUFFICES ASSUME s[i][1] = "fin", x = <<"text", s[i][2]>>, s[i] \notin {"out", "text", "fin"} \X {op}
                 PROVE FALSE
      OBVIOUS
    <3>1. s[i] = <<"fin", x[2]>> /\ x[1] = "text" /\ x[2] # op
      BY <1>1 DEF Entries
    <3> QED
      BY <1>1, <3>1 DEF Has
  <2>3. \A j \in 1..(n + 1) : j \in 1..n \/ j = n + 1
    BY <1>1
  <2>4. \A j \in 1..n : j \in 1..(n + 1)
    BY <1>1
  <2> QED
    BY <1>1, <2>1, <2>2, <2>3, <2>4 DEF Counts
<1>3. Counts(t, n + 1, op) <=> Adds(s, x, op)
  <2>0. n \in Nat
    BY <1>1
  <2>1. \A j \in 1..(n + 1) : (j \in 1..n /\ ~(j >= n + 1)) \/ (j = n + 1 /\ j >= n + 1)
    <3> HIDE DEF n
    <3> QED
      BY <2>0
  <2>2. \A j \in 1..n : j \in 1..(n + 1)
    BY <1>1
  <2>3. x[1] = "fin" => x # <<"text", x[2]>>
    OBVIOUS
  <2>4. (\A j \in 1..n : s[j] # x) <=> ~Has(s, x)
    BY <1>1 DEF Has
  <2>5. (\A j \in 1..n : s[j] # <<"text", x[2]>>) <=> ~Has(s, <<"text", x[2]>>)
    BY <1>1 DEF Has
  <2>6. ASSUME x[1] = "fin"
        PROVE  (\A j \in 1..(n + 1) : t[j] # <<"text", x[2]>> /\ (t[j] = x => j >= n + 1)) <=>
                 ~Has(s, x) /\ ~Has(s, <<"text", x[2]>>)
    BY <1>1, <2>1, <2>2, <2>3, <2>4, <2>5, <2>6
  <2> QED
    BY <1>1, <2>6 DEF Counts, Adds
<1>4. Conversation(t, op) = IF Counts(t, n + 1, op) THEN Append(Conversation(s, op), Stated(x))
                            ELSE Conversation(s, op)
  BY <1>2, ConvGrows DEF t
<1> QED
  BY <1>3, <1>4 DEF t

(* The final text answers the open input, also after closing words.         *)
LEMMA ConvFinal ==
  ASSUME NEW s \in Seq(Entries), NEW op \in Nat \ {0}, NEW x \in {<<"out", op>>, <<"text", op>>},
         \A kind \in {"out", "text"} : ~Has(s, <<kind, op>>),
         \A kind \in {"out", "text", "fin"} : ~Has(s, <<kind, 0>>),
         x = <<"out", op>> => ~Has(s, <<"fin", op>>)
  PROVE  Conversation(Append(s, x), 0) = Append(Conversation(s, op), x)
<1> DEFINE t == Append(s, x)
           n == Len(s)
<1>0. x \in Entries /\ x[1] \in {"out", "text"} /\ x[2] = op /\ Stated(x) = x
  BY DEF Entries, Stated
<1>1. /\ n \in Nat /\ Len(t) = n + 1 /\ t[n + 1] = x
      /\ \A i \in 1..n : t[i] = s[i] /\ s[i] \in Entries
      /\ DOMAIN t = 1..(n + 1) /\ DOMAIN s = 1..n
  BY <1>0, AppendProperties, LenProperties, ElementOfSeq
<1> HIDE DEF t
<1>2. \A i \in 1..n : Counts(t, i, 0) <=> Counts(s, i, op)
  <2> TAKE i \in 1..n
  <2>1. i \in 1..(n + 1) /\ t[i] = s[i] /\ n + 1 >= i /\ n + 1 \in 1..(n + 1)
    BY <1>1
  <2>2. /\ s[i] \in Entries /\ s[i] = <<s[i][1], s[i][2]>>
        /\ s[i] # <<"out", op>> /\ s[i] # <<"text", op>>
        /\ s[i] # <<"out", 0>> /\ s[i] # <<"text", 0>> /\ s[i] # <<"fin", 0>>
    <3>1. s[i] \in Entries /\ s[i] = <<s[i][1], s[i][2]>>
      BY <1>1 DEF Entries
    <3>2. \A y : ~Has(s, y) => s[i] # y
      BY <1>1 DEF Has
    <3>3. /\ ~Has(s, <<"out", op>>) /\ ~Has(s, <<"text", op>>)
          /\ ~Has(s, <<"out", 0>>) /\ ~Has(s, <<"text", 0>>) /\ ~Has(s, <<"fin", 0>>)
      OBVIOUS
    <3> QED
      BY <3>1, <3>2, <3>3
  <2>0. n \in Nat
    BY <1>1
  <2>3. \A j \in 1..(n + 1) : j \in 1..n \/ j = n + 1
    <3> HIDE DEF n
    <3> QED
      BY <2>0
  <2>4. \A j \in 1..n : j \in 1..(n + 1)
    BY <1>1
  <2>5. CASE s[i] = <<"fin", op>>
    <3>1. ~Counts(s, i, op)
      BY <2>5 DEF Counts
    <3>2. x = <<"text", op>>
      BY <1>1, <2>5 DEF Has
    <3>3. ~Counts(t, i, 0)
      <4>1. t[i] = <<"fin", op>> /\ t[i][1] = "fin" /\ t[n + 1] = <<"text", t[i][2]>> /\ n + 1 \in DOMAIN t
        BY <1>1, <2>1, <2>5, <3>2
      <4> QED
        BY <4>1 DEF Counts
    <3> QED
      BY <3>1, <3>3
  <2>6. CASE s[i] # <<"fin", op>>
    <3>1. s[i] \notin {"out", "text", "fin"} \X {op} /\ s[i] \notin {"out", "text", "fin"} \X {0}
      BY <2>2, <2>6
    <3>2. s[i][1] = "fin" => x # <<"text", s[i][2]>> /\ x # s[i]
      BY <1>0, <2>2, <2>6
    <3> QED
      BY <1>1, <2>1, <2>3, <2>4, <3>1, <3>2 DEF Counts
  <2> QED
    BY <2>5, <2>6
<1>3. Counts(t, n + 1, 0)
  BY <1>0, <1>1 DEF Counts
<1>4. Conversation(t, 0) = IF Counts(t, n + 1, 0) THEN Append(Conversation(s, op), Stated(x))
                           ELSE Conversation(s, op)
  BY <1>0, <1>2, ConvGrows DEF t
<1> QED
  BY <1>0, <1>3, <1>4 DEF t

(* No entries, no conversation.                                             *)
LEMMA ConvEmpty == \A op : Conversation(<<>>, op) = <<>>
<1> TAKE op
<1>1. [i \in DOMAIN <<>> |-> Stated(<<>>[i])] = <<>>
  OBVIOUS
<1> QED
  BY <1>1, ChosenEmpty DEF Conversation

(* A conversation consists of messages.                                     *)
LEMMA ConvType ==
  ASSUME NEW s \in Seq(Entries), NEW op
  PROVE  Conversation(s, op) \in Seq(Messages)
<1> DEFINE u == StatedOf(s)
           kept == CountOf(s, op)
<1>1. /\ Len(s) \in Nat /\ DOMAIN s = 1..Len(s) /\ Len(u) = Len(s)
      /\ \A i \in 1..Len(s) : s[i] \in Entries /\ u[i] = Stated(s[i])
  BY StatedAll, LenProperties, ElementOfSeq
<1>2. \A i \in 1..Len(u) : i \in kept => u[i] \in Messages
  <2> SUFFICES ASSUME NEW i \in 1..Len(s), i \in kept PROVE u[i] \in Messages
    BY <1>1
  <2>1. s[i] \in Entries /\ s[i][1] \in {"in", "app", "out", "text", "fin"} /\ u[i] = Stated(s[i])
    BY <1>1 DEF CountOf, Counts
  <2> QED
    BY <2>1 DEF Stated, Entries, Messages
<1> HIDE DEF u, kept
<1>3. Chosen(u, kept) \in Seq(Messages)
  BY <1>1, <1>2, ChosenType
<1> QED
  BY <1>3 DEF u, kept, Conversation, StatedOf, CountOf

(* Whose answer is left out does not matter when there is none.              *)
LEMMA ConvOp ==
  ASSUME NEW s \in Seq(Entries), NEW o, NEW p,
         \A kind \in {"out", "text", "fin"} : ~Has(s, <<kind, o>>) /\ ~Has(s, <<kind, p>>)
  PROVE  Conversation(s, o) = Conversation(s, p)
<1>1. \A i \in DOMAIN s : Counts(s, i, o) <=> Counts(s, i, p)
  <2> TAKE i \in DOMAIN s
  <2>1. s[i] \notin {"out", "text", "fin"} \X {o} /\ s[i] \notin {"out", "text", "fin"} \X {p}
    BY DEF Has
  <2> QED
    BY <2>1 DEF Counts
<1>2. CountOf(s, o) = CountOf(s, p)
  BY <1>1 DEF CountOf
<1> QED
  BY <1>2 DEF Conversation, CountOf

(* The beginning of a sequence, by one element longer.                      *)
LEMMA UpToNext ==
  ASSUME NEW S, NEW q \in Seq(S), NEW k \in Nat, k < Len(q)
  PROVE  /\ k + 1 \in 1..Len(q) /\ q[k + 1] \in S
         /\ SubSeq(q, 1, k) \in Seq(S) /\ Len(SubSeq(q, 1, k)) = k
         /\ SubSeq(q, 1, k + 1) = Append(SubSeq(q, 1, k), q[k + 1])
<1> DEFINE n == Len(q)
           p == SubSeq(q, 1, k)
           r == SubSeq(q, 1, k + 1)
           x == q[k + 1]
           t == Append(p, x)
<1>1. n \in Nat /\ k + 1 \in 1..n /\ x \in S
  <2>1. n \in Nat
    BY LenProperties
  <2>2. k + 1 \in 1..n
    BY <2>1
  <2> QED
    BY <2>1, <2>2, ElementOfSeq
<1>2. p \in Seq(S) /\ Len(p) = k /\ \A i \in 1..k : p[i] = q[i]
  <2>1. /\ SubSeq(q, 1, k) \in Seq(S) /\ Len(SubSeq(q, 1, k)) = IF 1 <= k THEN k - 1 + 1 ELSE 0
        /\ \A i \in 1..(k - 1 + 1) : SubSeq(q, 1, k)[i] = q[1 + i - 1]
    BY <1>1, Part
  <2>2. \A i \in 1..k : 1 + i - 1 = i
    OBVIOUS
  <2> QED
    BY <2>1, <2>2
<1>3. r \in Seq(S) /\ Len(r) = k + 1 /\ \A i \in 1..(k + 1) : r[i] = q[i]
  <2> DEFINE j == k + 1
  <2>1. j \in Int /\ j <= n /\ 1 <= j
    BY <1>1
  <2> HIDE DEF j
  <2>2. /\ SubSeq(q, 1, j) \in Seq(S) /\ Len(SubSeq(q, 1, j)) = IF 1 <= j THEN j - 1 + 1 ELSE 0
        /\ \A i \in 1..(j - 1 + 1) : SubSeq(q, 1, j)[i] = q[1 + i - 1]
    BY <2>1, Part
  <2>3. \A i \in 1..j : 1 + i - 1 = i
    OBVIOUS
  <2> QED
    BY <2>1, <2>2, <2>3 DEF j
<1> HIDE DEF p, r, x
<1>4. t \in Seq(S) /\ Len(t) = k + 1 /\ t[k + 1] = x /\ \A i \in 1..k : t[i] = p[i]
  BY <1>1, <1>2, AppendProperties
<1> HIDE DEF t
<1>5. \A i \in 1..(k + 1) : t[i] = r[i]
  <2> TAKE i \in 1..(k + 1)
  <2>1. i \in 1..k \/ i = k + 1
    OBVIOUS
  <2> QED
    BY <1>2, <1>3, <1>4, <2>1 DEF x
<1>6. r = t
  BY <1>3, <1>4, <1>5, SeqEqual
<1> QED
  BY <1>1, <1>2, <1>6 DEF p, r, t, x

(* One more element at the end of what was added.                           *)
LEMMA ConcatNext ==
  ASSUME NEW S, NEW s \in Seq(S), NEW p \in Seq(S), NEW x \in S
  PROVE  s \o Append(p, x) = Append(s \o p, x) /\ s \o p \in Seq(S)
<1>1. Append(p, x) = p \o <<x>> /\ <<x>> \in Seq(S) /\ s \o p \in Seq(S)
  BY AppendIsConcat, ConcatProperties
<1>2. s \o (p \o <<x>>) = (s \o p) \o <<x>>
  BY <1>1, ConcatAssociative
<1>3. Append(s \o p, x) = (s \o p) \o <<x>>
  BY <1>1, AppendIsConcat
<1> QED
  BY <1>1, <1>2, <1>3

(* What a sequence has that is made of two, or of one and an element.       *)
LEMMA HasIn ==
  ASSUME NEW S, NEW s \in Seq(S), NEW q \in Seq(S), NEW y \in S, NEW x
  PROVE  /\ Has(s \o q, x) <=> Has(s, x) \/ Has(q, x)
         /\ Has(Append(s, y), x) <=> Has(s, x) \/ x = y
<1>1. Len(s) \in Nat /\ Len(q) \in Nat /\ DOMAIN s = 1..Len(s) /\ DOMAIN q = 1..Len(q)
  BY LenProperties
<1>2. Has(s \o q, x) <=> Has(s, x) \/ Has(q, x)
  <2> DEFINE t == s \o q
  <2>1. /\ t \in Seq(S) /\ Len(t) = Len(s) + Len(q)
        /\ \A i \in 1..(Len(s) + Len(q)) : t[i] = IF i <= Len(s) THEN s[i] ELSE q[i - Len(s)]
    BY ConcatProperties
  <2> HIDE DEF t
  <2>2. DOMAIN t = 1..(Len(s) + Len(q))
    BY <2>1, LenProperties
  <2>3. ASSUME NEW i \in DOMAIN s PROVE i \in DOMAIN t /\ t[i] = s[i]
    BY <1>1, <2>1, <2>2
  <2>4. ASSUME NEW i \in DOMAIN q PROVE Len(s) + i \in DOMAIN t /\ t[Len(s) + i] = q[i]
    <3>1. Len(s) + i \in 1..(Len(s) + Len(q)) /\ ~(Len(s) + i <= Len(s)) /\ Len(s) + i - Len(s) = i
      BY <1>1
    <3> QED
      BY <2>1, <2>2, <3>1
  <2>5. ASSUME NEW i \in DOMAIN t
        PROVE  \/ i \in DOMAIN s /\ t[i] = s[i]
               \/ i - Len(s) \in DOMAIN q /\ t[i] = q[i - Len(s)]
    <3>1. t[i] = IF i <= Len(s) THEN s[i] ELSE q[i - Len(s)]
      BY <2>1, <2>2
    <3>2. i <= Len(s) => i \in DOMAIN s
      BY <1>1, <2>2
    <3>3. ~(i <= Len(s)) => i - Len(s) \in DOMAIN q
      BY <1>1, <2>2
    <3> QED
      BY <3>1, <3>2, <3>3
  <2> QED
    BY <2>3, <2>4, <2>5 DEF Has, t
<1>3. Has(Append(s, y), x) <=> Has(s, x) \/ x = y
  <2> DEFINE t == Append(s, y)
  <2>1. /\ t \in Seq(S) /\ Len(t) = Len(s) + 1 /\ t[Len(s) + 1] = y
        /\ \A i \in 1..Len(s) : t[i] = s[i]
    BY AppendProperties
  <2> HIDE DEF t
  <2>2. DOMAIN t = 1..(Len(s) + 1)
    BY <2>1, LenProperties
  <2>3. \A i : i \in DOMAIN t <=> i \in DOMAIN s \/ i = Len(s) + 1
    BY <1>1, <2>2
  <2> QED
    BY <1>1, <2>1, <2>3 DEF Has, t
<1> QED
  BY <1>2, <1>3

(* What a sequence has, in terms of its two parts.                          *)
LEMMA HasBoth ==
  ASSUME NEW s \in Seq(Entries), NEW q \in Seq(Entries)
  PROVE  \A x : Has(s \o q, x) <=> Has(s, x) \/ Has(q, x)
<1>1. <<"out", 0>> \in Entries
  BY DEF Entries
<1>2. ASSUME NEW x PROVE Has(s \o q, x) <=> Has(s, x) \/ Has(q, x)
  BY <1>1, HasIn
<1> QED
  BY <1>2

(* Messages have no closing words, and changes of tools no message.         *)
LEMMA HasKind ==
  ASSUME NEW x
  PROVE  /\ \A q \in Seq(Messages) : Has(q, x) => x \in Messages
         /\ \A q \in Seq(Changes) : Has(q, x) => x \in Changes
<1>1. ASSUME NEW S, NEW q \in Seq(S), Has(q, x) PROVE x \in S
  BY <1>1, LenProperties, ElementOfSeq DEF Has
<1> QED
  BY <1>1

(* Messages stand for themselves.                                            *)
LEMMA ConvMessages ==
  ASSUME NEW s \in Seq(Entries), NEW q \in Seq(Messages), NEW op,
         ~Has(q, <<"out", op>>), ~Has(q, <<"text", op>>),
         \A k : Has(q, <<"text", k>>) => ~Has(s, <<"fin", k>>)
  PROVE  Conversation(s \o q, op) = Conversation(s, op) \o q
<1> DEFINE n == Len(q)
           upTo(k) == SubSeq(q, 1, k)
           c == Conversation(s, op)
           S == {k \in 0..n : Conversation(s \o upTo(k), op) = c \o upTo(k)}
<1>1. n \in Nat /\ DOMAIN q = 1..n /\ c \in Seq(Messages) /\ c \in Seq(Entries) /\ q \in Seq(Entries)
  BY LenProperties, ConvType, MessagesAreEntries, SeqMonotonic
<1>2. 0 \in S
  <2>1. upTo(0) = <<>> /\ 0 \in 0..n
    BY <1>1, SubSeqEmpty
  <2>2. s \o upTo(0) = s /\ c \o upTo(0) = c
    BY <1>1, <2>1, ConcatEmptySeq
  <2> QED
    BY <2>1, <2>2
<1>3. ASSUME NEW k \in 0..n, k \in S, k < n PROVE k + 1 \in S
  <2> SUFFICES ASSUME NEW x, x = q[k + 1], NEW p, p = upTo(k), NEW r, r = upTo(k + 1),
                      NEW u, u = s \o p
               PROVE  k + 1 \in S
    OBVIOUS
  <2>0. k \in Nat /\ k < Len(q)
    BY <1>1, <1>3
  <2>1. k + 1 \in 1..n /\ x \in Messages /\ p \in Seq(Messages) /\ r = Append(p, x)
    BY <2>0, UpToNext
  <2>2. /\ Has(q, x) /\ x # <<"out", op>> /\ x # <<"text", op>>
    BY <1>1, <2>1 DEF Has
  <2>3. x \in Entries /\ p \in Seq(Entries) /\ Stated(x) = x /\ x = <<x[1], x[2]>>
    <3>1. x \in Entries /\ p \in Seq(Entries)
      BY <2>1, MessagesAreEntries, SeqMonotonic
    <3>2. x = <<x[1], x[2]>> /\ x[1] # "fin"
      BY <2>1 DEF Messages
    <3> QED
      BY <3>1, <3>2 DEF Stated
  <2>4. u \in Seq(Entries) /\ Conversation(u, op) = c \o p
    BY <1>3, <2>3, ConcatProperties
  <2>5. Adds(u, x, op)
    BY <2>1, <2>2 DEF Adds, Messages
  <2>6. x[1] = "text" => ~Has(u, <<"fin", x[2]>>)
    <3> SUFFICES ASSUME x[1] = "text" PROVE ~Has(u, <<"fin", x[2]>>)
      OBVIOUS
    <3>1. ~Has(s, <<"fin", x[2]>>)
      BY <2>2, <2>3
    <3>2. ~Has(p, <<"fin", x[2]>>)
      <4>1. <<"fin", x[2]>> \notin Messages
        BY DEF Messages
      <4> QED
        BY <2>1, <4>1, HasKind
    <3> QED
      BY <2>3, <3>1, <3>2, HasBoth
  <2>7. Conversation(Append(u, x), op) = Append(Conversation(u, op), x)
    BY <2>3, <2>4, <2>5, <2>6, ConvAppend
  <2>8. s \o r = Append(u, x)
    BY <2>1, <2>3, ConcatNext
  <2>9. c \o r = Append(c \o p, x)
    BY <1>1, <2>1, <2>3, ConcatNext
  <2>10. Conversation(s \o r, op) = c \o r
    BY <2>4, <2>7, <2>8, <2>9
  <2> QED
    BY <1>1, <2>1, <2>10
<1>4. 0..n \subseteq S
  <2> HIDE DEF S
  <2> QED
    BY <1>1, <1>2, <1>3, ByInduction
<1>5. upTo(n) = q
  BY SubSeqFull
<1>6. n \in S
  <2> HIDE DEF S
  <2> QED
    BY <1>1, <1>4
<1> QED
  BY <1>5, <1>6

(* Changes of tools stand for nothing.                                      *)
LEMMA ConvChanges ==
  ASSUME NEW s \in Seq(Entries), NEW tail \in Seq(Changes)
  PROVE  /\ s \o tail \in Seq(Entries)
         /\ \A op : Conversation(s \o tail, op) = Conversation(s, op)
         /\ \A x : x[1] # "tools" => (Has(s \o tail, x) <=> Has(s, x))
<1>1. tail \in Seq(Entries) /\ Len(tail) \in Nat
  <2>1. Changes \subseteq Entries
    BY DEF Changes, Entries
  <2> QED
    BY <2>1, SeqMonotonic, LenProperties
<1>2. s \o tail \in Seq(Entries)
  BY <1>1, ConcatProperties
<1>3. ASSUME NEW x, x[1] # "tools" PROVE Has(s \o tail, x) <=> Has(s, x)
  <2>1. x \notin Changes
    BY <1>3 DEF Changes
  <2> QED
    BY <1>1, <2>1, HasBoth, HasKind
<1>4. ASSUME NEW op PROVE Conversation(s \o tail, op) = Conversation(s, op)
  <2> DEFINE n == Len(tail)
             upTo(k) == SubSeq(tail, 1, k)
             S == {k \in 0..n : Conversation(s \o upTo(k), op) = Conversation(s, op)}
  <2>1. 0 \in S
    <3>1. upTo(0) = <<>> /\ 0 \in 0..n
      BY <1>1, SubSeqEmpty
    <3>2. s \o upTo(0) = s
      BY <3>1, ConcatEmptySeq
    <3> QED
      BY <3>1, <3>2
  <2>2. ASSUME NEW k \in 0..n, k \in S, k < n PROVE k + 1 \in S
    <3> SUFFICES ASSUME NEW x, x = tail[k + 1], NEW p, p = upTo(k), NEW r, r = upTo(k + 1),
                        NEW u, u = s \o p
                 PROVE  k + 1 \in S
      OBVIOUS
    <3>0. k \in Nat /\ k < Len(tail)
      BY <1>1, <2>2
    <3>1. k + 1 \in 1..n /\ x \in Changes /\ p \in Seq(Changes) /\ r = Append(p, x)
      BY <3>0, UpToNext
    <3>2. x \in Entries /\ p \in Seq(Entries) /\ x[1] = "tools"
      <4>1. Changes \subseteq Entries
        BY DEF Changes, Entries
      <4> QED
        BY <3>1, <4>1, SeqMonotonic DEF Changes
    <3>3. u \in Seq(Entries) /\ s \o r = Append(u, x)
      BY <3>1, <3>2, ConcatNext
    <3>4. ~Adds(u, x, op)
      BY <3>2 DEF Adds
    <3>5. Conversation(Append(u, x), op) = Conversation(u, op)
      BY <3>2, <3>3, <3>4, ConvAppend
    <3>6. Conversation(s \o upTo(k), op) = Conversation(s, op)
      BY <2>2
    <3>7. k + 1 \in 0..n
      BY <1>1, <3>0
    <3> QED
      BY <3>3, <3>5, <3>6, <3>7
  <2>3. 0..n \subseteq S
    <3> HIDE DEF S
    <3> QED
      BY <1>1, <2>1, <2>2, ByInduction
  <2>4. upTo(n) = tail
    BY SubSeqFull
  <2>5. n \in S
    <3> HIDE DEF S
    <3> QED
      BY <1>1, <2>3
  <2> QED
    BY <2>4, <2>5
<1> QED
  BY <1>2, <1>3, <1>4

-----------------------------------------------------------------------------
(* The empty sequence has nothing.                                          *)
LEMMA HasEmpty == \A x : ~Has(<<>>, x)
BY DEF Has

(* What a part of a sequence has, the sequence has.                         *)
LEMMA HasPart ==
  ASSUME NEW S, NEW s \in Seq(S), NEW m \in Nat \ {0}, NEW n \in Int, n <= Len(s), NEW x,
         Has(SubSeq(s, m, n), x)
  PROVE  Has(s, x)
<1> DEFINE p == SubSeq(s, m, n)
<1>1. /\ p \in Seq(S) /\ Len(p) = IF m <= n THEN n - m + 1 ELSE 0
      /\ \A i \in 1..(n - m + 1) : p[i] = s[m + i - 1]
  BY Part
<1>2. Has(p, x)
  OBVIOUS
<1> HIDE DEF p
<1>3. PICK i \in DOMAIN p : p[i] = x
  BY <1>2 DEF Has
<1>4. i \in 1..Len(p)
  BY <1>1, <1>3, LenProperties
<1>5. Len(s) \in Nat /\ DOMAIN s = 1..Len(s)
  BY LenProperties
<1>6. m <= n /\ i \in 1..(n - m + 1) /\ m + i - 1 \in 1..Len(s)
  <2>1. m <= n
    BY <1>1, <1>4
  <2>2. i \in 1..(n - m + 1)
    BY <1>1, <1>4, <2>1
  <2> QED
    BY <1>5, <2>1, <2>2
<1> QED
  BY <1>1, <1>3, <1>5, <1>6 DEF Has

(* Numbered in terms of what the sequence has.                              *)
LEMMA NumberedHas ==
  ASSUME NEW s
  PROVE  Numbered(s) <=> \A x : Has(s, x) => x[1] = "tools" \/ x[2] \in 1..number
BY DEF Numbered, Has

(* The input that is open.                                                   *)
LEMMA OpenIs ==
  ASSUME NEW messages \in Seq(Messages)
  PROVE  /\ OpenOf(messages) \in Nat
         /\ messages # <<>> /\ Last(messages)[1] = "in" => OpenOf(messages) = Last(messages)[2]
         /\ \A x \in Messages : OpenOf(Append(messages, x)) = IF x[1] = "in" THEN x[2] ELSE 0
<1>1. messages # <<>> => Last(messages) \in Messages
  BY LastIn
<1>2. OpenOf(messages) \in Nat
  BY <1>1 DEF OpenOf, Messages
<1>3. \A x \in Messages : Append(messages, x) # <<>> /\ Last(Append(messages, x)) = x
  BY LastAppended
<1> QED
  BY <1>2, <1>3 DEF OpenOf

(* A sequence has its last message.                                         *)
LEMMA HasLast ==
  ASSUME NEW messages \in Seq(Messages), messages # <<>>
  PROVE  Has(messages, Last(messages))
<1>1. Len(messages) \in Nat \ {0} /\ Last(messages) = messages[Len(messages)]
  BY LastIn
<1>2. Len(messages) \in DOMAIN messages
  BY <1>1, LenProperties
<1> QED
  BY <1>1, <1>2 DEF Has

(* The first messages stay what they are.                                    *)
LEMMA BeginningStays ==
  ASSUME NEW messages \in Seq(Messages), NEW x \in Messages, NEW n \in Nat, n <= Len(messages)
  PROVE  SubSeq(Append(messages, x), 1, n) = SubSeq(messages, 1, n)
<1>1. <<x>> \in Seq(Messages) /\ Append(messages, x) = messages \o <<x>>
  BY AppendIsConcat
<1>2. messages \o <<x>> \in Seq(Messages) /\ IsPrefix(messages, messages \o <<x>>)
  BY <1>1, PrefixOfItself, ConcatProperties
<1> QED
  BY <1>1, <1>2, PrefixPart

-----------------------------------------------------------------------------
(* No entries stand for no messages.                                        *)
LEMMA TellsNothing ==
  ASSUME NEW messages \in Seq(Messages)
  PROVE  Tells(<<>>, messages, 0)
<1>1. SubSeq(messages, 1, 0) = <<>>
  BY SubSeqEmpty
<1> QED
  BY <1>1, ConvEmpty, HasEmpty DEF Tells, TextsAlone

(* A message under a new number does not change what entries tell.           *)
LEMMA TellsStill ==
  ASSUME NEW entries \in Seq(Entries), NEW messages \in Seq(Messages), NEW revision \in Nat,
         revision <= Len(messages), OpenOf(messages) = 0, Tells(entries, messages, revision),
         number \in Nat, Numbered(entries),
         NEW x, x = <<"in", number + 1>> \/ x = <<"app", number + 1>>
  PROVE  Tells(entries, Append(messages, x), revision)
<1>1. x \in Messages
  BY DEF Messages
<1> DEFINE op == OpenOf(Append(messages, x))
           said == SubSeq(messages, 1, revision)
<1>2. op = IF x[1] = "in" THEN number + 1 ELSE 0
  BY <1>1, OpenIs
<1>3. SubSeq(Append(messages, x), 1, revision) = said
  BY <1>1, BeginningStays
<1>4. \A k \in {0, number + 1} : \A kind \in {"out", "text", "fin"} : ~Has(entries, <<kind, k>>)
  <2> SUFFICES ASSUME NEW k \in {0, number + 1}, NEW kind \in {"out", "text", "fin"}, Has(entries, <<kind, k>>) PROVE FALSE
    OBVIOUS
  <2>1. <<kind, k>>[2] \in 1..number
    BY NumberedHas
  <2> QED
    BY <2>1
<1>5. op \in {0, number + 1}
  BY <1>2
<1> HIDE DEF op
<1>6. Conversation(entries, op) = Conversation(entries, 0)
  BY <1>4, <1>5, ConvOp
<1>7. Conversation(entries, 0) = said /\ TextsAlone(entries, messages, revision)
  BY DEF Tells
<1>8. TextsAlone(entries, Append(messages, x), revision)
  <2> DEFINE t == Append(messages, x)
  <2>1. /\ Len(messages) \in Nat /\ DOMAIN messages = 1..Len(messages) /\ DOMAIN t = 1..(Len(messages) + 1)
        /\ t[Len(messages) + 1] = x /\ \A i \in 1..Len(messages) : t[i] = messages[i]
    BY <1>1, AppendProperties, LenProperties
  <2> HIDE DEF t
  <2>2. \A i \in DOMAIN t : i \in DOMAIN messages \/ t[i] = x
    BY <2>1
  <2>3. x[1] # "text"
    OBVIOUS
  <2>4. \A i \in DOMAIN messages : t[i] = messages[i]
    BY <2>1
  <2> QED
    BY <1>7, <2>2, <2>3, <2>4 DEF TextsAlone, t
<1>9. op # 0 => /\ ~Has(entries, <<"out", op>>) /\ ~Has(entries, <<"text", op>>)
                /\ ~Has(entries, <<"fin", op>>)
  BY <1>4, <1>5
<1> QED
  BY <1>3, <1>6, <1>7, <1>8, <1>9 DEF Tells, op

(* The messages that follow bring the entries up to date.                    *)
LEMMA TellsMore ==
  ASSUME NEW entries \in Seq(Entries), NEW messages \in Seq(Messages), NEW revision \in Nat,
         NEW target \in Nat, revision <= target, target <= Len(messages),
         Tells(entries, messages, revision), Answerable(messages), number \in Nat, Numbered(messages)
  PROVE  Tells(entries \o SubSeq(messages, revision + 1, target), messages, target)
<1> DEFINE q == SubSeq(messages, revision + 1, target)
           op == OpenOf(messages)
<1>1. Len(messages) \in Nat
  BY LenProperties
<1>2. q \in Seq(Messages) /\ \A x : Has(q, x) => Has(messages, x)
  <2>1. revision + 1 \in Nat \ {0} /\ target \in Int
    OBVIOUS
  <2> QED
    BY <1>1, <2>1, Part, HasPart
<1>3. SubSeq(messages, 1, revision) \o q = SubSeq(messages, 1, target)
  BY Halves
<1>4. /\ \A kind \in {"out", "text"} : ~Has(q, <<kind, op>>) /\ ~Has(q, <<kind, 0>>)
      /\ \A k : ~Has(q, <<"fin", k>>)
  <2>1. ~Has(q, <<"out", op>>) /\ ~Has(q, <<"text", op>>)
    BY <1>2 DEF Answerable
  <2>2. ASSUME NEW kind \in {"out", "text"}, Has(q, <<kind, 0>>) PROVE FALSE
    <3>1. <<kind, 0>>[2] \in 1..number
      BY <1>2, <2>2, NumberedHas
    <3> QED
      BY <3>1
  <2>3. ASSUME NEW k, Has(q, <<"fin", k>>) PROVE FALSE
    <3>1. <<"fin", k>> \in Messages
      BY <1>2, <2>3, HasKind
    <3> QED
      BY <3>1 DEF Messages
  <2> QED
    BY <2>1, <2>2, <2>3
<1>0. TextsAlone(entries, messages, revision) /\ DOMAIN messages = 1..Len(messages)
  BY LenProperties DEF Tells
<1>13. \A k : Has(q, <<"text", k>>) => ~Has(entries, <<"fin", k>>)
  <2> SUFFICES ASSUME NEW k, Has(q, <<"text", k>>) PROVE ~Has(entries, <<"fin", k>>)
    OBVIOUS
  <2>1. PICK i \in DOMAIN q : q[i] = <<"text", k>>
    BY DEF Has
  <2>2. revision + 1 \in Nat \ {0} /\ target \in Int
    OBVIOUS
  <2>3. /\ Len(q) = IF revision + 1 <= target THEN target - (revision + 1) + 1 ELSE 0
        /\ \A j \in 1..(target - (revision + 1) + 1) : q[j] = messages[revision + 1 + j - 1]
    BY <2>2, Part
  <2>4. i \in 1..Len(q)
    BY <1>2, <2>1, LenProperties
  <2> DEFINE j == revision + 1 + i - 1
  <2>5. messages[j] = <<"text", k>> /\ j > revision /\ j \in 1..Len(messages)
    <3>1. i \in 1..(target - (revision + 1) + 1)
      BY <2>3, <2>4
    <3>2. j > revision /\ j \in 1..Len(messages)
      BY <1>1, <3>1
    <3> QED
      BY <2>1, <2>3, <3>1, <3>2
  <2> HIDE DEF j
  <2> QED
    BY <1>0, <2>5 DEF TextsAlone
<1>14. TextsAlone(entries, messages, target)
  BY <1>0, <1>1 DEF TextsAlone
<1>5. q \in Seq(Entries)
  BY <1>2, MessagesAreEntries, SeqMonotonic
<1>6. revision = Len(messages) => q = <<>>
  <2>1. revision = Len(messages) => target < revision + 1
    BY <1>1
  <2> QED
    BY <2>1, SubSeqEmpty
<1>7. op \in Nat
  BY OpenIs
<1> HIDE DEF q, op
<1>8. /\ Conversation(entries \o q, op) = Conversation(entries, op) \o q
      /\ Conversation(entries \o q, 0) = Conversation(entries, 0) \o q
  BY <1>2, <1>4, <1>13, ConvMessages
<1>9. Conversation(entries, op) = SubSeq(messages, 1, revision)
  BY DEF Tells, op
<1>10. /\ \A x \in {<<"out", op>>, <<"text", op>>} : Has(entries \o q, x) <=> Has(entries, x)
       /\ \A k : Has(entries \o q, <<"fin", k>>) <=> Has(entries, <<"fin", k>>)
  BY <1>4, <1>5, HasBoth
<1>15. TextsAlone(entries \o q, messages, target)
  BY <1>10, <1>14 DEF TextsAlone
<1>11. ASSUME op = 0 PROVE Tells(entries \o q, messages, target)
  BY <1>3, <1>8, <1>9, <1>11, <1>15 DEF Tells, op
<1>12. ASSUME op # 0 PROVE Tells(entries \o q, messages, target)
  <2>1. /\ ~Has(entries, <<"out", op>>) /\ ~Has(entries, <<"text", op>>)
        /\ Has(entries, <<"fin", op>>) => op \in Formats /\ revision = Len(messages)
        /\ Conversation(entries, 0) = IF Has(entries, <<"fin", op>>)
                                      THEN Append(SubSeq(messages, 1, revision), <<"out", op>>)
                                      ELSE SubSeq(messages, 1, revision)
    BY <1>12 DEF Tells, op
  <2>2. ~Has(entries \o q, <<"out", op>>) /\ ~Has(entries \o q, <<"text", op>>) /\ (Has(entries \o q, <<"fin", op>>) <=> Has(entries, <<"fin", op>>))
    BY <1>10, <2>1
  <2>3. CASE Has(entries, <<"fin", op>>)
    <3>1. q = <<>> /\ target = revision
      BY <1>1, <1>6, <2>1, <2>3
    <3>2. entries \o q = entries
      BY <3>1, ConcatEmptySeq
    <3> QED
      BY <3>1, <3>2
  <2>4. CASE ~Has(entries, <<"fin", op>>)
    BY <1>3, <1>8, <1>9, <1>15, <2>1, <2>2, <2>4 DEF Tells, op
  <2> QED
    BY <2>3, <2>4 DEF q
<1> QED
  BY <1>11, <1>12 DEF q

-----------------------------------------------------------------------------
(* Numbers that have been given out stay given out.                         *)
LEMMA NumberedStays ==
  ASSUME NEW s, Numbered(s), number \in Nat, number' \in Nat, number <= number'
  PROVE  Numbered(s)'
<1>1. 1..number \subseteq 1..number'
  OBVIOUS
<1> QED
  BY <1>1 DEF Numbered

(* A continuation with some messages of its memory added has no number that *)
(* was not given out.                                                       *)
LEMMA NumberedMore ==
  ASSUME NEW entries \in Seq(Entries), Numbered(entries), NEW messages \in Seq(Messages), Numbered(messages),
         NEW revision \in Nat, NEW target \in Nat, target <= Len(messages)
  PROVE  Numbered(entries \o SubSeq(messages, revision + 1, target))
<1> SUFFICES ASSUME NEW n, n = revision + 1, NEW u, u = SubSeq(messages, n, target)
             PROVE  Numbered(entries \o u)
  OBVIOUS
<1>1. n \in Nat \ {0} /\ target \in Int
  OBVIOUS
<1>2. u \in Seq(Messages) /\ \A x : Has(u, x) => Has(messages, x)
  BY <1>1, Part, HasPart
<1>3. u \in Seq(Entries)
  BY <1>2, MessagesAreEntries, SeqMonotonic
<1>4. \A x : Has(entries \o u, x) <=> Has(entries, x) \/ Has(u, x)
  BY <1>3, HasBoth
<1>5. \A x : Has(entries \o u, x) => x[1] = "tools" \/ x[2] \in 1..number
  BY <1>2, <1>4, NumberedHas
<1> QED
  BY <1>5, NumberedHas

(* A step that leaves a file alone keeps what the invariant says of it.     *)
LEMMA FileFrame ==
  ASSUME NEW n \in Memories, FileText(n), slot'[n] = slot[n],
         number \in Nat, number' \in Nat, number <= number'
  PROVE  FileText(n)'
<1> SUFFICES ASSUME NEW file, file = slot[n], file # None PROVE FileText(n)'
  BY DEF FileText
<1>1. /\ Numbered(file.records) /\ Numbered(file.messages) /\ Answerable(file.messages)
      /\ Tells(file.records, file.messages, file.revision)
  BY DEF FileText
<1>2. Numbered(file.records)' /\ Numbered(file.messages)'
  BY <1>1, NumberedStays
<1> QED
  BY <1>1, <1>2 DEF FileText

(* A step that leaves a memory alone keeps what the invariant says of it,   *)
(* unless its activation ends.                                              *)
LEMMA TextFrame ==
  ASSUME NEW n \in Memories, MemoryText(n), memory'[n] = memory[n],
         number \in Nat, number' \in Nat, number <= number',
         (\A b \in Agents : Mem(b)' = n => act'[b].at # "prompting") =>
           \A b \in Agents : Mem(b) = n => act[b].at # "prompting"
  PROVE  MemoryText(n)'
<1> SUFFICES ASSUME NEW text, text = memory[n], text # None PROVE MemoryText(n)'
  BY DEF MemoryText
<1>1. /\ Numbered(text.messages) /\ Answerable(text.messages)
      /\ text.checkpoint # None =>
           /\ Numbered(text.checkpoint.records)
           /\ (\A b \in Agents : Mem(b)' = n => act'[b].at # "prompting") =>
                Tells(text.checkpoint.records, text.messages, text.checkpoint.revision)
  BY DEF MemoryText
<1>2. Numbered(text.messages)' /\ (text.checkpoint # None => Numbered(text.checkpoint.records)')
  BY <1>1, NumberedStays
<1> QED
  BY <1>1, <1>2 DEF MemoryText

(* A step that leaves alone an agent, its memory and its file keeps what    *)
(* the invariant says of it.                                                *)
LEMMA TalkFrame ==
  ASSUME HandlesExact, NEW b \in Agents, TalkExact(b), agent'[b] = agent[b], act'[b] = act[b],
         Exists(b) => memory'[Mem(b)] = memory[Mem(b)] /\ slot'[Mem(b)] = slot[Mem(b)]
  PROVE  TalkExact(b)'
<1>1. CASE ~Exists(b)
  <2>1. act[b] = noAct
    BY <1>1 DEF HandlesExact
  <2> QED
    BY <2>1 DEF TalkExact, noAct
<1>2. CASE Exists(b)
  <2>1. Mem(b)' = Mem(b) /\ Said(b)' = Said(b)
    BY <1>2 DEF Mem, Said
  <2>2. slot'[Mem(b)'] = slot[Mem(b)]
    BY <1>2, <2>1
  <2>3. Target(b)' = Target(b) /\ (resumeNativeSession(b)' <=> resumeNativeSession(b))
    BY <2>1 DEF Target, resumeNativeSession, Missing
  <2> QED
    BY <2>1, <2>2, <2>3 DEF TalkExact
<1> QED
  BY <1>1, <1>2

(* An agent that is not prompting has nothing to answer for.                 *)
LEMMA AtRest ==
  ASSUME HandlesExact', NEW b \in Agents, act'[b].at \notin {"begun", "prompting"}
  PROVE  TalkExact(b)'
<1>1. act'[b].turn = "none"
  BY DEF HandlesExact
<1> QED
  BY <1>1 DEF TalkExact

(* A step of one agent and its memory.                                       *)
LEMMA TalkLocal ==
  ASSUME Kept, Kept', Talk, NEW a \in Agents, NEW m, m = Mem(a), Exists(a),
         \A b \in Agents : Mem(b)' = Mem(b),
         \A b \in Agents \ {a} : agent'[b] = agent[b] /\ act'[b] = act[b],
         \A n \in Memories \ {m} : memory'[n] = memory[n] /\ slot'[n] = slot[n],
         number <= number', MemoryText(m)', FileText(m)', TalkExact(a)'
  PROVE  Talk'
<1>1. TypeOK /\ HandlesExact /\ number \in Nat /\ number' \in Nat
  BY DEF Kept, TypeOK
<1>2. ASSUME NEW n \in Memories \ {m} PROVE MemoryText(n)' /\ FileText(n)'
  <2>1. MemoryText(n) /\ FileText(n)
    BY DEF Talk
  <2>2. (\A b \in Agents : Mem(b)' = n => act'[b].at # "prompting") =>
          \A b \in Agents : Mem(b) = n => act[b].at # "prompting"
    OBVIOUS
  <2> QED
    BY <1>1, <2>1, <2>2, TextFrame, FileFrame
<1>3. ASSUME NEW b \in Agents \ {a} PROVE TalkExact(b)'
  <2>1. Exists(b) => Mem(b) \in Memories \ {m}
    BY <1>1, HandleTypes DEF HandlesExact
  <2>2. TalkExact(b)
    BY DEF Talk
  <2> QED
    BY <1>1, <2>1, <2>2, TalkFrame
<1>4. \A n \in Memories : MemoryText(n)' /\ FileText(n)'
  BY <1>2
<1>5. \A b \in Agents : TalkExact(b)'
  BY <1>3
<1> QED
  BY <1>4, <1>5 DEF Talk

(* One more message, under a number that is in use or the next one.          *)
LEMMA NextMessage ==
  ASSUME NEW messages \in Seq(Messages), Numbered(messages), number \in Nat, number' \in Nat, number <= number',
         NEW x \in Messages, x[2] \in 1..number', x[1] = "in" => x[2] = number + 1
  PROVE  Numbered(Append(messages, x))' /\ Answerable(Append(messages, x))
<1>1. \A y : Has(Append(messages, x), y) <=> Has(messages, y) \/ y = x
  BY HasIn
<1>2. \A y : Has(messages, y) => y[1] = "tools" \/ y[2] \in 1..number
  BY NumberedHas
<1>3. \A y : Has(Append(messages, x), y) => y[1] = "tools" \/ y[2] \in 1..number'
  BY <1>1, <1>2
<1>4. Numbered(Append(messages, x))'
  BY <1>3 DEF Numbered, Has
<1>5. OpenOf(Append(messages, x)) = IF x[1] = "in" THEN number + 1 ELSE 0
  BY OpenIs
<1>6. ASSUME NEW kind \in {"out", "text"} PROVE ~Has(Append(messages, x), <<kind, OpenOf(Append(messages, x))>>)
  <2>1. CASE x[1] = "in"
    <3>1. ~Has(messages, <<kind, number + 1>>)
      <4> SUFFICES ASSUME Has(messages, <<kind, number + 1>>) PROVE FALSE
        OBVIOUS
      <4>1. <<kind, number + 1>>[2] \in 1..number
        BY <1>2
      <4> QED
        BY <4>1
    <3>2. x # <<kind, number + 1>>
      BY <2>1
    <3> QED
      BY <1>1, <1>5, <2>1, <3>1, <3>2
  <2>2. CASE x[1] # "in"
    <3> SUFFICES ASSUME Has(Append(messages, x), <<kind, 0>>) PROVE FALSE
      BY <1>5, <2>2
    <3>1. <<kind, 0>>[2] \in 1..number'
      BY <1>3
    <3> QED
      BY <3>1
  <2> QED
    BY <2>1, <2>2
<1> QED
  BY <1>4, <1>6 DEF Answerable

(* An input or an appended message under the next number.                    *)
LEMMA MoreText ==
  ASSUME TypeOK, number' = number + 1, NEW m \in Memories, NEW text, text = memory[m], text # None,
         CheckpointExact(m), MemoryText(m), \A b \in Agents : Mem(b) = m => act[b].at # "prompting",
         OpenOf(text.messages) = 0,
         NEW x, x = <<"in", number + 1>> \/ x = <<"app", number + 1>>
  PROVE  /\ Numbered(Append(text.messages, x))' /\ Answerable(Append(text.messages, x))
         /\ text.checkpoint # None =>
              /\ Numbered(text.checkpoint.records)'
              /\ Tells(text.checkpoint.records, Append(text.messages, x), text.checkpoint.revision)
<1>1. number \in Nat /\ number' \in Nat /\ number <= number'
  BY DEF TypeOK
<1>2. /\ Numbered(text.messages)
      /\ text.checkpoint # None =>
           /\ Numbered(text.checkpoint.records)
           /\ Tells(text.checkpoint.records, text.messages, text.checkpoint.revision)
  BY DEF MemoryText
<1>3. /\ text.messages \in Seq(Messages)
      /\ text.checkpoint # None => /\ text.checkpoint.records \in Seq(Entries)
                                   /\ text.checkpoint.revision \in Nat
                                   /\ text.checkpoint.revision <= Len(text.messages)
  BY MemoryTypes DEF CheckpointExact
<1>4. x \in Messages /\ x[2] \in 1..number' /\ (x[1] = "in" => x[2] = number + 1)
  BY <1>1 DEF Messages
<1>5. Numbered(Append(text.messages, x))' /\ Answerable(Append(text.messages, x))
  BY <1>1, <1>2, <1>3, <1>4, NextMessage
<1>6. ASSUME text.checkpoint # None
      PROVE  /\ Numbered(text.checkpoint.records)'
             /\ Tells(text.checkpoint.records, Append(text.messages, x), text.checkpoint.revision)
  BY <1>1, <1>2, <1>3, <1>6, NumberedStays, TellsStill
<1> QED
  BY <1>5, <1>6

-----------------------------------------------------------------------------
(* agent.do keeps the invariant: a fresh input is the open one, and a       *)
(* resumed one has its entries.                                             *)
LEMMA DoTalks ==
  ASSUME Kept, Kept', Talk, NEW a \in Agents, Do(a)
  PROVE  Talk'
<1> SUFFICES ASSUME NEW m, m = Mem(a), NEW text, text = memory[m] PROVE Talk'
  OBVIOUS
<1>1. /\ TypeOK /\ HandlesExact /\ HandlesExact' /\ number \in Nat /\ number' \in Nat
      /\ \A n \in Memories : CheckpointExact(n) /\ MemoryText(n) /\ FileText(n)
  BY DEF Kept, Talk, TypeOK
<1>2. Exists(a) /\ m \in Memories /\ text # None /\ text \in MemoryState /\ act[a].at = "idle"
  BY <1>1, HandleTypes DEF Do, Ready, HandlesExact
<1>3. /\ agent' = agent /\ slot' = slot
      /\ act'[a].at = "input" /\ \A b \in Agents \ {a} : act'[b] = act[b]
  BY <1>1 DEF Do, TypeOK, noAct
<1>4. \A b \in Agents : Mem(b)' = Mem(b) /\ (Mem(b) = m => b = a)
  BY <1>1, <1>2, <1>3 DEF Mem, HandlesExact, Exists
<1>5. TalkExact(a)'
  BY <1>1, <1>3, AtRest
<1>6. CASE ~Interrupted(m)
  <2> SUFFICES ASSUME NEW x, x = <<"in", number + 1>> PROVE Talk'
    OBVIOUS
  <2>1. number' = number + 1 /\ memory' = [memory EXCEPT ![m].messages = Append(@, x)]
    BY <1>6 DEF Do
  <2>2. OpenOf(text.messages) = 0
    BY <1>6 DEF OpenOf, Interrupted
  <2>3. /\ memory'[m].messages = Append(text.messages, x) /\ memory'[m].checkpoint = text.checkpoint
        /\ \A n \in Memories \ {m} : memory'[n] = memory[n]
    BY <1>1, <1>2, <2>1 DEF TypeOK, MemoryState
  <2>4. /\ Numbered(Append(text.messages, x))' /\ Answerable(Append(text.messages, x))
        /\ text.checkpoint # None =>
             /\ Numbered(text.checkpoint.records)'
             /\ Tells(text.checkpoint.records, Append(text.messages, x), text.checkpoint.revision)
    <3>1. \A b \in Agents : Mem(b) = m => act[b].at # "prompting"
      BY <1>2, <1>4
    <3> QED
      BY <1>1, <1>2, <2>1, <2>2, <3>1, MoreText
  <2>5. MemoryText(m)'
    <3> SUFFICES ASSUME NEW messages, messages = Append(text.messages, x), NEW c, c = text.checkpoint
                 PROVE  MemoryText(m)'
      OBVIOUS
    <3>1. memory'[m].messages = messages /\ memory'[m].checkpoint = c
      BY <2>3
    <3>2. Numbered(messages)' /\ Answerable(messages)
      BY <2>4
    <3>3. c # None => Numbered(c.records)' /\ Tells(c.records, messages, c.revision)
      BY <2>4
    <3> QED
      BY <3>1, <3>2, <3>3 DEF MemoryText
  <2>6. FileText(m)' /\ number <= number'
    BY <1>1, <1>2, <1>3, <2>1, FileFrame
  <2> QED
    BY <1>1, <1>2, <1>3, <1>4, <1>5, <2>3, <2>5, <2>6, TalkLocal
<1>7. CASE Interrupted(m)
  <2>1. number' = number /\ memory' = memory
    BY <1>7 DEF Do
  <2>2. MemoryText(m)'
    <3>1. (\A b \in Agents : Mem(b)' = m => act'[b].at # "prompting") =>
            \A b \in Agents : Mem(b) = m => act[b].at # "prompting"
      BY <1>2, <1>4
    <3> QED
      BY <1>1, <1>2, <2>1, <3>1, TextFrame
  <2>3. FileText(m)' /\ number <= number'
    BY <1>1, <1>2, <1>3, <2>1, FileFrame
  <2> QED
    BY <1>1, <1>2, <1>3, <1>4, <1>5, <2>1, <2>2, <2>3, TalkLocal
<1> QED
  BY <1>6, <1>7

(* A step that leaves the messages and the file alone, and does not prompt.  *)
LEMMA QuietTalks ==
  ASSUME Kept, Kept', Talk, NEW a \in Agents, NEW m, m = Mem(a), Exists(a),
         \A b \in Agents : Mem(b)' = Mem(b),
         \A b \in Agents \ {a} : agent'[b] = agent[b] /\ act'[b] = act[b],
         \A n \in Memories \ {m} : memory'[n] = memory[n],
         slot' = slot, number' = number, act'[a].at \notin {"begun", "prompting"},
         memory'[m].messages = memory[m].messages,
         \/ memory'[m].checkpoint = None
         \/ /\ act[a].at # "prompting"
            /\ memory[m].checkpoint # None
            /\ memory'[m].checkpoint.records = memory[m].checkpoint.records
            /\ memory'[m].checkpoint.revision = memory[m].checkpoint.revision
  PROVE  Talk'
<1>1. /\ TypeOK /\ HandlesExact /\ HandlesExact' /\ number \in Nat /\ number' \in Nat
      /\ \A n \in Memories : MemoryText(n) /\ FileText(n)
  BY DEF Kept, Talk, TypeOK
<1>2. m \in Memories /\ memory[m] # None /\ \A b \in Agents : Mem(b) = m => b = a
  BY <1>1, HandleTypes DEF HandlesExact, Exists, Mem
<1> SUFFICES ASSUME NEW text, text = memory[m], NEW c, c = memory'[m].checkpoint PROVE Talk'
  OBVIOUS
<1>3. Numbered(text.messages) /\ Answerable(text.messages)
  BY <1>1, <1>2 DEF MemoryText
<1>4. ASSUME c # None
      PROVE  Numbered(c.records) /\ Tells(c.records, text.messages, c.revision)
  <2>1. /\ text.checkpoint # None /\ c.records = text.checkpoint.records
        /\ c.revision = text.checkpoint.revision /\ act[a].at # "prompting"
    BY <1>4
  <2>2. \A b \in Agents : Mem(b) = m => act[b].at # "prompting"
    BY <1>2, <2>1
  <2>3. /\ Numbered(text.checkpoint.records)
        /\ Tells(text.checkpoint.records, text.messages, text.checkpoint.revision)
    BY <1>1, <1>2, <2>1, <2>2 DEF MemoryText
  <2> QED
    BY <2>1, <2>3
<1>5. Numbered(text.messages)' /\ (c # None => Numbered(c.records)')
  BY <1>1, <1>3, <1>4, NumberedStays
<1>6. MemoryText(m)'
  <2>1. memory'[m].messages = text.messages /\ memory'[m].checkpoint = c
    OBVIOUS
  <2> QED
    BY <1>3, <1>4, <1>5, <2>1 DEF MemoryText
<1>7. FileText(m)' /\ TalkExact(a)' /\ number <= number'
  BY <1>1, <1>2, FileFrame, AtRest
<1> QED
  BY <1>6, <1>7, TalkLocal

(* restoreAgentSession keeps the invariant.                                 *)
LEMMA AdvanceTalks ==
  ASSUME Kept, Kept', Talk, NEW a \in Agents, Restored(a) \/ ForkLive(a) \/ ImportSession(a)
  PROVE  Talk'
<1>1. TypeOK /\ HandlesExact /\ act[a].at = "input" /\ Busy(a) /\ Exists(a)
  BY DEF Kept, Restored, ForkLive, ImportSession, NeedsSession, Busy, HandlesExact
<1>2. /\ memory' = memory /\ slot' = slot /\ number' = number
      /\ act'[a].at = "restored" /\ \A b \in Agents \ {a} : act'[b] = act[b]
  BY <1>1 DEF Restored, ForkLive, ImportSession, Restores, Goes, bounds, TypeOK, Activation
<1>3. /\ \A b \in Agents : Mem(b)' = Mem(b)
      /\ \A b \in Agents \ {a} : agent'[b] = agent[b]
  <2>1. CASE Restored(a)
    BY <2>1 DEF Restored, Mem
  <2>2. CASE ForkLive(a) \/ ImportSession(a)
    <3>1. PICK leaf : agent' = [agent EXCEPT ![a].session = opened + 1, ![a].leaf = leaf,
                                             ![a].revision = Checkpoint(a).revision]
      BY <2>2 DEF ForkLive, ImportSession, Restores
    <3> QED
      BY <1>1, <3>1 DEF TypeOK, AgentState, Mem
  <2> QED
    BY <2>1, <2>2
<1> QED
  BY <1>1, <1>2, <1>3, QuietTalks

(* An activation that fails keeps the invariant.                            *)
LEMMA FailsTalks ==
  ASSUME Kept, Kept', Talk, NEW a \in Agents, act[a].at # "idle", NEW why, Fails(a, why)
  PROVE  Talk'
<1>1. TypeOK /\ HandlesExact /\ Exists(a) /\ Mem(a) \in Memories /\ memory[Mem(a)] \in MemoryState
  BY HandleTypes DEF Kept, Busy, HandlesExact
<1> SUFFICES ASSUME NEW m, m = Mem(a) PROVE Talk'
  OBVIOUS
<1>2. /\ memory' = [memory EXCEPT ![m].checkpoint = None] /\ slot' = slot /\ number' = number
      /\ agent' = [agent EXCEPT ![a].session = None, ![a].leaf = 0, ![a].revision = 0]
      /\ act' = [act EXCEPT ![a] = noAct]
  BY DEF Fails, invalidateAgentSession, bounds
<1>3. /\ memory'[m].checkpoint = None /\ memory'[m].messages = memory[m].messages
      /\ \A n \in Memories \ {m} : memory'[n] = memory[n]
  BY <1>1, <1>2 DEF TypeOK, MemoryState
<1>4. act'[a].at = "idle" /\ \A b \in Agents \ {a} : act'[b] = act[b] /\ agent'[b] = agent[b]
  BY <1>1, <1>2 DEF TypeOK, noAct
<1>5. \A b \in Agents : Mem(b)' = Mem(b)
  BY <1>1, <1>2 DEF TypeOK, AgentState, Mem
<1> QED
  BY <1>1, <1>2, <1>3, <1>4, <1>5, QuietTalks

(* Closing a retired session keeps the invariant.                           *)
LEMMA CloseRetiredTalks ==
  ASSUME Kept, Kept', Talk, NEW a \in Agents, CloseRetired(a)
  PROVE  Talk'
<1>1. TypeOK /\ HandlesExact /\ number \in Nat
  BY DEF Kept, TypeOK
<1>2. UNCHANGED <<agent, memory, act, slot, number>>
  BY DEF CloseRetired, bounds
<1>3. \A b \in Agents : Mem(b)' = Mem(b)
  BY <1>2 DEF Mem
<1>4. ASSUME NEW n \in Memories PROVE MemoryText(n)' /\ FileText(n)'
  <2>1. MemoryText(n) /\ FileText(n) /\ number <= number' /\ number' \in Nat
    BY <1>1, <1>2 DEF Talk
  <2> QED
    BY <1>1, <1>2, <1>3, <2>1, TextFrame, FileFrame
<1>5. ASSUME NEW b \in Agents PROVE TalkExact(b)'
  BY <1>1, <1>2, TalkFrame DEF Talk
<1> QED
  BY <1>4, <1>5 DEF Talk

-----------------------------------------------------------------------------
(* agent.system_prompt keeps the invariant: the continuation stays.         *)
LEMMA SystemPromptTalks ==
  ASSUME Kept, Kept', Talk, NEW a \in Agents, NEW prompt \in Prompts, SystemPrompt(a, prompt)
  PROVE  Talk'
<1> SUFFICES ASSUME NEW m, m = Mem(a), NEW old, old = memory[m].checkpoint PROVE Talk'
  OBVIOUS
<1> DEFINE point == IF old = None THEN None ELSE [old EXCEPT !.session = None, !.leaf = 0, !.prompt = prompt]
<1>1. TypeOK /\ HandlesExact /\ Exists(a) /\ act[a].at = "idle"
  BY DEF Kept, SystemPrompt, Ready
<1>2. /\ agent' = [agent EXCEPT ![a] = [@ EXCEPT !.prompt = prompt, !.session = None,
                                                 !.leaf = 0, !.revision = 0]]
      /\ memory' = [memory EXCEPT ![m].checkpoint = point]
      /\ UNCHANGED <<act, slot, number>>
  BY DEF SystemPrompt, executor
<1>3. m \in Memories /\ memory[m] \in MemoryState /\ old \in CheckpointState \cup {None}
  BY <1>1, HandleTypes DEF Checkpoint
<1>4. point = None \/ (old # None /\ point.records = old.records /\ point.revision = old.revision)
  BY <1>3 DEF CheckpointState
<1> HIDE DEF point
<1>5. /\ memory'[m].messages = memory[m].messages /\ memory'[m].checkpoint = point
      /\ \A n \in Memories \ {m} : memory'[n] = memory[n]
  BY <1>1, <1>2, <1>3 DEF TypeOK, MemoryState
<1>6. /\ \A b \in Agents : Mem(b)' = Mem(b)
      /\ \A b \in Agents \ {a} : agent'[b] = agent[b]
  BY <1>1, <1>2 DEF TypeOK, AgentState, Mem
<1>7. \/ memory'[m].checkpoint = None
      \/ /\ memory[m].checkpoint # None
         /\ memory'[m].checkpoint.records = memory[m].checkpoint.records
         /\ memory'[m].checkpoint.revision = memory[m].checkpoint.revision
  BY <1>4, <1>5
<1>8. act'[a].at = "idle" /\ \A b \in Agents \ {a} : act'[b] = act[b]
  BY <1>1, <1>2
<1> QED
  BY <1>1, <1>2, <1>5, <1>6, <1>7, <1>8, QuietTalks

(* memory.append keeps the invariant, in the memory and in its file.        *)
LEMMA AppendMessageTalks ==
  ASSUME Kept, Kept', Talk, NEW m \in Memories, AppendMessage(m)
  PROVE  Talk'
<1> SUFFICES ASSUME NEW text, text = memory[m], NEW c, c = text.checkpoint, NEW x, x = <<"app", number + 1>>,
                    NEW messages, messages = Append(text.messages, x)
             PROVE  Talk'
  OBVIOUS
<1>1. /\ TypeOK /\ HandlesExact /\ HandlesExact' /\ number \in Nat /\ number' \in Nat
      /\ \A k \in Memories : CheckpointExact(k) /\ FileExact(k) /\ MemoryText(k) /\ FileText(k)
  BY DEF Kept, Talk, TypeOK
<1>2. /\ text # None /\ text \in MemoryState /\ ~Interrupted(m)
      /\ \A b \in Agents : Mem(b) = m => act[b].at = "idle"
  BY <1>1, MemoryTypes DEF AppendMessage, Usable, Unlocked
<1>3. /\ memory' = [memory EXCEPT ![m].messages = messages]
      /\ slot' = [slot EXCEPT ![m] = IF @ = None THEN None
                                     ELSE [@ EXCEPT !.messages = messages, !.records = persistedRecords(m),
                                                    !.revision = persistedRevision(m)]]
      /\ number' = number + 1
      /\ UNCHANGED <<agent, act>>
  BY DEF AppendMessage
<1>4. /\ memory'[m].messages = messages /\ memory'[m].checkpoint = c
      /\ \A k \in Memories \ {m} : memory'[k] = memory[k] /\ slot'[k] = slot[k]
  BY <1>1, <1>2, <1>3 DEF TypeOK, MemoryState
<1>5. OpenOf(text.messages) = 0 /\ text.messages \in Seq(Messages) /\ x \in Messages
  BY <1>1, <1>2 DEF OpenOf, Interrupted, MemoryState, Messages
<1>6. /\ Numbered(messages)' /\ Answerable(messages)
      /\ c # None => Numbered(c.records)' /\ Tells(c.records, messages, c.revision)
  <2>1. \A b \in Agents : Mem(b) = m => act[b].at # "prompting"
    BY <1>2
  <2> QED
    BY <1>1, <1>2, <1>3, <1>5, <2>1, MoreText
<1>7. MemoryText(m)'
  BY <1>4, <1>6 DEF MemoryText
<1>8. FileText(m)'
  <2>1. CASE slot[m] = None
    <3>1. slot'[m] = None
      BY <1>1, <1>3, <2>1 DEF TypeOK
    <3> QED
      BY <3>1 DEF FileText
  <2>2. CASE slot[m] # None
    <3>1. slot[m] \in SlotState /\ c # None
      BY <1>1, <1>2, <2>2, MemoryTypes DEF FileExact, AppendMessage, Usable
    <3>2. slot'[m].messages = messages /\ slot'[m].records = c.records /\ slot'[m].revision = c.revision
      <4>1. persistedRecords(m) = c.records /\ persistedRevision(m) = c.revision
        BY <3>1 DEF persistedRecords, persistedRevision
      <4>2. slot'[m] = [slot[m] EXCEPT !.messages = messages, !.records = persistedRecords(m),
                                       !.revision = persistedRevision(m)]
        BY <1>1, <1>3, <2>2 DEF TypeOK
      <4> QED
        BY <3>1, <4>1, <4>2 DEF SlotState
    <3> QED
      BY <1>6, <3>1, <3>2 DEF FileText
  <2> QED
    BY <2>1, <2>2
<1>9. ASSUME NEW k \in Memories \ {m} PROVE MemoryText(k)' /\ FileText(k)'
  <2>1. number <= number' /\ \A b \in Agents : Mem(b)' = Mem(b) /\ act'[b] = act[b]
    BY <1>1, <1>3 DEF Mem
  <2> QED
    BY <1>1, <1>4, <2>1, TextFrame, FileFrame
<1>10. ASSUME NEW b \in Agents PROVE TalkExact(b)'
  <2>1. CASE Mem(b) = m
    <3>1. act'[b].at = "idle"
      BY <1>2, <1>3, <2>1
    <3> QED
      BY <1>1, <3>1, AtRest
  <2>2. CASE Mem(b) # m
    <3>1. Exists(b) => Mem(b) \in Memories \ {m}
      BY <1>1, <2>2, HandleTypes
    <3> QED
      BY <1>1, <1>3, <1>4, <3>1, TalkFrame DEF Talk
  <2> QED
    BY <2>1, <2>2
<1> QED
  BY <1>7, <1>8, <1>9, <1>10 DEF Talk

(* memory.copy keeps the invariant: the copy says what the memory says.     *)
LEMMA CopyTalks ==
  ASSUME Kept, Kept', Talk, NEW m \in Memories, NEW n \in Memories, Copy(m, n)
  PROVE  Talk'
<1> SUFFICES ASSUME NEW text, text = memory[m] PROVE Talk'
  OBVIOUS
<1>1. /\ TypeOK /\ HandlesExact /\ number \in Nat /\ number' \in Nat
      /\ \A k \in Memories : MemoryText(k) /\ FileText(k)
  BY DEF Kept, Talk, TypeOK
<1>2. /\ text # None /\ memory[n] = None /\ memory' = [memory EXCEPT ![n] = text]
      /\ UNCHANGED <<agent, act, slot, number>>
      /\ \A b \in Agents : Mem(b) = m => act[b].at = "idle"
  BY DEF Copy, Usable, Unlocked, bounds
<1>3. memory'[n] = text /\ \A k \in Memories \ {n} : memory'[k] = memory[k]
  BY <1>1, <1>2 DEF TypeOK
<1>4. number <= number' /\ \A b \in Agents : Mem(b)' = Mem(b) /\ act'[b] = act[b]
  BY <1>1, <1>2 DEF Mem
<1>5. MemoryText(n)'
  <2>1. /\ Numbered(text.messages) /\ Answerable(text.messages)
        /\ text.checkpoint # None =>
             /\ Numbered(text.checkpoint.records)
             /\ Tells(text.checkpoint.records, text.messages, text.checkpoint.revision)
    BY <1>1, <1>2 DEF MemoryText
  <2>2. /\ Numbered(text.messages)'
        /\ text.checkpoint # None => Numbered(text.checkpoint.records)'
    BY <1>1, <1>4, <2>1, NumberedStays
  <2> QED
    BY <1>3, <2>1, <2>2 DEF MemoryText
<1>6. ASSUME NEW k \in Memories PROVE MemoryText(k)' /\ FileText(k)'
  <2>1. FileText(k)'
    BY <1>1, <1>2, <1>4, FileFrame
  <2>2. k # n => MemoryText(k)'
    BY <1>1, <1>3, <1>4, TextFrame
  <2> QED
    BY <1>5, <2>1, <2>2
<1>7. ASSUME NEW b \in Agents PROVE TalkExact(b)'
  <2>1. Exists(b) => Mem(b) \in Memories \ {n}
    BY <1>1, <1>2, HandleTypes DEF HandlesExact
  <2> QED
    BY <1>1, <1>2, <1>3, <2>1, TalkFrame DEF Talk
<1> QED
  BY <1>6, <1>7 DEF Talk

(* An agent appears on a memory that has none.                               *)
LEMMA AppearsTalks ==
  ASSUME Kept, Kept', Talk, NEW b \in Agents, NEW n \in Memories, ~Exists(b), ~Owned(n),
         agent'[b].memory = n, act'[b].at \in {"idle", "input"},
         \A c \in Agents \ {b} : agent'[c] = agent[c] /\ act'[c] = act[c],
         \A k \in Memories \ {n} : memory'[k] = memory[k],
         slot' = slot, number <= number', MemoryText(n)'
  PROVE  Talk'
<1>1. /\ TypeOK /\ HandlesExact /\ HandlesExact' /\ number \in Nat /\ number' \in Nat
      /\ \A k \in Memories : MemoryText(k) /\ FileText(k)
  BY DEF Kept, Talk, TypeOK
<1>2. \A c \in Agents \ {b} : Mem(c)' = Mem(c) /\ Mem(c) # n
  BY DEF Mem, Owned
<1>3. act[b] = noAct
  BY <1>1 DEF HandlesExact
<1>4. ASSUME NEW k \in Memories \ {n} PROVE MemoryText(k)'
  <2>1. (\A c \in Agents : Mem(c)' = k => act'[c].at # "prompting") =>
          \A c \in Agents : Mem(c) = k => act[c].at # "prompting"
    <3> SUFFICES ASSUME \A c \in Agents : Mem(c)' = k => act'[c].at # "prompting", NEW c \in Agents, Mem(c) = k
                 PROVE  act[c].at # "prompting"
      OBVIOUS
    <3>1. CASE c = b
      BY <1>3, <3>1 DEF noAct
    <3>2. CASE c # b
      BY <1>2, <3>2
    <3> QED
      BY <3>1, <3>2
  <2> QED
    BY <1>1, <2>1, TextFrame
<1>5. \A k \in Memories : FileText(k)'
  BY <1>1, FileFrame
<1>6. ASSUME NEW c \in Agents PROVE TalkExact(c)'
  <2>1. CASE c = b
    BY <1>1, <2>1, AtRest
  <2>2. CASE c # b
    <3>1. Exists(c) => memory'[Mem(c)] = memory[Mem(c)] /\ slot'[Mem(c)] = slot[Mem(c)]
      BY <1>1, <1>2, <2>2, HandleTypes
    <3> QED
      BY <1>1, <2>2, <3>1, TalkFrame DEF Talk
  <2> QED
    BY <2>1, <2>2
<1> QED
  BY <1>4, <1>5, <1>6 DEF Talk

(* agent.with_memory keeps the invariant.                                   *)
LEMMA WithMemoryTalks ==
  ASSUME Kept, Kept', Talk, NEW a \in Agents, NEW b \in Agents, NEW n \in Memories, WithMemory(a, b, n)
  PROVE  Talk'
<1>1. TypeOK /\ HandlesExact /\ number \in Nat /\ number' \in Nat /\ MemoryText(n)
  BY DEF Kept, Talk, TypeOK
<1>2. /\ ~Exists(b) /\ ~Owned(n)
      /\ agent' = [agent EXCEPT ![b] = [noAgent EXCEPT !.memory = n, !.prompt = agent[a].prompt]]
      /\ UNCHANGED <<memory, act, slot, number>>
  BY DEF WithMemory, Takes, bounds
<1>3. agent'[b].memory = n /\ \A c \in Agents \ {b} : agent'[c] = agent[c]
  BY <1>1, <1>2 DEF TypeOK, noAgent
<1>4. act'[b].at = "idle"
  BY <1>1, <1>2 DEF HandlesExact, noAct
<1>5. number <= number'
  BY <1>1, <1>2
<1>6. MemoryText(n)'
  <2>1. \A c \in Agents : Mem(c) = n => act[c].at # "prompting"
    BY <1>2 DEF Owned, Mem
  <2> QED
    BY <1>1, <1>2, <1>5, <2>1, TextFrame
<1> QED
  BY <1>2, <1>3, <1>4, <1>5, <1>6, AppearsTalks

(* fork keeps the invariant.                                                *)
LEMMA ForkTalks ==
  ASSUME Kept, Kept', Talk, NEW a \in Agents, NEW b \in Agents, NEW n \in Memories, Fork(a, b, n)
  PROVE  Talk'
<1> SUFFICES ASSUME NEW m, m = Mem(a), NEW text, text = memory[m], NEW c, c = text.checkpoint,
                    NEW x, x = <<"in", number + 1>>, NEW messages, messages = Append(text.messages, x)
             PROVE  Talk'
  OBVIOUS
<1>1. TypeOK /\ HandlesExact /\ number \in Nat /\ number' \in Nat
  BY DEF Kept, TypeOK
<1>2. /\ Exists(a) /\ ~Exists(b) /\ memory[n] = None /\ ~Interrupted(m)
      /\ \A d \in Agents : Mem(d) = m => act[d].at = "idle"
      /\ agent' = [agent EXCEPT ![b] = [noAgent EXCEPT !.memory = n, !.prompt = agent[a].prompt]]
      /\ memory' = [memory EXCEPT ![n] = [messages |-> messages, checkpoint |-> c]]
      /\ act' = [act EXCEPT ![b] = [noAct EXCEPT !.at = "input", !.op = number + 1]]
      /\ number' = number + 1 /\ slot' = slot
  BY DEF Fork, Takes, Ready, Usable, Unlocked, Said, Checkpoint
<1>3. /\ agent'[b].memory = n /\ act'[b].at = "input"
      /\ \A d \in Agents \ {b} : agent'[d] = agent[d] /\ act'[d] = act[d]
  BY <1>1, <1>2 DEF TypeOK, noAgent, noAct
<1>4. /\ memory'[n].messages = messages /\ memory'[n].checkpoint = c
      /\ \A k \in Memories \ {n} : memory'[k] = memory[k]
  BY <1>1, <1>2 DEF TypeOK
<1>5. m \in Memories /\ text # None
  BY <1>1, <1>2, HandleTypes DEF HandlesExact
<1>6. /\ Numbered(messages)' /\ Answerable(messages)
      /\ c # None => Numbered(c.records)' /\ Tells(c.records, messages, c.revision)
  <2>1. \A d \in Agents : Mem(d) = m => act[d].at # "prompting"
    BY <1>2
  <2>2. CheckpointExact(m) /\ MemoryText(m)
    BY <1>5 DEF Kept, Talk
  <2>3. OpenOf(text.messages) = 0
    BY <1>2 DEF OpenOf, Interrupted
  <2> QED
    BY <1>1, <1>2, <1>5, <2>1, <2>2, <2>3, MoreText
<1>7. MemoryText(n)'
  BY <1>4, <1>6 DEF MemoryText
<1>8. ~Owned(n)
  BY <1>1, <1>2, NotNone DEF HandlesExact, Owned, Exists, Mem
<1>9. number <= number'
  BY <1>1, <1>2
<1> QED
  BY <1>2, <1>3, <1>4, <1>7, <1>8, <1>9, AppearsTalks

-----------------------------------------------------------------------------
(* What a memory hands to the store stands for its first messages.          *)
LEMMA PersistedTells ==
  ASSUME TypeOK, NEW m \in Memories, memory[m] # None, MemoryText(m), CheckpointExact(m),
         \A b \in Agents : Mem(b) = m => act[b].at # "prompting",
         NEW records, records = persistedRecords(m), NEW revision, revision = persistedRevision(m)
  PROVE  /\ records \in Seq(Entries) /\ Numbered(records)
         /\ revision \in Nat /\ revision <= Len(memory[m].messages)
         /\ Tells(records, memory[m].messages, revision)
<1>1. memory[m].messages \in Seq(Messages) /\ Len(memory[m].messages) \in Nat
  BY MemoryTypes
<1>2. CASE memory[m].checkpoint = None
  <2>1. records = <<>> /\ revision = 0
    BY <1>2 DEF persistedRecords, persistedRevision
  <2>2. records \in Seq(Entries) /\ Numbered(records)
    BY <2>1 DEF Numbered
  <2>3. Tells(<<>>, memory[m].messages, 0)
    BY <1>1, TellsNothing
  <2> QED
    BY <1>1, <2>1, <2>2, <2>3
<1>3. CASE memory[m].checkpoint # None
  <2>1. records = memory[m].checkpoint.records /\ revision = memory[m].checkpoint.revision
    BY <1>3 DEF persistedRecords, persistedRevision
  <2> QED
    BY <1>3, <2>1, MemoryTypes DEF MemoryText, CheckpointExact
<1> QED
  BY <1>2, <1>3

(* beginAgentAttempt keeps the invariant: the file stands for the memory,   *)
(* but for a fresh input.                                                   *)
LEMMA BeginTalks ==
  ASSUME Kept, Kept', Talk, NEW a \in Agents, Begin(a)
  PROVE  Talk'
<1> SUFFICES ASSUME NEW m, m = Mem(a), NEW messages, messages = Said(a), NEW target, target = Target(a),
                    NEW p, p = persistedRecords(m), NEW r, r = persistedRevision(m),
                    NEW u, u = Unsynchronized(a)
             PROVE  Talk'
  OBVIOUS
<1>1. /\ TypeOK /\ HandlesExact /\ HandlesExact' /\ number \in Nat /\ number' \in Nat
      /\ \A k \in Memories : CheckpointExact(k) /\ MemoryText(k) /\ FileText(k)
      /\ AgentExact(a)
  BY DEF Kept, Talk, TypeOK
<1>2. act[a].at = "restored" /\ Busy(a)
  BY DEF Begin, Busy
<1>3. CASE Fails(a, {"append-only"})
  BY <1>2, <1>3, FailsTalks
<1>4. CASE /\ slot' = [slot EXCEPT ![m] =
                [messages |-> messages, records |-> p \o u,
                 revision |-> IF u = <<>> THEN r ELSE target]]
           /\ Goes(a, "begun") /\ UNCHANGED <<agent, memory, number>>
  <2>1. /\ Exists(a) /\ messages # <<>> /\ m \in Memories /\ memory[m] # None
        /\ messages = memory[m].messages /\ messages \in Seq(Messages) /\ Len(messages) \in Nat
        /\ act[a] \in Activation
    BY <1>1, <1>2, HandleTypes DEF HandlesExact, Said
  <2>2. \A b \in Agents : Mem(b) = m => b = a
    BY <1>1, <2>1 DEF HandlesExact, Exists, Mem
  <2>3. /\ act'[a] = [act[a] EXCEPT !.at = "begun"] /\ \A b \in Agents \ {a} : act'[b] = act[b]
        /\ slot'[m].messages = messages /\ slot'[m].records = p \o u
        /\ slot'[m].revision = IF u = <<>> THEN r ELSE target
        /\ \A k \in Memories \ {m} : slot'[k] = slot[k]
    BY <1>1, <1>4, <2>1 DEF Goes, TypeOK
  <2>4. /\ act'[a].at = "begun" /\ act'[a].resuming = act[a].resuming /\ act'[a].turn = "none"
    BY <1>1, <1>2, <2>1, <2>3 DEF Activation, HandlesExact
  <2>5. \A b \in Agents : Mem(b) = m => act[b].at # "prompting"
    BY <1>2, <2>2
  <2>6. /\ p \in Seq(Entries) /\ Numbered(p) /\ r \in Nat /\ r <= Len(messages) /\ Tells(p, messages, r)
    BY <1>1, <2>1, <2>5, PersistedTells
  <2>7. target \in Nat /\ target <= Len(messages) /\ r <= target
    <3>1. Len(messages) # 0
      BY <2>1, EmptySeq
    <3>2. target = IF act[a].resuming THEN Len(messages) ELSE Len(messages) - 1
      BY DEF Target
    <3>3. ~act[a].resuming => r < Len(messages)
      <4>1. CASE memory[m].checkpoint = None
        BY <2>1, <3>1, <4>1 DEF persistedRevision
      <4>2. CASE memory[m].checkpoint # None
        <5>1. r = memory[m].checkpoint.revision
          BY <4>2 DEF persistedRevision
        <5> QED
          BY <1>1, <1>2, <4>2, <5>1 DEF AgentExact, Checkpoint
      <4> QED
        BY <4>1, <4>2
    <3> QED
      BY <2>1, <2>6, <3>1, <3>2, <3>3
  <2>8. u = SubSeq(messages, r + 1, target)
    BY DEF Unsynchronized
  <2>9. Numbered(messages) /\ Answerable(messages)
    BY <1>1, <2>1 DEF MemoryText
  <2>10. Tells(p \o u, messages, target)
    BY <1>1, <2>1, <2>6, <2>7, <2>8, <2>9, TellsMore
  <2>11. Numbered(p \o u)
    BY <2>1, <2>6, <2>7, <2>8, <2>9, NumberedMore
  <2>12. u = <<>> => r = target
    <3> SUFFICES ASSUME u = <<>>, r # target PROVE FALSE
      OBVIOUS
    <3>1. r + 1 \in Nat \ {0} /\ target \in Int /\ r + 1 <= target
      BY <2>6, <2>7
    <3> DEFINE n == r + 1
    <3>2. Len(u) = target - n + 1
      <4>1. n \in Nat \ {0} /\ target \in Int /\ target <= Len(messages) /\ n <= target
        BY <2>7, <3>1
      <4>2. u = SubSeq(messages, n, target)
        BY <2>8
      <4> HIDE DEF n
      <4>3. Len(SubSeq(messages, n, target)) = IF n <= target THEN target - n + 1 ELSE 0
        BY <2>1, <4>1, Part
      <4> QED
        BY <4>1, <4>2, <4>3
    <3>3. Len(u) = 0
      OBVIOUS
    <3> QED
      BY <2>6, <2>7, <3>1, <3>2, <3>3
  <2>13. FileText(m)'
    <3>1. Numbered(p \o u)' /\ Numbered(messages)'
      BY <1>1, <1>4, <2>9, <2>11, NumberedStays
    <3>2. slot'[m].revision = target
      BY <2>3, <2>12
    <3> QED
      BY <2>3, <2>9, <2>10, <3>1, <3>2 DEF FileText
  <2>14. MemoryText(m)' /\ number <= number'
    BY <1>1, <1>4, <2>1, <2>5, TextFrame
  <2>15. TalkExact(a)'
    <3>1. Mem(a)' = m /\ Said(a)' = messages
      BY <1>4 DEF Mem, Said
    <3>2. Target(a)' = target
      BY <2>4, <3>1 DEF Target
    <3>3. slot'[m].revision = target
      BY <2>3, <2>12
    <3> QED
      BY <2>4, <3>1, <3>2, <3>3 DEF TalkExact
  <2>16. \A b \in Agents : Mem(b)' = Mem(b)
    BY <1>4 DEF Mem
  <2> QED
    BY <1>4, <2>1, <2>3, <2>13, <2>14, <2>15, <2>16, TalkLocal
<1>5. UNCHANGED bounds => number' = number
  BY DEF bounds
<1> QED
  BY <1>3, <1>4, <1>5 DEF Begin

(* execute() keeps the invariant, with and without a session.               *)
LEMMA ExecuteTalks ==
  ASSUME Kept, Kept', Talk, NEW a \in Agents, ExecuteNew(a) \/ ExecuteSession(a)
  PROVE  Talk'
<1> SUFFICES ASSUME NEW m, m = Mem(a) PROVE Talk'
  OBVIOUS
<1>1. /\ TypeOK /\ HandlesExact /\ number \in Nat /\ number' \in Nat
      /\ \A k \in Memories : MemoryText(k) /\ FileText(k)
      /\ AgentExact(a) /\ TalkExact(a)
  BY DEF Kept, Talk, TypeOK
<1>2. act[a].at = "begun" /\ Busy(a)
  BY DEF ExecuteNew, ExecuteSession, Busy
<1>3. /\ Exists(a) /\ m \in Memories /\ Said(a) \in Seq(Messages) /\ Len(Said(a)) \in Nat /\ act[a] \in Activation
  BY <1>1, <1>2, HandleTypes DEF HandlesExact
<1>4. \A why : Fails(a, why) => Talk'
  BY <1>2, FailsTalks
<1>5. ASSUME NEW s, act' = [act EXCEPT ![a].at = "prompting", ![a].session = s, ![a].turn = "prompt"],
             UNCHANGED <<agent, memory, slot, number>>, resumeNativeSession(a) <=> act[a].resuming
      PROVE  Talk'
  <2>1. /\ act'[a].at = "prompting" /\ act'[a].turn = "prompt" /\ act'[a].resuming = act[a].resuming
        /\ \A b \in Agents \ {a} : act'[b] = act[b]
    BY <1>1, <1>3, <1>5 DEF TypeOK, Activation
  <2>2. /\ Said(a)' = Said(a) /\ \A b \in Agents : Mem(b)' = Mem(b)
    BY <1>5 DEF Mem, Said
  <2>3. Target(a)' = Target(a) /\ (resumeNativeSession(a)' <=> resumeNativeSession(a))
    BY <1>5, <2>1, <2>2 DEF Target, resumeNativeSession, Missing
  <2>4. TalkExact(a)'
    BY <1>1, <1>2, <1>5, <2>1, <2>2, <2>3 DEF TalkExact
  <2>5. number <= number' /\ FileText(m)'
    BY <1>1, <1>3, <1>5, FileFrame
  <2>6. MemoryText(m)'
    <3>1. (\A b \in Agents : Mem(b)' = m => act'[b].at # "prompting") =>
            \A b \in Agents : Mem(b) = m => act[b].at # "prompting"
      BY <2>1, <2>2
    <3> QED
      BY <1>1, <1>3, <1>5, <2>5, <3>1, TextFrame
  <2> QED
    BY <1>3, <1>5, <2>1, <2>2, <2>4, <2>5, <2>6, TalkLocal
<1>6. CASE ExecuteNew(a)
  <2>1. ~act[a].resuming /\ ~resumeNativeSession(a)
    BY <1>1, <1>2, <1>6 DEF ExecuteNew, AgentExact, resumeNativeSession
  <2> QED
    BY <1>5, <1>6, <2>1 DEF ExecuteNew, bounds
<1>7. CASE ExecuteSession(a)
  <2>1. agent[a].session # None
    BY <1>7 DEF ExecuteSession
  <2>2. act[a].resuming => Missing(a) = <<>>
    <3> SUFFICES ASSUME act[a].resuming PROVE Missing(a) = <<>>
      OBVIOUS
    <3>1. agent[a].revision = Len(Said(a))
      BY <1>1, <1>2, <2>1 DEF AgentExact
    <3> QED
      BY <1>3, <3>1, SubSeqEmpty DEF Missing
  <2>3. resumeNativeSession(a) <=> act[a].resuming
    BY <2>1, <2>2 DEF resumeNativeSession
  <2> QED
    BY <1>4, <1>5, <1>7, <2>3 DEF ExecuteSession, bounds
<1> QED
  BY <1>6, <1>7

-----------------------------------------------------------------------------
\* What an entry of the turn adds.
Suitable(x, op, messages, revision) ==
  \/ x = <<"in", op>> /\ revision = Len(messages) - 1
  \/ x \in {<<"again", op>>, <<"mid", op>>} /\ revision = Len(messages)
  \/ x = <<"out", op>> /\ op \notin Formats /\ revision = Len(messages)
  \/ x = <<"text", op>> /\ op \in Formats /\ revision = Len(messages)
  \/ x = <<"fin", op>> /\ op \in Formats /\ revision = Len(messages)

\* The input op is open, and the file stands for what has been said.
Asked(records, messages, revision, op) ==
  /\ number \in Nat /\ op \in 1..number
  /\ records \in Seq(Entries) /\ messages \in Seq(Messages)
  /\ messages # <<>> /\ Last(messages) = <<"in", op>>
  /\ Numbered(records) /\ Numbered(messages) /\ Answerable(messages)
  /\ Tells(records, messages, revision)

\* The messages after entry x.
TurnSaid(x, messages) == IF x[1] \in {"out", "text"} THEN Append(messages, x) ELSE messages

(* Nothing follows the last message.                                        *)
LEMMA NothingFollows ==
  ASSUME NEW S, NEW messages \in Seq(S), NEW entries
  PROVE  TextsAlone(entries, messages, Len(messages))
<1>1. Len(messages) \in Nat /\ DOMAIN messages = 1..Len(messages)
  BY LenProperties
<1>2. \A i \in DOMAIN messages : ~(i > Len(messages))
  BY <1>1
<1> QED
  BY <1>2 DEF TextsAlone

(* One more entry of the turn: the prompt, a tool turn, or the answer. The  *)
(* file goes on to stand for the messages, and an answer is not said of an  *)
(* input that is open.                                                      *)
LEMMA TurnTells ==
  ASSUME NEW records, NEW messages, NEW revision, NEW op, NEW x,
         Asked(records, messages, revision, op), Suitable(x, op, messages, revision)
  PROVE  /\ Numbered(Append(records, x))
         /\ Numbered(TurnSaid(x, messages)) /\ Answerable(TurnSaid(x, messages))
         /\ Tells(Append(records, x), TurnSaid(x, messages), Len(TurnSaid(x, messages)))
         /\ x[1] \in {"out", "text", "fin"} => Conversation(Append(records, x), op) = messages
         /\ x[1] = "fin" => Has(Append(records, x), <<"fin", op>>)
<1> DEFINE next == TurnSaid(x, messages)
<1>0. next = IF x[1] \in {"out", "text"} THEN Append(messages, x) ELSE messages
  BY DEF TurnSaid
<1> HIDE DEF next
<1> USE DEF Asked
<1>1. /\ x \in Entries /\ x[2] = op /\ op # 0 /\ op \in Nat /\ (x[1] \in {"out", "text"} => x \in Messages)
  BY DEF Suitable, Entries, Messages
<1>2. Len(messages) \in Nat \ {0} /\ Last(messages) = messages[Len(messages)]
  BY LastIn
<1>3. SubSeq(messages, 1, Len(messages)) = messages
  BY <1>2, SubSeqFull
<1>4. OpenOf(messages) = op
  BY OpenIs
<1>5. /\ Conversation(records, op) = SubSeq(messages, 1, revision)
      /\ ~Has(records, <<"out", op>>) /\ ~Has(records, <<"text", op>>)
      /\ Has(records, <<"fin", op>>) => op \in Formats /\ revision = Len(messages)
      /\ Conversation(records, 0) = IF Has(records, <<"fin", op>>)
                                    THEN Append(SubSeq(messages, 1, revision), <<"out", op>>)
                                    ELSE SubSeq(messages, 1, revision)
  BY <1>1, <1>4 DEF Tells
<1>6. \A y : Has(Append(records, x), y) <=> Has(records, y) \/ y = x
  BY <1>1, HasIn
<1>7. Numbered(Append(records, x))
  <2>1. \A y : Has(Append(records, x), y) => y[1] = "tools" \/ y[2] \in 1..number
    BY <1>1, <1>6, NumberedHas
  <2> QED
    BY <2>1, NumberedHas
<1>8. \A k : x[1] # "text" \/ k = op =>
              Conversation(Append(records, x), k) =
                IF Adds(records, x, k) THEN Append(Conversation(records, k), Stated(x))
                ELSE Conversation(records, k)
  BY <1>1, ConvAppend
<1>13. \A entries : TextsAlone(entries, messages, Len(messages))
  BY NothingFollows
<1>9. CASE x = <<"in", op>> /\ revision = Len(messages) - 1
  <2>1. next = messages /\ Stated(x) = x /\ ~Has(records, <<"fin", op>>)
    BY <1>0, <1>2, <1>5, <1>9 DEF Stated
  <2>2. Adds(records, x, op) /\ Adds(records, x, 0)
    BY <1>9 DEF Adds
  <2>3. Append(SubSeq(messages, 1, revision), x) = messages
    <3>1. SubSeq(messages, 1, Len(messages) - 1) = Front(messages)
      BY DEF Front
    <3>2. Append(Front(messages), Last(messages)) = messages
      <4> DEFINE n == Len(messages)
                 f == SubSeq(messages, 1, n - 1)
                 g == Append(f, messages[n])
      <4>1. n - 1 \in Int /\ n - 1 <= n /\ n \in Nat /\ n # 0 /\ 1 \in Nat \ {0}
        BY <1>2
      <4>2. f \in Seq(Messages) /\ Len(f) = n - 1 /\ \A i \in 1..(n - 1) : f[i] = messages[i]
        <5> DEFINE k == n - 1
        <5>1. k \in Nat /\ k <= Len(messages)
          BY <1>2
        <5> HIDE DEF k, n
        <5>2. /\ SubSeq(messages, 1, k) \in Seq(Messages)
              /\ Len(SubSeq(messages, 1, k)) = IF 1 <= k THEN k - 1 + 1 ELSE 0
              /\ \A i \in 1..(k - 1 + 1) : SubSeq(messages, 1, k)[i] = messages[1 + i - 1]
          BY <5>1, Part
        <5>3. \A i \in 1..k : 1 + i - 1 = i
          OBVIOUS
        <5> QED
          BY <5>1, <5>2, <5>3 DEF k
      <4>3. messages[n] \in Messages
        BY <4>1, ElementOfSeq
      <4> HIDE DEF n, f
      <4>4. g \in Seq(Messages) /\ Len(g) = n /\ g[n] = messages[n] /\ \A i \in 1..(n - 1) : g[i] = messages[i]
        BY <4>1, <4>2, <4>3, AppendProperties
      <4> HIDE DEF g
      <4>5. \A i \in 1..n : g[i] = messages[i]
        <5> TAKE i \in 1..n
        <5>1. i = n \/ i \in 1..(n - 1)
          BY <4>1
        <5> QED
          BY <4>4, <5>1
      <4>6. g = messages
        BY <4>4, <4>5, SeqEqual DEF n
      <4> QED
        BY <1>2, <4>6 DEF Front, n, f, g
    <3> QED
      BY <1>9, <3>1, <3>2
  <2>4. Conversation(Append(records, x), op) = messages /\ Conversation(Append(records, x), 0) = messages
    <3>1. x[1] # "text"
      BY <1>9
    <3> QED
      BY <1>5, <1>8, <2>1, <2>2, <2>3, <3>1
  <2>5. /\ ~Has(Append(records, x), <<"out", op>>) /\ ~Has(Append(records, x), <<"text", op>>)
        /\ ~Has(Append(records, x), <<"fin", op>>)
    BY <1>5, <1>6, <1>9, <2>1
  <2>6. Tells(Append(records, x), next, Len(next))
    BY <1>3, <1>4, <1>13, <2>1, <2>4, <2>5 DEF Tells
  <2> QED
    BY <1>7, <1>9, <2>1, <2>6 DEF next
<1>10. CASE x \in {<<"again", op>>, <<"mid", op>>} /\ revision = Len(messages)
  <2>1. next = messages /\ x[1] \notin {"out", "text", "fin"}
    BY <1>0, <1>10
  <2>2. \A k : Conversation(Append(records, x), k) = Conversation(records, k)
    BY <1>8, <1>10 DEF Adds
  <2>3. \A y \in {<<"out", op>>, <<"text", op>>, <<"fin", op>>} : Has(Append(records, x), y) <=> Has(records, y)
    BY <1>6, <1>10
  <2>4. Tells(Append(records, x), next, Len(next))
    BY <1>4, <1>5, <1>10, <1>13, <2>1, <2>2, <2>3 DEF Tells
  <2> QED
    BY <1>7, <2>1, <2>4 DEF next
<1>11. CASE /\ revision = Len(messages)
            /\ (x = <<"out", op>> /\ op \notin Formats) \/ (x = <<"text", op>> /\ op \in Formats)
  <2>1. /\ next = Append(messages, x) /\ x[1] \in {"out", "text"}
        /\ x = <<"out", op>> => ~Has(records, <<"fin", op>>)
    BY <1>0, <1>5, <1>11
  <2>2. ~Adds(records, x, op)
    BY <1>11 DEF Adds
  <2>10. \A kind \in {"out", "text", "fin"} : ~Has(records, <<kind, 0>>)
    <3> SUFFICES ASSUME NEW kind \in {"out", "text", "fin"}, Has(records, <<kind, 0>>) PROVE FALSE
      OBVIOUS
    <3>1. <<kind, 0>>[2] \in 1..number
      BY NumberedHas
    <3> QED
      BY <3>1
  <2>11. Conversation(Append(records, x), 0) = Append(Conversation(records, op), x)
    <3>1. op \in Nat \ {0} /\ x \in {<<"out", op>>, <<"text", op>>}
      BY <1>1, <1>11
    <3> QED
      BY <1>5, <2>1, <2>10, <3>1, ConvFinal
  <2>3. Conversation(Append(records, x), op) = messages /\ Conversation(Append(records, x), 0) = next
    BY <1>3, <1>5, <1>8, <1>11, <2>1, <2>2, <2>11
  <2>4. OpenOf(next) = 0 /\ next \in Seq(Messages) /\ Len(next) \in Nat
    BY <1>1, <1>11, <2>1, OpenIs, AppendProperties, LenProperties
  <2>5. \A y : Has(next, y) <=> Has(messages, y) \/ y = x
    <3>1. x \in Messages
      BY <1>1, <1>11
    <3>2. \A y : Has(Append(messages, x), y) <=> Has(messages, y) \/ y = x
      BY <3>1, HasIn
    <3> QED
      BY <2>1, <3>2
  <2>6. Numbered(next)
    <3>1. \A y : Has(next, y) => y[1] = "tools" \/ y[2] \in 1..number
      BY <1>1, <2>5, NumberedHas
    <3> QED
      BY <3>1, NumberedHas
  <2>7. Answerable(next)
    <3> SUFFICES ASSUME NEW kind \in {"out", "text"}, Has(next, <<kind, 0>>) PROVE FALSE
      BY <2>4 DEF Answerable
    <3>1. <<kind, 0>>[2] \in 1..number
      BY <2>6, NumberedHas
    <3> QED
      BY <3>1
  <2>8. SubSeq(next, 1, Len(next)) = next
    BY <2>4, SubSeqFull
  <2>9. Tells(Append(records, x), next, Len(next))
    <3>1. TextsAlone(Append(records, x), next, Len(next))
      BY <2>4, NothingFollows
    <3> QED
      BY <2>3, <2>4, <2>8, <3>1 DEF Tells
  <2> QED
    BY <1>7, <1>11, <2>3, <2>6, <2>7, <2>9 DEF next
<1>12. CASE x = <<"fin", op>> /\ op \in Formats /\ revision = Len(messages)
  <2>1. next = messages /\ Stated(x) = <<"out", op>>
    BY <1>0, <1>1, <1>12 DEF Stated
  <2>2. ~Adds(records, x, op) /\ (Adds(records, x, 0) <=> ~Has(records, x))
    BY <1>1, <1>5, <1>12 DEF Adds
  <2>3. Conversation(Append(records, x), op) = messages
    BY <1>3, <1>5, <1>8, <1>12, <2>2
  <2>4. Conversation(Append(records, x), 0) = Append(messages, <<"out", op>>)
    BY <1>3, <1>5, <1>8, <1>12, <2>1, <2>2
  <2>5. /\ Has(Append(records, x), <<"fin", op>>) /\ ~Has(Append(records, x), <<"out", op>>)
        /\ ~Has(Append(records, x), <<"text", op>>)
    BY <1>5, <1>6, <1>12
  <2>6. Tells(Append(records, x), next, Len(next))
    BY <1>3, <1>4, <1>12, <1>13, <2>1, <2>3, <2>4, <2>5 DEF Tells
  <2> QED
    BY <1>7, <2>1, <2>3, <2>5, <2>6 DEF next
<1> QED
  BY <1>9, <1>10, <1>11, <1>12 DEF Suitable, next

(* Changes of tools do not change what a file tells.                         *)
LEMMA AskedStill ==
  ASSUME NEW records, NEW messages, NEW revision, NEW op, Asked(records, messages, revision, op),
         NEW tail \in Seq(Changes)
  PROVE  Asked(records \o tail, messages, revision, op)
<1> DEFINE base == records \o tail
<1> USE DEF Asked
<1>1. /\ base \in Seq(Entries)
      /\ \A k : Conversation(base, k) = Conversation(records, k)
      /\ \A x : x[1] # "tools" => (Has(base, x) <=> Has(records, x))
  BY ConvChanges
<1> HIDE DEF base
<1>2. \A kind \in {"out", "text", "fin"} : \A k : Has(base, <<kind, k>>) <=> Has(records, <<kind, k>>)
  BY <1>1
<1>3. Numbered(base)
  <2>1. \A x : Has(base, x) => x[1] = "tools" \/ x[2] \in 1..number
    BY <1>1, NumberedHas
  <2> QED
    BY <2>1, NumberedHas
<1>4. TextsAlone(records, messages, revision) => TextsAlone(base, messages, revision)
  BY <1>2 DEF TextsAlone
<1>5. Tells(base, messages, revision)
  <2> DEFINE o == OpenOf(messages)
             said == SubSeq(messages, 1, revision)
  <2>1. /\ Conversation(records, o) = said /\ TextsAlone(records, messages, revision)
        /\ o # 0 =>
             /\ ~Has(records, <<"out", o>>) /\ ~Has(records, <<"text", o>>)
             /\ Has(records, <<"fin", o>>) => o \in Formats /\ revision = Len(messages)
             /\ Conversation(records, 0) = IF Has(records, <<"fin", o>>) THEN Append(said, <<"out", o>>)
                                           ELSE said
    BY DEF Tells
  <2>2. /\ Conversation(base, o) = said /\ TextsAlone(base, messages, revision)
        /\ o # 0 =>
             /\ ~Has(base, <<"out", o>>) /\ ~Has(base, <<"text", o>>)
             /\ Has(base, <<"fin", o>>) => o \in Formats /\ revision = Len(messages)
             /\ Conversation(base, 0) = IF Has(base, <<"fin", o>>) THEN Append(said, <<"out", o>>)
                                        ELSE said
    <3> HIDE DEF o, said
    <3> QED
      BY <1>1, <1>2, <1>4, <2>1
  <2> QED
    BY <2>2 DEF Tells
<1>6. Asked(base, messages, revision, op)
  BY <1>1, <1>3, <1>5
<1> QED
  BY <1>6 DEF base

(* One entry after changes of tools.                                        *)
LEMMA ChangesThen ==
  ASSUME NEW tail \in Seq(Changes)
  PROVE  \A r \in Seq(Entries), y \in Entries : r \o Append(tail, y) = Append(r \o tail, y)
<1>1. tail \in Seq(Entries)
  <2>1. Changes \subseteq Entries
    BY DEF Changes, Entries
  <2> QED
    BY <2>1, SeqMonotonic
<1>2. ASSUME NEW r \in Seq(Entries), NEW y \in Entries
      PROVE  r \o Append(tail, y) = Append(r \o tail, y)
  BY <1>1, ConcatNext
<1> QED
  BY <1>2

(* The entry of a durability event suits the turn.                          *)
LEMMA EntrySuits ==
  ASSUME NEW a \in Agents, WorkExact(a), TalkExact(a), ~overlooked, act[a].at = "prompting",
         NEW m, m = Mem(a), NEW op, op = act[a].op,
         NEW messages, messages = Said(a), messages \in Seq(Messages),
         NEW x \in NextEntries(a), NEW turn \in After(a, x),
         act[a].turn \in {"prompt", "work", "closing", "submitted"}
  PROVE  /\ Suitable(x, op, messages, slot[m].revision) /\ slot[m].messages = messages
         /\ turn # "prompt"
         /\ turn \in {"answered", "unaccepted"} => x[1] \in {"out", "text", "fin"}
         /\ turn = "answered" /\ op \in Formats => x[1] = "fin"
<1>1. /\ slot[m].messages = messages
      /\ act[a].turn # "prompt" => slot[m].revision = Len(messages)
  <2>1. Given(a) = <<>>
    BY DEF Given
  <2>2. messages \o <<>> = messages
    BY ConcatEmptySeq
  <2> QED
    BY <2>1, <2>2 DEF WorkExact
<1>2. CASE act[a].turn = "prompt"
  <2>1. slot[m].revision = IF act[a].resuming THEN Len(messages) ELSE Len(messages) - 1
    BY <1>2 DEF TalkExact, Target
  <2>2. x = <<IF act[a].resuming THEN "again" ELSE "in", op>>
    BY <1>2 DEF TalkExact, NextEntries, Prompt
  <2>3. x[1] \in {"in", "again"} /\ turn = "work"
    BY <2>2 DEF After
  <2> QED
    BY <1>1, <2>1, <2>2, <2>3 DEF Suitable
<1>3. CASE act[a].turn = "submitted"
  <2>1. x = <<"fin", op>> /\ op \in Formats
    BY <1>3 DEF NextEntries, WorkExact
  <2>2. turn = "answered"
    BY <2>1 DEF After
  <2> QED
    BY <1>1, <1>3, <2>1, <2>2 DEF Suitable
<1>4. CASE act[a].turn \in {"work", "closing"}
  <2>1. x = <<"mid", op>> \/ x = FinalText(a)
    BY <1>4 DEF NextEntries
  <2>2. CASE x = <<"mid", op>>
    <3>1. turn \in {"closing", "submitted"}
      BY <2>2 DEF After
    <3> QED
      BY <1>1, <1>4, <2>2, <3>1 DEF Suitable
  <2>3. CASE x = <<"text", op>> /\ op \in Formats
    <3>1. turn = "unaccepted"
      BY <2>3 DEF After
    <3> QED
      BY <1>1, <1>4, <2>3, <3>1 DEF Suitable
  <2>4. CASE x = <<"out", op>> /\ op \notin Formats
    <3>1. turn = "answered"
      BY <2>4 DEF After
    <3> QED
      BY <1>1, <1>4, <2>4, <3>1 DEF Suitable
  <2> QED
    BY <2>1, <2>2, <2>3, <2>4 DEF FinalText
<1> QED
  BY <1>2, <1>3, <1>4

(* A durability event keeps the invariant.                                  *)
LEMMA AdvancesTalks ==
  ASSUME Kept, Kept', Talk, ~overlooked, NEW a \in Agents, act[a].at = "prompting",
         NEW m, m = Mem(a), NEW n, n = act[a].session,
         NEW x \in NextEntries(a), NEW turn \in After(a, x), NEW added, Advances(a, m, n, x, turn, added)
  PROVE  Talk'
<1> SUFFICES ASSUME NEW op, op = act[a].op,
                    NEW messages, messages = Said(a), NEW records, records = slot[m].records,
                    NEW revision, revision = slot[m].revision
             PROVE  Talk'
  OBVIOUS
<1>1. /\ TypeOK /\ HandlesExact /\ number \in Nat /\ number' \in Nat
      /\ \A k \in Memories : MemoryText(k) /\ FileText(k)
      /\ WorkExact(a) /\ TalkExact(a)
  BY DEF Kept, Talk, TypeOK
<1>2. Busy(a)
  BY DEF Busy
<1>3. /\ Exists(a) /\ m \in Memories /\ memory[m] # None /\ act[a] \in Activation
      /\ messages \in Seq(Messages) /\ messages # <<>> /\ Last(messages) = <<"in", op>>
      /\ messages = memory[m].messages
  BY <1>1, <1>2, HandleTypes DEF HandlesExact, Said
<1>5. /\ x \in Entries /\ act[a].turn \in {"prompt", "work", "closing", "submitted"}
      /\ slot' = [slot EXCEPT ![m] = Continued(slot[m], added)]
      /\ act' = [act EXCEPT ![a] = [@ EXCEPT !.turn = turn]]
      /\ UNCHANGED <<agent, memory, number>>
      /\ \E tail \in Seq(Changes) : added = Append(tail, x)
  BY DEF Advances
<1>6. slot[m] # None
  BY <1>1 DEF WorkExact
<1>7. /\ slot[m] \in SlotState /\ records \in Seq(Entries) /\ slot[m].messages = messages
      /\ Numbered(records) /\ Numbered(messages) /\ Answerable(messages) /\ Tells(records, messages, revision)
      /\ Suitable(x, op, messages, revision) /\ turn # "prompt"
      /\ turn \in {"answered", "unaccepted"} => x[1] \in {"out", "text", "fin"}
      /\ turn = "answered" /\ op \in Formats => x[1] = "fin"
  <2>1. /\ Suitable(x, op, messages, revision) /\ slot[m].messages = messages /\ turn # "prompt"
        /\ turn \in {"answered", "unaccepted"} => x[1] \in {"out", "text", "fin"}
        /\ turn = "answered" /\ op \in Formats => x[1] = "fin"
    <3>1. WorkExact(a) /\ TalkExact(a) /\ messages \in Seq(Messages)
      BY <1>1, <1>3
    <3>2. act[a].turn \in {"prompt", "work", "closing", "submitted"}
      BY <1>5
    <3>3. /\ Suitable(x, op, messages, slot[m].revision) /\ slot[m].messages = messages
          /\ turn # "prompt"
          /\ turn \in {"answered", "unaccepted"} => x[1] \in {"out", "text", "fin"}
          /\ turn = "answered" /\ op \in Formats => x[1] = "fin"
      BY <3>1, <3>2, EntrySuits
    <3> QED
      BY <3>3
  <2> QED
    BY <1>1, <1>3, <1>6, <2>1, MemoryTypes DEF FileText
<1>8. op \in 1..number
  <2>1. Has(messages, <<"in", op>>)
    BY <1>3, HasLast
  <2>2. <<"in", op>>[1] # "tools" /\ <<"in", op>>[2] \in 1..number
    BY <1>7, <2>1, NumberedHas
  <2> QED
    BY <2>2
<1>9. PICK tail \in Seq(Changes) : added = Append(tail, x)
  BY <1>5
<1> SUFFICES ASSUME NEW next, next = TurnSaid(x, messages), NEW base, base = records \o tail,
                    NEW more, more = Append(base, x)
             PROVE  Talk'
  OBVIOUS
<1>11. /\ Numbered(more) /\ Numbered(next) /\ Answerable(next) /\ Tells(more, next, Len(next))
       /\ x[1] \in {"out", "text", "fin"} => Conversation(more, op) = messages
       /\ x[1] = "fin" => Has(more, <<"fin", op>>)
  <2>1. Asked(records, messages, revision, op)
    BY <1>1, <1>3, <1>7, <1>8 DEF Asked
  <2>2. Asked(base, messages, revision, op)
    BY <2>1, AskedStill
  <2> QED
    BY <1>7, <2>2, TurnTells
<1>12. /\ slot'[m].records = more /\ slot'[m].messages = next /\ slot'[m].revision = Len(next)
       /\ \A k \in Memories \ {m} : slot'[k] = slot[k]
  <2>1. records \o added = more
    <3>1. records \in Seq(Entries) /\ x \in Entries
      BY <1>5, <1>7
    <3>2. \A r \in Seq(Entries), y \in Entries : r \o Append(tail, y) = Append(r \o tail, y)
      BY ChangesThen
    <3> QED
      BY <1>9, <3>1, <3>2
  <2>2. Projected(messages, added) = next
    <3>1. x # Last(messages) \/ x[1] \notin {"out", "text"}
      BY <1>3
    <3>2. Projected(messages, added) = IF x[1] \in {"out", "text"} THEN messages \o <<x>> ELSE messages
      BY <1>3, <1>5, <1>9, <3>1, ProjectedOne
    <3>3. x[1] \in {"out", "text"} => Append(messages, x) = messages \o <<x>>
      <4> SUFFICES ASSUME x[1] \in {"out", "text"} PROVE Append(messages, x) = messages \o <<x>>
        OBVIOUS
      <4>1. x \in Messages
        BY <1>5 DEF Entries, Messages
      <4> QED
        BY <1>3, <4>1, AppendIsConcat
    <3> QED
      BY <3>2, <3>3 DEF TurnSaid
  <2> DEFINE file == Continued(slot[m], added)
  <2>3. file.records = more /\ file.messages = next /\ file.revision = Len(next)
    BY <1>6, <1>7, <2>1, <2>2 DEF SlotState, Continued
  <2> HIDE DEF file
  <2>4. slot' = [slot EXCEPT ![m] = file]
    BY <1>5 DEF file
  <2> QED
    BY <1>1, <1>3, <2>3, <2>4 DEF TypeOK
<1>13. FileText(m)'
  <2>1. Numbered(more)' /\ Numbered(next)'
    BY <1>1, <1>5, <1>11, NumberedStays
  <2> QED
    BY <1>11, <1>12, <2>1 DEF FileText
<1>14. /\ act'[a].at = "prompting" /\ act'[a].turn = turn /\ act'[a].op = op
       /\ \A b \in Agents \ {a} : act'[b] = act[b]
  BY <1>1, <1>2, <1>3, <1>5 DEF TypeOK, Activation
<1>15. number <= number' /\ \A b \in Agents : Mem(b)' = Mem(b)
  BY <1>1, <1>5 DEF Mem
<1>16. MemoryText(m)'
  <2>1. (\A b \in Agents : Mem(b)' = m => act'[b].at # "prompting") =>
          \A b \in Agents : Mem(b) = m => act[b].at # "prompting"
    BY <1>14, <1>15
  <2> QED
    BY <1>1, <1>3, <1>5, <1>15, <2>1, TextFrame
<1>17. TalkExact(a)'
  <2>1. Mem(a)' = m /\ Said(a)' = messages
    BY <1>5 DEF Mem, Said
  <2> QED
    BY <1>5, <1>7, <1>11, <1>12, <1>14, <2>1 DEF TalkExact
<1> QED
  BY <1>3, <1>5, <1>12, <1>13, <1>14, <1>15, <1>16, <1>17, TalkLocal

(* A step of a session that is prompted keeps the invariant.                 *)
LEMMA TurnTalks ==
  ASSUME Kept, Kept', Talk, ~overlooked, NEW a \in Agents, Turn(a)
  PROVE  Talk'
<1> SUFFICES ASSUME NEW m, m = Mem(a), NEW n, n = act[a].session PROVE Talk'
  OBVIOUS
<1>1. PICK entry \in NextEntries(a) : \E turn \in After(a, entry) :
        \E records : Advances(a, m, n, entry, turn, records)
  BY TurnIs
<1>2. PICK turn \in After(a, entry) : \E records : Advances(a, m, n, entry, turn, records)
  BY <1>1
<1>3. PICK records : Advances(a, m, n, entry, turn, records)
  BY <1>2
<1>4. act[a].at = "prompting"
  BY DEF Turn
<1> QED
  BY <1>3, <1>4, AdvancesTalks

(* The end of an activation keeps the invariant: the memory says what the   *)
(* file says.                                                               *)
LEMMA ReturnTalks ==
  ASSUME Kept, Kept', Talk, ~overlooked, NEW a \in Agents, Return(a)
  PROVE  Talk'
<1> SUFFICES ASSUME NEW m, m = Mem(a), NEW n, n = act[a].session, NEW op, op = act[a].op,
                    NEW said, said = Said(a), NEW records, records = slot[m].records,
                    NEW messages, messages = Append(said, <<"out", op>>),
                    NEW leaf, leaf = Len(session[n].entries \o ToolEntry(op))
             PROVE  Talk'
  OBVIOUS
<1>1. /\ TypeOK /\ HandlesExact /\ HandlesExact' /\ number \in Nat /\ number' \in Nat
      /\ \A k \in Memories : MemoryText(k) /\ FileText(k)
      /\ WorkExact(a) /\ TalkExact(a) /\ SessionsExact
  BY DEF Kept, Talk, TypeOK
<1>2. act[a].at = "prompting" /\ act[a].turn = "answered" /\ Busy(a) /\ n # None
  BY <1>1 DEF Return, Busy, HandlesExact
<1>3. /\ Exists(a) /\ m \in Memories /\ memory[m] # None /\ act[a] \in Activation /\ agent[a] \in AgentState
      /\ said \in Seq(Messages) /\ said # <<>> /\ Last(said) = <<"in", op>> /\ said = memory[m].messages
  BY <1>1, <1>2, HandleTypes DEF HandlesExact, Said
<1>4. session[n].durable = records
  BY <1>1, <1>2 DEF WorkExact
<1>5. /\ agent' = [agent EXCEPT ![a] = [@ EXCEPT !.session = n, !.leaf = leaf,
                                                 !.revision = Len(messages)]]
      /\ memory' = [memory EXCEPT ![m] =
           [messages |-> messages,
            checkpoint |-> [session |-> n, leaf |-> leaf, records |-> records,
                            revision |-> Len(messages), prompt |-> agent[a].prompt]]]
      /\ slot' = [slot EXCEPT ![m] = [messages |-> messages, records |-> records,
                                      revision |-> Len(messages)]]
      /\ act' = [act EXCEPT ![a] = noAct] /\ number' = number
  BY <1>4 DEF Return, exportSession, bounds
<1>6. /\ slot[m] # None /\ slot[m].revision = Len(slot[m].messages)
      /\ slot[m].messages = IF op \notin Formats THEN messages ELSE said
      /\ Conversation(records, op) = said
      /\ op \in Formats => Has(records, <<"fin", op>>)
  <2>1. slot[m].messages = said \o Given(a)
    BY <1>1, <1>2 DEF WorkExact
  <2>2. Given(a) = IF op \notin Formats THEN <<<<"out", op>>>> ELSE <<>>
    BY <1>2 DEF Given, FinalText
  <2>3. said \o <<>> = said
    BY <1>3, ConcatEmptySeq
  <2>4. said \o <<<<"out", op>>>> = messages
    <3>1. said \in Seq({"in", "out", "app", "text"} \X Nat) /\ <<"out", op>> \in {"in", "out", "app", "text"} \X Nat
      BY <1>3 DEF Messages, Activation
    <3> QED
      BY <3>1, AppendIsConcat
  <2>5. /\ slot[m] # None /\ slot[m].revision = Len(slot[m].messages)
        /\ Conversation(records, op) = said
        /\ op \in Formats => Has(records, <<"fin", op>>)
    BY <1>1, <1>2 DEF WorkExact, TalkExact
  <2> QED
    BY <2>1, <2>2, <2>3, <2>4, <2>5
<1>7. /\ records \in Seq(Entries) /\ Numbered(records) /\ Numbered(said)
      /\ Tells(records, slot[m].messages, slot[m].revision)
  BY <1>1, <1>3, <1>6, MemoryTypes DEF FileText, MemoryText
<1>8. op \in 1..number
  <2>1. Has(said, <<"in", op>>)
    BY <1>3, HasLast
  <2>2. <<"in", op>>[1] # "tools" /\ <<"in", op>>[2] \in 1..number
    BY <1>7, <2>1, NumberedHas
  <2> QED
    BY <2>2
<1>9. /\ <<"out", op>> \in Messages /\ messages \in Seq(Messages)
      /\ OpenOf(messages) = 0 /\ SubSeq(messages, 1, Len(messages)) = messages
      /\ SubSeq(said, 1, Len(said)) = said /\ OpenOf(said) = op
  <2>1. <<"out", op>> \in Messages
    BY <1>8 DEF Messages
  <2> QED
    BY <1>3, <2>1, OpenIs, AppendProperties, SubSeqFull
<1>10. Conversation(records, 0) = messages
  <2>1. CASE op \notin Formats
    BY <1>6, <1>7, <1>9, <2>1 DEF Tells
  <2>2. CASE op \in Formats
    <3>1. Tells(records, said, Len(said)) /\ Has(records, <<"fin", op>>) /\ op # 0
      BY <1>6, <1>7, <1>8, <2>2
    <3> QED
      BY <1>9, <3>1 DEF Tells
  <2> QED
    BY <2>1, <2>2
<1>11. Tells(records, messages, Len(messages))
  <2>1. TextsAlone(records, messages, Len(messages))
    BY <1>9, NothingFollows
  <2> QED
    BY <1>9, <1>10, <2>1 DEF Tells
<1>12. Numbered(messages)' /\ Answerable(messages) /\ Numbered(records)' /\ number <= number'
  <2>1. <<"out", op>>[2] \in 1..number' /\ <<"out", op>>[1] # "in" /\ number <= number'
    BY <1>1, <1>5, <1>8
  <2> QED
    BY <1>1, <1>3, <1>7, <1>9, <2>1, NextMessage, NumberedStays
<1>13. /\ memory'[m].messages = messages /\ memory'[m].checkpoint.records = records
       /\ memory'[m].checkpoint.revision = Len(messages)
       /\ slot'[m].messages = messages /\ slot'[m].records = records /\ slot'[m].revision = Len(messages)
       /\ \A k \in Memories \ {m} : memory'[k] = memory[k] /\ slot'[k] = slot[k]
  BY <1>1, <1>3, <1>5 DEF TypeOK
<1>14. MemoryText(m)' /\ FileText(m)'
  BY <1>11, <1>12, <1>13 DEF MemoryText, FileText
<1>15. /\ act'[a].at = "idle" /\ \A b \in Agents \ {a} : act'[b] = act[b] /\ agent'[b] = agent[b]
       /\ \A b \in Agents : Mem(b)' = Mem(b)
  BY <1>1, <1>3, <1>5 DEF TypeOK, noAct, AgentState, Mem
<1>16. TalkExact(a)'
  BY <1>1, <1>15, AtRest
<1> QED
  BY <1>3, <1>12, <1>13, <1>14, <1>15, <1>16, TalkLocal

-----------------------------------------------------------------------------
(* What loadState() brings back tells of all the messages.                  *)
LEMMA TellsAll ==
  ASSUME NEW entries \in Seq(Entries), NEW messages \in Seq(Messages), NEW revision \in Nat,
         revision <= Len(messages), Tells(entries, messages, revision), Numbered(entries),
         Answerable(messages), number \in Nat, Numbered(messages),
         NEW u, u = SubSeq(messages, revision + 1, Len(messages)), NEW records, records = entries \o u
  PROVE  Tells(records, messages, Len(messages)) /\ Numbered(records)
<1>1. Len(messages) \in Nat /\ Len(messages) <= Len(messages)
  BY LenProperties
<1>2. Tells(entries \o SubSeq(messages, revision + 1, Len(messages)), messages, Len(messages))
  BY <1>1, TellsMore
<1>3. Numbered(entries \o SubSeq(messages, revision + 1, Len(messages)))
  BY <1>1, NumberedMore
<1> QED
  BY <1>2, <1>3

(* A crash keeps the invariant: what the next process loads stands for all  *)
(* the messages it finds.                                                   *)
LEMMA CrashTalks ==
  ASSUME Kept, Kept', Talk, Crash
  PROVE  Talk'
<1>1. /\ TypeOK /\ HandlesExact /\ HandlesExact' /\ number \in Nat /\ number' \in Nat
      /\ \A k \in Memories : FileExact(k) /\ MemoryText(k) /\ FileText(k)
  BY DEF Kept, Talk, TypeOK
<1>2. slot' = slot /\ number' = number /\ act' = [b \in Agents |-> noAct]
  BY DEF Crash
<1>3. \A n \in Memories : FileText(n)'
  BY <1>1, <1>2, FileFrame
<1>4. \A b \in Agents : TalkExact(b)'
  <2> TAKE b \in Agents
  <2>1. act'[b].at = "idle"
    BY <1>2 DEF noAct
  <2> QED
    BY <1>1, <2>1, AtRest
<1>5. ASSUME NEW m \in Memories, slot[m] # None PROVE MemoryText(m)'
  <2> SUFFICES ASSUME NEW messages, messages = slot[m].messages, NEW old, old = slot[m].records,
                      NEW revision, revision = slot[m].revision, NEW records, records = Loaded(m),
                      NEW u, u = Behind(slot[m])
               PROVE  MemoryText(m)'
    OBVIOUS
  <2>1. /\ messages \in Seq(Messages) /\ old \in Seq(Entries) /\ revision \in Nat
        /\ Len(messages) \in Nat /\ revision <= Len(messages)
        /\ Numbered(old) /\ Numbered(messages) /\ Answerable(messages) /\ Tells(old, messages, revision)
    BY <1>1, <1>5, MemoryTypes DEF FileExact, FileText
  <2>2. u = SubSeq(messages, revision + 1, Len(messages)) /\ records = old \o u
    BY <2>1 DEF Behind, Loaded
  <2>3. Tells(records, messages, Len(messages)) /\ Numbered(records)
    BY <1>1, <2>1, <2>2, TellsAll
  <2>4. Numbered(records)' /\ Numbered(messages)'
    BY <1>1, <1>2, <2>1, <2>3, NumberedStays
  <2>5. /\ memory'[m].messages = messages
        /\ memory'[m].checkpoint.records = records /\ memory'[m].checkpoint.revision = Len(messages)
    <3> DEFINE point == [session |-> None, leaf |-> 0, prompt |-> None,
                         records |-> records, revision |-> Len(messages)]
               loaded == [messages |-> messages, checkpoint |-> point]
    <3>1. memory'[m] = loaded
      BY <1>5, <2>1 DEF Crash
    <3> QED
      BY <3>1
  <2> QED
    BY <2>1, <2>3, <2>4, <2>5 DEF MemoryText
<1>6. ASSUME slot[Main] = None PROVE MemoryText(Main)'
  <2> SUFFICES ASSUME NEW messages, messages = OfKind(memory[Main].messages, {"app"}) PROVE MemoryText(Main)'
    OBVIOUS
  <2>1. /\ memory[Main] # None /\ memory[Main].checkpoint = None /\ memory[Main] \in MemoryState
        /\ memory[Main].messages \in Seq(Messages) /\ Numbered(memory[Main].messages)
    BY <1>1, <1>6, MemoryTypes, HandleAssumption DEF HandlesExact, MemoryText
  <2>2. memory'[Main] = [memory[Main] EXCEPT !.messages = messages]
    BY <1>6, <2>1, HandleAssumption DEF Crash
  <2>3. memory'[Main].messages = messages /\ memory'[Main].checkpoint = None
    BY <2>1, <2>2 DEF MemoryState
  <2> DEFINE T == {x \in Messages : x[1] = "app" /\ x[2] \in 1..number}
  <2>4. messages \in Seq(T)
    <3> DEFINE s == memory[Main].messages
               kept == {i \in DOMAIN s : s[i][1] \in {"app"}}
    <3>1. Len(s) \in Nat /\ \A i \in 1..Len(s) : i \in kept => s[i] \in T
      BY <2>1, LenProperties, ElementOfSeq DEF Numbered
    <3> HIDE DEF kept, T, s
    <3>2. Chosen(s, kept) \in Seq(T)
      BY <3>1, ChosenType
    <3> QED
      BY <3>2 DEF OfKind, kept, s
  <2>5. \A i \in DOMAIN messages : messages[i] \in T
    BY <2>4, LenProperties, ElementOfSeq
  <2>6. Numbered(messages)'
    BY <1>2, <2>5 DEF Numbered
  <2>7. Answerable(messages)
    <3>1. \A k : <<"out", k>>[1] = "out" /\ <<"text", k>>[1] = "text"
      OBVIOUS
    <3>2. \A i \in DOMAIN messages : messages[i][1] = "app"
      BY <2>5
    <3> QED
      BY <3>1, <3>2 DEF Answerable, Has
  <2> QED
    BY <2>3, <2>6, <2>7 DEF MemoryText
<1>7. ASSUME NEW m \in Memories, slot[m] = None, m # Main PROVE MemoryText(m)'
  <2>1. memory'[m] = None
    BY <1>7 DEF Crash
  <2> QED
    BY <2>1 DEF MemoryText
<1> QED
  BY <1>3, <1>4, <1>5, <1>6, <1>7 DEF Talk

-----------------------------------------------------------------------------
(* The invariant of the conversation holds at the start.                    *)
LEMMA TalkInit ==
  ASSUME Init
  PROVE  Talk
<1>1. /\ memory = [m \in Memories |-> IF m = Main THEN noMemory ELSE None]
      /\ act = [a \in Agents |-> noAct] /\ slot = [m \in Memories |-> None]
  BY DEF Init
<1>2. ASSUME NEW m \in Memories PROVE MemoryText(m) /\ FileText(m)
  <2>1. Numbered(<<>>) /\ Answerable(<<>>)
    BY HasEmpty DEF Numbered, Answerable
  <2>2. noMemory.messages = <<>> /\ noMemory.checkpoint = None
    BY DEF noMemory
  <2>3. FileText(m)
    BY <1>1 DEF FileText
  <2>4. MemoryText(m)
    BY <1>1, <2>1, <2>2 DEF MemoryText
  <2> QED
    BY <2>3, <2>4
<1>3. ASSUME NEW a \in Agents PROVE TalkExact(a)
  BY <1>1 DEF TalkExact, noAct
<1> QED
  BY <1>2, <1>3 DEF Talk

(* Every step keeps it, until entries are overlooked.                       *)
LEMMA TalkStep ==
  ASSUME Kept, Kept', Talk, ~overlooked, [Next]_vars
  PROVE  Talk'
<1>1. CASE UNCHANGED vars
  <2>1. UNCHANGED <<agent, memory, act, slot, number>> /\ number \in Nat /\ HandlesExact
    BY <1>1 DEF vars, vm, bounds, Kept, TypeOK
  <2>2. \A b \in Agents : Mem(b)' = Mem(b)
    BY <2>1 DEF Mem
  <2>3. ASSUME NEW m \in Memories PROVE MemoryText(m)' /\ FileText(m)'
    <3>1. MemoryText(m) /\ FileText(m) /\ number' \in Nat /\ number <= number'
      BY <2>1 DEF Talk
    <3> QED
      BY <2>1, <2>2, <3>1, TextFrame, FileFrame
  <2>4. ASSUME NEW b \in Agents PROVE TalkExact(b)'
    BY <2>1, TalkFrame DEF Talk
  <2> QED
    BY <2>3, <2>4 DEF Talk
<1>2. ASSUME NEW a \in Agents, Do(a) \/ Step(a) \/ ActivationFails(a) PROVE Talk'
  <2>1. CASE ActivationFails(a)
    BY <2>1, FailsTalks DEF ActivationFails
  <2>2. CASE ForkMissing(a)
    <3>1. act[a].at # "idle" /\ \E why : Fails(a, why)
      BY <2>2 DEF ForkMissing, NeedsSession
    <3> QED
      BY <3>1, FailsTalks
  <2> QED
    BY <1>2, <2>1, <2>2, DoTalks, AdvanceTalks, BeginTalks, ExecuteTalks, TurnTalks, ReturnTalks,
       CloseRetiredTalks DEF Step
<1>3. ASSUME NEW a \in Agents, NEW b \in Agents, NEW n \in Memories, WithMemory(a, b, n) \/ Fork(a, b, n)
      PROVE  Talk'
  BY <1>3, WithMemoryTalks, ForkTalks
<1> QED
  BY <1>1, <1>2, <1>3, SystemPromptTalks, CopyTalks, AppendMessageTalks, CrashTalks DEF Next

(* What has been overlooked stays so.                                       *)
LEMMA OverlookedStays ==
  ASSUME [Next]_vars, overlooked
  PROVE  overlooked'
<1>1. CASE UNCHANGED vars
  BY <1>1 DEF vars, executor
<1>2. ASSUME NEW a \in Agents, NEW why, Fails(a, why) PROVE overlooked'
  BY <1>2 DEF Fails
<1>3. ASSUME NEW a \in Agents, Do(a) \/ Step(a) \/ ActivationFails(a) PROVE overlooked'
  <2>1. CASE Do(a) \/ Restored(a) \/ ImportSession(a) \/ CloseRetired(a)
    BY <2>1 DEF Do, Restored, ImportSession, CloseRetired, executor
  <2>2. CASE ForkLive(a)
    BY <2>2 DEF ForkLive
  <2>3. CASE ForkMissing(a) \/ ActivationFails(a)
    BY <1>2, <2>3 DEF ForkMissing, ActivationFails
  <2>4. CASE Begin(a)
    <3>1. (\E why : Fails(a, why)) \/ UNCHANGED executor
      BY <2>4 DEF Begin
    <3> QED
      BY <1>2, <3>1 DEF executor
  <2>5. CASE ExecuteNew(a) \/ Return(a)
    BY <2>5 DEF ExecuteNew, Return
  <2>6. CASE ExecuteSession(a)
    BY <1>2, <2>6 DEF ExecuteSession
  <2>7. CASE Turn(a)
    <3>1. (\E why : Fails(a, why)) \/ UNCHANGED overlooked
      BY <2>7 DEF Turn
    <3> QED
      BY <1>2, <3>1
  <2> QED
    BY <1>3, <2>1, <2>2, <2>3, <2>4, <2>5, <2>6, <2>7 DEF Step
<1>4. ASSUME NEW a \in Agents, NEW prompt \in Prompts, SystemPrompt(a, prompt) PROVE overlooked'
  BY <1>4 DEF SystemPrompt, executor
<1>5. ASSUME NEW a \in Agents, NEW b \in Agents, NEW n \in Memories, WithMemory(a, b, n) \/ Fork(a, b, n)
      PROVE  overlooked'
  BY <1>5 DEF WithMemory, Fork, executor
<1>6. ASSUME NEW m \in Memories, NEW n \in Memories, Copy(m, n) \/ AppendMessage(m) PROVE overlooked'
  BY <1>6 DEF Copy, AppendMessage, executor
<1>7. CASE Crash
  BY <1>7 DEF Crash
<1> QED
  BY <1>1, <1>3, <1>4, <1>5, <1>6, <1>7 DEF Next

(* So does the conversation up to then.                                      *)
LEMMA ToldStep ==
  ASSUME Kept, Kept', Told, [Next]_vars
  PROVE  Told'
<1>1. CASE overlooked
  <2>1. overlooked'
    BY <1>1, OverlookedStays
  <2> QED
    BY <2>1 DEF Told
<1>2. CASE ~overlooked
  <2>1. Talk'
    BY <1>2, TalkStep DEF Told
  <2> QED
    BY <2>1 DEF Told
<1> QED
  BY <1>1, <1>2

(* The two invariants imply that a prompted model sees the memory.          *)
LEMMA ContextFromTalk ==
  ASSUME Kept, Told
  PROVE  ContextExact
<1> SUFFICES ASSUME NEW a \in Agents, InPrompt(a), ~overlooked
             PROVE  /\ Native(a).prompt = agent[a].prompt
                    /\ Conversation(Native(a).entries, act[a].op) = Said(a)
  BY DEF ContextExact
<1>1. /\ TypeOK /\ HandlesExact /\ SessionsExact /\ WorkExact(a) /\ TalkExact(a)
      /\ \A m \in Memories : FileText(m)
  BY DEF Kept, Told, Talk
<1>2. act[a].at = "prompting" /\ act[a].turn # "prompt" /\ act[a].session # None /\ Busy(a)
  BY <1>1 DEF InPrompt, HandlesExact, Busy
<1>3. /\ Exists(a) /\ Mem(a) \in Memories /\ act[a] \in Activation
      /\ Said(a) \in Seq(Messages) /\ Said(a) # <<>> /\ Last(Said(a)) = <<"in", act[a].op>>
  BY <1>1, <1>2, HandleTypes DEF HandlesExact
<1>4. Native(a).prompt = agent[a].prompt
  BY <1>1, <1>2 DEF SessionsExact, Native
<1>5. Native(a).entries = slot[Mem(a)].records
  BY <1>1, <1>2 DEF WorkExact, Native
<1>6. CASE act[a].turn \in {"answered", "unaccepted"}
  BY <1>1, <1>4, <1>5, <1>6 DEF TalkExact
<1>7. CASE act[a].turn \notin {"answered", "unaccepted"}
  <2>1. /\ slot[Mem(a)] # None /\ slot[Mem(a)].messages = Said(a)
        /\ slot[Mem(a)].revision = Len(Said(a))
    <3>1. Given(a) = <<>>
      BY <1>7 DEF Given
    <3>2. Said(a) \o <<>> = Said(a)
      BY <1>3, ConcatEmptySeq
    <3>3. /\ slot[Mem(a)] # None /\ slot[Mem(a)].messages = Said(a) \o Given(a)
          /\ slot[Mem(a)].revision = Len(slot[Mem(a)].messages)
      BY <1>1, <1>2 DEF WorkExact
    <3> QED
      BY <3>1, <3>2, <3>3
  <2>2. Tells(slot[Mem(a)].records, Said(a), Len(Said(a)))
    BY <1>1, <1>3, <2>1 DEF FileText
  <2>3. OpenOf(Said(a)) = act[a].op
    BY <1>3, OpenIs
  <2>4. SubSeq(Said(a), 1, Len(Said(a))) = Said(a)
    BY <1>3, SubSeqFull
  <2>5. Conversation(slot[Mem(a)].records, act[a].op) = Said(a)
    BY <2>2, <2>3, <2>4 DEF Tells
  <2> QED
    BY <1>4, <1>5, <2>5
<1> QED
  BY <1>6, <1>7

(* Whatever happened to the agent and its memory before, the model that is  *)
(* prompted sees the messages of the AFL Memory, each once and in order,    *)
(* under the system prompt that the program has set, as long as no session  *)
(* has gone on over entries that no event had recorded.                     *)
THEOREM PromptSeesMemory == Spec => []ContextExact
<1>1. Init => Kept /\ Told
  BY KeptInit, TalkInit DEF Told
<1>2. Kept /\ Told /\ [Next]_vars => (Kept /\ Told)'
  BY KeptStep, ToldStep
<1>3. Kept /\ Told => ContextExact
  BY ContextFromTalk
<1> QED
  BY <1>1, <1>2, <1>3, PTL DEF Spec
=============================================================================
