--------------------------- MODULE DoRecoveryProofs ---------------------------
(***************************************************************************)
(* What holds of every program and of any number of processes that stop.   *)
(* JournalInv: the process and the next one agree on the journal, so that  *)
(* it can be loaded.  With it, and with the locks (Exclusive) and the      *)
(* executions (Attempts), DataInv: every message is where its operation's  *)
(* revision says, in the memory and in the file, and the file is the       *)
(* beginning of the memory or one journaled answer ahead. From that        *)
(* RecoveryInv follow that answers are given once and never twice, and     *)
(* that the transcript is exact.  InOrder is about programs that order     *)
(* what works on a memory.                                                 *)
(***************************************************************************)
EXTENDS DoRecovery, SequencesExt, FiniteSetTheorems, SequenceTheorems, FunctionTheorems,
        WellFoundedInduction, TLAPS

Places == {"idle", "existing", "prepared", "ready", "running", "answered", "saved", "returned",
           "failed"}

\* What the progress of the operations needs to know of the types.
JournalTyped ==
  /\ DOMAIN loadable = {"valid", "status", "attempt", "ops"}
  /\ loadable.attempt \in Nat
  /\ DOMAIN loadable.ops = Journaled
  /\ \A o \in Journaled : DOMAIN loadable.ops[o] = {"status", "before", "result"}
  /\ DOMAIN journal = Journaled
  /\ at \in [Ops -> Places]
  /\ stops \in Nat
  /\ up \in BOOLEAN

\* The process has what another one would load, but for a record that was torn:
\* then it knows that the journal is sick, and its operation has failed.
KnownExact ==
  /\ loadable.valid = TRUE
  /\ "journal" \notin sick => loadable.ops = journal
  /\ \A o \in Journaled : at[o] # "failed" => loadable.ops[o] = journal[o]
  /\ ~up => sick = {} /\ loadable.status = status /\ \A o \in Ops : at[o] = "idle"
  /\ up => loadable.status = "running" /\ status = "running" /\ loadable.attempt = stops
  /\ ~up /\ status \in {"running", "interrupted"} => loadable.attempt + 1 = stops

\* What an operation that is at a place has in the journal.
PlaceOK(o, place, record) ==
  /\ place \notin {"idle", "returned", "failed"} => o \in Journaled /\ record.status # "none"
  /\ o \in Dos /\ place \in {"ready", "running", "answered", "saved"} => record.status # "completed"
  /\ o \in Adapters /\ place \in {"prepared", "running", "saved"} => record.status = "prepared"
  /\ o \in Adapters => place \notin {"ready", "answered"}
  /\ place = "existing" => o \in Adapters
  /\ o \in Journaled /\ place = "returned" => record.status = "completed"
  /\ o \in Journaled \ Adapters => record.status # "ambiguous"

PlaceExact == \A o \in Ops : PlaceOK(o, at[o], journal[o])

\* The journal of a completed run lacks nothing, and only a call of an adapter
\* is ambiguous.
LoadedExact ==
  /\ loadable.status = "completed" => \A o \in Journaled : loadable.ops[o].status = "completed"
  /\ \A o \in Journaled \ Adapters : loadable.ops[o].status # "ambiguous"

JournalInv == JournalTyped /\ KnownExact /\ PlaceExact /\ LoadedExact

-----------------------------------------------------------------------------
(* A copy is no adapter, and neither is an agent.do; both are operations.   *)
LEMMA KindsOfOps ==
  /\ Journaled \subseteq Ops /\ Dos \subseteq Journaled /\ Adapters \subseteq Journaled
  /\ Dos \cap Adapters = {} /\ Copies \cap Journaled = {} /\ Copies \subseteq Ops
  /\ Ops = Journaled \cup Copies
BY DEF Journaled, Dos, Adapters, Copies

\* The record of an operation.
OfOperation(r) == r.type \in {"prepared", "interrupted", "ambiguous", "completed"}

(* An accepted record of an operation changes that operation alone.         *)
LEMMA DurableRecord ==
  ASSUME JournalTyped, loadable.valid = TRUE, NEW r, OfOperation(r), r.op \in Journaled,
         Accepted(loadable, r), Durable(r)
  PROVE  /\ loadable'.valid = TRUE /\ loadable'.status = loadable.status
         /\ loadable'.attempt = loadable.attempt
         /\ DOMAIN loadable' = DOMAIN loadable /\ DOMAIN loadable'.ops = Journaled
         /\ \A p \in Journaled \ {r.op} : loadable'.ops[p] = loadable.ops[p]
         /\ loadable'.ops[r.op] = Updated(loadable.ops[r.op], r)
<1> DEFINE after == [loadable EXCEPT !.ops[r.op] = Updated(@, r)]
<1>1. Applied(loadable, r) = after
  BY DEF Applied, OfOperation
<1>2. DOMAIN after = DOMAIN loadable /\ after.valid = TRUE /\ after.status = loadable.status
      /\ after.attempt = loadable.attempt
      /\ after.ops = [loadable.ops EXCEPT ![r.op] = Updated(@, r)]
  BY DEF JournalTyped
<1> HIDE DEF after
<1>3. loadable' = [after EXCEPT !.valid = @ /\ Accepted(loadable, r)]
  BY <1>1 DEF Durable
<1>4. loadable'.valid = (after.valid /\ Accepted(loadable, r))
  BY <1>2, <1>3 DEF JournalTyped
<1>5. loadable'.valid = TRUE
  BY <1>2, <1>4
<1>6. /\ DOMAIN loadable' = DOMAIN loadable /\ loadable'.status = after.status
      /\ loadable'.attempt = after.attempt /\ loadable'.ops = after.ops
  BY <1>2, <1>3
<1>7. /\ DOMAIN loadable'.ops = Journaled
      /\ \A p \in Journaled \ {r.op} : loadable'.ops[p] = loadable.ops[p]
      /\ loadable'.ops[r.op] = Updated(loadable.ops[r.op], r)
  BY <1>2, <1>6 DEF JournalTyped
<1> QED
  BY <1>2, <1>5, <1>6, <1>7

(* What is left of an operation after its record.                           *)
LEMMA UpdatedFields ==
  ASSUME NEW operation, DOMAIN operation = {"status", "before", "result"}, NEW r, OfOperation(r)
  PROVE  /\ DOMAIN Updated(operation, r) = {"status", "before", "result"}
         /\ Updated(operation, r).status = r.type
         /\ r.type = "prepared" => Updated(operation, r).before = r.before
         /\ r.type # "prepared" => Updated(operation, r).before = operation.before
         /\ r.type = "completed" => Updated(operation, r).result = r.result
         /\ r.type \in {"interrupted", "ambiguous"} => Updated(operation, r).result = operation.result
BY DEF OfOperation, Updated

(* The records that the operations write have the types they say.           *)
LEMMA RecordShapes ==
  ASSUME NEW o
  PROVE  /\ Prepared(o).type = "prepared" /\ Prepared(o).op = o /\ OfOperation(Prepared(o))
         /\ Completed(o).type = "completed" /\ Completed(o).op = o /\ OfOperation(Completed(o))
         /\ Interrupted(o).type = "interrupted" /\ Interrupted(o).op = o /\ OfOperation(Interrupted(o))
         /\ Ambiguous(o).type = "ambiguous" /\ Ambiguous(o).op = o /\ OfOperation(Ambiguous(o))
BY DEF Prepared, Completed, Interrupted, Ambiguous, OfOperation

\* The record goes on from where the operation is.
Follows(r, status_) ==
  \/ r.type = "prepared" /\ status_ = "none"
  \/ r.type \in {"interrupted", "ambiguous"} /\ status_ \notin {"none", "completed"}
  \/ r.type = "completed" /\ status_ \notin {"none", "ambiguous", "completed"}

(* Then it does not make loading fail.                                      *)
LEMMA FollowsAccepted ==
  ASSUME NEW r, OfOperation(r), loadable.status = "running", Follows(r, loadable.ops[r.op].status)
  PROVE  Accepted(loadable, r)
BY DEF OfOperation, Follows, Accepted

-----------------------------------------------------------------------------
(* An operation moves, and the journal stays as it is.                      *)
LEMMA MoveKeeps ==
  ASSUME JournalInv, up, NEW o \in Ops, NEW place \in Places, at[o] # "failed", Goes(o, place),
         UNCHANGED <<recovery, up, stops>>, "journal" \in sick' <=> "journal" \in sick,
         PlaceOK(o, place, journal[o])
  PROVE  JournalInv'
<1> USE DEF JournalInv
<1>1. UNCHANGED <<loadable, journal, status, up, stops>>
  BY DEF recovery
<1>2. at' \in [Ops -> Places] /\ \A p \in Ops : at'[p] = IF p = o THEN place ELSE at[p]
  BY DEF Goes, JournalTyped
<1>3. JournalTyped'
  BY <1>1, <1>2 DEF JournalTyped
<1>4. KnownExact'
  BY <1>1, <1>2, KindsOfOps DEF KnownExact
<1>5. PlaceExact'
  BY <1>1, <1>2 DEF PlaceExact
<1>6. LoadedExact'
  BY <1>1 DEF LoadedExact
<1> QED
  BY <1>3, <1>4, <1>5, <1>6

(* An operation writes a record that follows, and moves.                    *)
LEMMA WriteKeeps ==
  ASSUME JournalInv, up, "journal" \notin sick, NEW o \in Journaled, NEW r, r.op = o, OfOperation(r),
         Follows(r, journal[o].status), Write(r),
         NEW place \in Places, at[o] # "failed", Goes(o, place),
         UNCHANGED <<status, up, stops, sick>>,
         PlaceOK(o, place, Updated(journal[o], r))
  PROVE  JournalInv'
<1> USE DEF JournalInv
<1>1. o \in Ops /\ loadable.status = "running" /\ loadable.ops = journal /\ loadable.valid = TRUE
  BY KindsOfOps DEF KnownExact
<1>2. Durable(r) /\ journal' = [journal EXCEPT ![o] = Updated(@, r)]
  BY DEF Write
<1>3. Accepted(loadable, r)
  BY <1>1, FollowsAccepted
<1>4. /\ loadable'.valid = TRUE /\ loadable'.status = loadable.status
      /\ loadable'.attempt = loadable.attempt
      /\ DOMAIN loadable' = DOMAIN loadable /\ DOMAIN loadable'.ops = Journaled
      /\ \A p \in Journaled \ {o} : loadable'.ops[p] = loadable.ops[p]
      /\ loadable'.ops[o] = Updated(loadable.ops[o], r)
  BY <1>1, <1>2, <1>3, DurableRecord
<1>5. at' \in [Ops -> Places] /\ \A p \in Ops : at'[p] = IF p = o THEN place ELSE at[p]
  BY <1>1 DEF Goes, JournalTyped
<1>6. DOMAIN Updated(journal[o], r) = {"status", "before", "result"}
  BY <1>1, UpdatedFields DEF JournalTyped
<1>7. JournalTyped'
  BY <1>1, <1>4, <1>5, <1>6, <1>2 DEF JournalTyped
<1>8. DOMAIN journal' = Journaled /\ \A p \in Journaled : journal'[p] = loadable'.ops[p]
  BY <1>1, <1>2, <1>4 DEF JournalTyped
<1>9. loadable'.ops = journal'
  <2>1. loadable' = [Applied(loadable, r) EXCEPT !.valid = @ /\ Accepted(loadable, r)]
    BY <1>2 DEF Durable
  <2>2. Applied(loadable, r) = [loadable EXCEPT !.ops[r.op] = Updated(@, r)]
    BY DEF Applied, OfOperation
  <2>3. loadable'.ops = [loadable.ops EXCEPT ![r.op] = Updated(@, r)]
    BY <2>1, <2>2 DEF JournalTyped
  <2> QED
    BY <1>1, <1>2, <2>3
<1>10. KnownExact'
  BY <1>1, <1>4, <1>8, <1>9 DEF KnownExact
<1>11. PlaceExact'
  <2> SUFFICES ASSUME NEW p \in Ops PROVE PlaceOK(p, at'[p], journal'[p])
    BY DEF PlaceExact
  <2>1. CASE p = o
    BY <1>1, <1>2, <1>5, <2>1 DEF JournalTyped
  <2>2. CASE p # o
    BY <1>2, <1>5, <2>2 DEF PlaceExact, JournalTyped
  <2> QED
    BY <2>1, <2>2
<1>12. LoadedExact'
  <2>1. o \notin Adapters => loadable'.ops[o].status # "ambiguous"
    BY <1>1, <1>4 DEF PlaceOK
  <2> QED
    BY <1>1, <1>4, <2>1 DEF LoadedExact
<1> QED
  BY <1>7, <1>10, <1>11, <1>12

(* A record is torn: it is durable or not, its operation has failed, and    *)
(* the process does not write to the journal any more.                      *)
LEMMA TornKeeps ==
  ASSUME JournalInv, up, "journal" \notin sick, NEW o \in Journaled, NEW r, r.op = o, OfOperation(r),
         Follows(r, journal[o].status), r.type = "ambiguous" => o \in Adapters, Torn(r),
         Goes(o, "failed"), UNCHANGED <<journal, status, up, stops>>,
         sick' = sick \cup {"journal"}
  PROVE  JournalInv'
<1> USE DEF JournalInv
<1>1. o \in Ops /\ loadable.status = "running" /\ loadable.ops = journal /\ loadable.valid = TRUE
  BY KindsOfOps DEF KnownExact
<1>2. at' \in [Ops -> Places] /\ \A p \in Ops : at'[p] = IF p = o THEN "failed" ELSE at[p]
  BY <1>1 DEF Goes, JournalTyped, Places
<1>3. Accepted(loadable, r)
  BY <1>1, FollowsAccepted
<1>4. /\ loadable'.valid = TRUE /\ loadable'.status = loadable.status
      /\ loadable'.attempt = loadable.attempt
      /\ DOMAIN loadable' = DOMAIN loadable /\ DOMAIN loadable'.ops = Journaled
      /\ \A p \in Journaled \ {o} : loadable'.ops[p] = loadable.ops[p]
      /\ loadable'.ops[o] \in {loadable.ops[o], Updated(loadable.ops[o], r)}
  <2>1. CASE UNCHANGED loadable
    BY <1>1, <2>1 DEF JournalTyped
  <2>2. CASE Durable(r)
    BY <1>1, <1>3, <2>2, DurableRecord
  <2> QED
    BY <2>1, <2>2 DEF Torn
<1>5. /\ DOMAIN Updated(journal[o], r) = {"status", "before", "result"}
      /\ Updated(journal[o], r).status = r.type
  BY <1>1, UpdatedFields DEF JournalTyped
<1>6. JournalTyped'
  BY <1>1, <1>2, <1>4, <1>5 DEF JournalTyped
<1>7. KnownExact'
  BY <1>1, <1>2, <1>4, KindsOfOps DEF KnownExact
<1>8. PlaceExact'
  BY <1>2 DEF PlaceExact, PlaceOK
<1>9. LoadedExact'
  BY <1>1, <1>4, <1>5 DEF LoadedExact
<1> QED
  BY <1>6, <1>7, <1>8, <1>9

-----------------------------------------------------------------------------
(* The process is gone; at most the end of the run has been marked.         *)
LEMMA DownKeeps ==
  ASSUME JournalInv, up, Down, NEW end,
         \/ UNCHANGED loadable /\ end = "running"
         \/ Durable(Marked(end)),
         end = "completed" => \A o \in Journaled : loadable.ops[o].status = "completed",
         \/ stops' = stops + 1
         \/ stops' = stops /\ end \in {"completed", "failed"}
  PROVE  JournalInv'
<1> USE DEF JournalInv
<1>1. loadable.status = "running" /\ loadable.valid = TRUE /\ loadable.attempt = stops
  BY DEF KnownExact
<1>2. /\ loadable'.valid = TRUE /\ loadable'.status = end /\ loadable'.attempt = loadable.attempt
      /\ DOMAIN loadable' = DOMAIN loadable /\ loadable'.ops = loadable.ops
  <2>1. CASE UNCHANGED loadable /\ end = "running"
    BY <1>1, <2>1
  <2>2. CASE Durable(Marked(end))
    <3> DEFINE r == Marked(end)
               after == [loadable EXCEPT !.status = end]
    <3>1. r.type = "run" /\ r.to = end
      BY DEF Marked
    <3>2. Applied(loadable, r) = after /\ Accepted(loadable, r)
      BY <1>1, <3>1 DEF Applied, Accepted
    <3>3. /\ DOMAIN after = DOMAIN loadable /\ after.valid = TRUE /\ after.status = end
          /\ after.attempt = loadable.attempt /\ after.ops = loadable.ops
      BY <1>1 DEF JournalTyped
    <3> HIDE DEF after, r
    <3>4. loadable' = [after EXCEPT !.valid = @ /\ Accepted(loadable, r)]
      BY <2>2, <3>2 DEF Durable, r
    <3>5. loadable'.valid = (after.valid /\ Accepted(loadable, r))
      BY <3>3, <3>4 DEF JournalTyped
    <3>6. loadable'.valid = TRUE
      BY <3>2, <3>3, <3>5
    <3> QED
      BY <3>3, <3>4, <3>6
  <2> QED
    BY <2>1, <2>2
<1>3. /\ up' = FALSE /\ at' = [o \in Ops |-> "idle"] /\ sick' = {}
      /\ journal' = loadable.ops /\ status' = end
  BY <1>2 DEF Down
<1>4. JournalTyped'
  <2>1. stops' \in Nat /\ up' \in BOOLEAN /\ at' \in [Ops -> Places]
    <3>1. stops' \in Nat
      BY DEF JournalTyped
    <3>2. at' \in [Ops -> Places]
      BY <1>3 DEF Places
    <3> QED
      BY <1>3, <3>1, <3>2
  <2>2. /\ DOMAIN loadable' = {"valid", "status", "attempt", "ops"} /\ loadable'.attempt \in Nat
        /\ DOMAIN loadable'.ops = Journaled /\ DOMAIN journal' = Journaled
        /\ \A o \in Journaled : DOMAIN loadable'.ops[o] = {"status", "before", "result"}
    BY <1>2, <1>3 DEF JournalTyped
  <2> QED
    BY <2>1, <2>2 DEF JournalTyped
<1>5. KnownExact'
  BY <1>1, <1>2, <1>3 DEF KnownExact, JournalTyped
<1>6. PlaceExact'
  BY <1>2, <1>3 DEF PlaceExact, PlaceOK, LoadedExact
<1>7. LoadedExact'
  BY <1>1, <1>2 DEF LoadedExact
<1> QED
  BY <1>4, <1>5, <1>6, <1>7

(* A run whose operations have all returned lacks no result.                *)
LEMMA SucceededCompleted ==
  ASSUME JournalInv, Succeeded
  PROVE  \A o \in Journaled : loadable.ops[o].status = "completed"
<1>1. \A o \in Journaled : o \in Ops /\ at[o] = "returned"
  BY KindsOfOps DEF Succeeded
<1> QED
  BY <1>1 DEF JournalInv, KnownExact, PlaceExact, PlaceOK

(* Another process resumes the run.                                         *)
LEMMA ResumeKeeps ==
  ASSUME JournalInv, Resume
  PROVE  JournalInv'
<1> USE DEF JournalInv
<1>1. /\ ~up /\ status \in {"running", "interrupted"} /\ status = loadable.status
      /\ loadable.valid = TRUE /\ loadable.attempt + 1 = stops /\ sick = {}
      /\ \A o \in Ops : at[o] = "idle"
      /\ up' = TRUE /\ status' = "running" /\ UNCHANGED <<journal, at, sick, stops>>
  BY DEF Resume, KnownExact
<1>2. /\ loadable'.valid = TRUE /\ loadable'.status = "running" /\ loadable'.attempt = stops
      /\ DOMAIN loadable' = DOMAIN loadable /\ loadable'.ops = loadable.ops
  <2> DEFINE r == Resumed(loadable.attempt + 1)
             after == [loadable EXCEPT !.status = "running", !.attempt = r.attempt]
  <2>1. r.type = "resume" /\ r.attempt = loadable.attempt + 1
    BY DEF Resumed
  <2>2. Applied(loadable, r) = after /\ Accepted(loadable, r)
    BY <1>1, <2>1 DEF Applied, Accepted
  <2>3. /\ DOMAIN after = DOMAIN loadable /\ after.valid = TRUE /\ after.status = "running"
        /\ after.attempt = stops /\ after.ops = loadable.ops
    BY <1>1, <2>1 DEF JournalTyped
  <2> HIDE DEF after, r
  <2>4. loadable' = [after EXCEPT !.valid = @ /\ Accepted(loadable, r)]
    BY <2>2 DEF Durable, Resume, r
  <2>5. loadable'.valid = (after.valid /\ Accepted(loadable, r))
    BY <2>3, <2>4 DEF JournalTyped
  <2>6. loadable'.valid = TRUE
    BY <2>2, <2>3, <2>5
  <2> QED
    BY <2>3, <2>4, <2>6
<1>3. JournalTyped'
  BY <1>1, <1>2 DEF JournalTyped
<1>4. KnownExact'
  BY <1>1, <1>2 DEF KnownExact
<1>5. PlaceExact'
  BY <1>1 DEF PlaceExact
<1>6. LoadedExact'
  BY <1>2 DEF LoadedExact
<1> QED
  BY <1>3, <1>4, <1>5, <1>6

(* The memories and the files are not what the journal is about.            *)
LEMMA StillKeeps ==
  ASSUME JournalInv, UNCHANGED <<recovery, up, at, stops>>, "journal" \in sick' <=> "journal" \in sick,
         up
  PROVE  JournalInv'
BY DEF JournalInv, JournalTyped, KnownExact, PlaceExact, PlaceOK, LoadedExact, recovery

-----------------------------------------------------------------------------
(* The steps of an operation on its way.                                    *)
LEMMA StepKeeps ==
  ASSUME JournalInv, NEW o \in Ops,
         \/ Copy(o) \/ Replay(o) \/ Admit(o) \/ ResumeInput(o) \/ Reconcile(o)
         \/ AppendMessage(o) \/ FindMessage(o) \/ Mismatch(o) \/ MaterializeBase(o)
         \/ BaseMissing(o) \/ Begin(o) \/ Checkpoint(o) \/ Answer(o) \/ Save(o)
         \/ CallAdapter(o) \/ AdapterReturns(o)
  PROVE  JournalInv'
<1> USE DEF JournalInv
<1>1. PlaceOK(o, at[o], journal[o]) /\ (at[o] # "idle" => up)
  BY DEF PlaceExact, KnownExact
<1>2. Dos \cap Adapters = {} /\ \A p \in Dos : p \in Journaled \ Adapters
  BY KindsOfOps
<1>3. CASE Copy(o)
  <2>1. up /\ at[o] = "idle" /\ o \notin Journaled /\ o \notin Dos /\ o \notin Adapters
    BY <1>3, KindsOfOps DEF Copy, Launch
  <2>2. Goes(o, "returned") /\ UNCHANGED <<recovery, up, stops, sick>>
    BY <1>3 DEF Copy
  <2> QED
    BY <2>1, <2>2, MoveKeeps DEF PlaceOK, Places
<1>4. CASE Replay(o)
  BY <1>1, <1>4, MoveKeeps DEF Replay, PlaceOK, Places
<1>5. CASE Admit(o) \/ ResumeInput(o)
  <2>1. up /\ at[o] = "prepared" /\ o \in Dos /\ journal[o].status # "completed"
    BY <1>5 DEF Admit, ResumeInput, Open, Dos
  <2>2. Goes(o, "ready") /\ UNCHANGED <<recovery, up, stops, sick>>
    BY <1>5 DEF Admit, ResumeInput
  <2> QED
    BY <1>1, <1>2, <2>1, <2>2, MoveKeeps DEF PlaceOK, Places
<1>6. CASE Reconcile(o)
  <2>1. up /\ at[o] = "prepared" /\ o \in Dos /\ journal[o].status # "completed"
    BY <1>6 DEF Reconcile, Open, Dos
  <2>2. Goes(o, "saved") /\ UNCHANGED <<recovery, up, stops, sick>>
    BY <1>6 DEF Reconcile
  <2> QED
    BY <1>1, <1>2, <2>1, <2>2, MoveKeeps DEF PlaceOK, Places
<1>7. CASE AppendMessage(o) \/ FindMessage(o)
  <2>1. up /\ at[o] = "prepared" /\ o \notin Dos /\ o \notin Adapters
    BY <1>7 DEF AppendMessage, FindMessage, Dos, Adapters
  <2>2. \E place \in {"answered", "saved"} : Goes(o, place)
    BY <1>7 DEF AppendMessage, FindMessage
  <2>3. UNCHANGED <<recovery, up, stops, sick>>
    BY <1>7 DEF AppendMessage, FindMessage
  <2> QED
    BY <1>1, <2>1, <2>2, <2>3, MoveKeeps DEF PlaceOK, Places
<1>8. CASE Mismatch(o)
  <2>1. up /\ at[o] = "prepared" /\ Goes(o, "failed") /\ UNCHANGED <<recovery, up, stops, sick>>
    BY <1>8 DEF Mismatch, Mismatched, Open, Fails
  <2> QED
    BY <1>1, <2>1, MoveKeeps DEF PlaceOK, Places
<1>9. CASE MaterializeBase(o)
  <2>1. UNCHANGED <<recovery, up, at, stops, sick>> /\ up
    BY <1>9 DEF MaterializeBase, Writes
  <2> QED
    BY <2>1, StillKeeps
<1>10. CASE BaseMissing(o)
  <2>1. /\ at[o] = "ready" /\ up /\ Goes(o, "failed") /\ UNCHANGED <<recovery, up, stops>>
        /\ sick' = sick \cup {"memory"}
    BY <1>10 DEF BaseMissing, Fails, Writes
  <2> QED
    BY <1>1, <2>1, MoveKeeps DEF PlaceOK, Places
<1>11. CASE Begin(o)
  <2>1. at[o] = "ready" /\ Goes(o, "running") /\ UNCHANGED <<recovery, up, stops, sick>>
    BY <1>11 DEF Begin
  <2> QED
    BY <1>1, <2>1, MoveKeeps DEF PlaceOK, Places
<1>12. CASE Checkpoint(o)
  <2>1. UNCHANGED <<recovery, up, at, stops, sick>> /\ up
    BY <1>12 DEF Checkpoint, Writes
  <2> QED
    BY <2>1, StillKeeps
<1>13. CASE Answer(o)
  <2>1. /\ at[o] = "running" /\ o \in Dos /\ Goes(o, "answered")
        /\ UNCHANGED <<recovery, up, stops, sick>>
    BY <1>13 DEF Answer, Dos
  <2> QED
    BY <1>1, <1>2, <2>1, MoveKeeps DEF PlaceOK, Places
<1>14. CASE Save(o)
  <2>1. at[o] = "answered" /\ Goes(o, "saved") /\ UNCHANGED <<recovery, up, stops, sick>>
    BY <1>14 DEF Save
  <2> QED
    BY <1>1, <2>1, MoveKeeps DEF PlaceOK, Places
<1>15. CASE CallAdapter(o)
  <2>1. /\ at[o] = "prepared" /\ o \in Adapters /\ Goes(o, "running")
        /\ UNCHANGED <<recovery, up, stops, sick>>
    BY <1>15 DEF CallAdapter
  <2> QED
    BY <1>1, <1>2, <2>1, MoveKeeps DEF PlaceOK, Places
<1>16. CASE AdapterReturns(o)
  <2>1. /\ at[o] = "running" /\ o \in Adapters /\ Goes(o, "saved")
        /\ UNCHANGED <<recovery, up, stops, sick>>
    BY <1>16 DEF AdapterReturns
  <2> QED
    BY <1>1, <1>2, <2>1, MoveKeeps DEF PlaceOK, Places
<1> QED
  BY <1>3, <1>4, <1>5, <1>6, <1>7, <1>8, <1>9, <1>10, <1>11, <1>12, <1>13, <1>14, <1>15, <1>16

(* The steps that write to the journal, or fail to.                         *)
LEMMA RecordKeeps ==
  ASSUME JournalInv, NEW o \in Ops,
         Prepare(o) \/ MarkAmbiguous(o) \/ Complete(o) \/ FailOp(o) \/ WriteFails(o) \/ JournalFails(o)
  PROVE  JournalInv'
<1> USE DEF JournalInv
<1>1. PlaceOK(o, at[o], journal[o]) /\ (at[o] # "idle" => up)
  BY DEF PlaceExact, KnownExact
<1>2. Dos \cap Adapters = {} /\ \A p \in Dos : p \in Journaled \ Adapters
  BY KindsOfOps
<1>3. ASSUME o \in Journaled, at[o] # "failed", NEW r, OfOperation(r)
      PROVE  Updated(journal[o], r).status = r.type
  <2>1. DOMAIN journal[o] = {"status", "before", "result"}
    BY <1>3 DEF KnownExact, JournalTyped
  <2> QED
    BY <1>3, <2>1, UpdatedFields
<1>4. CASE Prepare(o)
  <2>1. up /\ at[o] = "idle" /\ o \in Journaled /\ "journal" \notin sick
        /\ UNCHANGED <<status, up, stops, sick>>
    BY <1>4 DEF Prepare, Launch, Writes
  <2>2. CASE journal[o].status = "none"
    <3>1. Write(Prepared(o)) /\ Goes(o, "prepared")
      BY <1>4, <2>2 DEF Prepare
    <3>2. /\ Follows(Prepared(o), journal[o].status)
          /\ PlaceOK(o, "prepared", Updated(journal[o], Prepared(o)))
      BY <1>3, <2>1, <2>2, RecordShapes DEF Follows, PlaceOK
    <3> QED
      BY <2>1, <3>1, <3>2, RecordShapes, WriteKeeps DEF Places
  <2>3. CASE journal[o].status # "none"
    <3>1. /\ UNCHANGED <<loadable, journal>>
          /\ Goes(o, IF o \in Adapters THEN "existing" ELSE "prepared")
      BY <1>4, <2>3 DEF Prepare
    <3> QED
      BY <1>1, <2>1, <2>3, <3>1, MoveKeeps DEF PlaceOK, Places, recovery
  <2> QED
    BY <2>2, <2>3
<1>5. CASE MarkAmbiguous(o)
  <2>1. /\ at[o] = "existing" /\ journal[o].status # "completed" /\ Goes(o, "failed") /\ up
        /\ o \in Adapters /\ o \in Journaled /\ journal[o].status # "none"
        /\ UNCHANGED <<status, up, stops, sick>>
    BY <1>1, <1>5 DEF MarkAmbiguous, Fails, PlaceOK
  <2>2. CASE journal[o].status = "ambiguous"
    <3>1. UNCHANGED <<loadable, journal>>
      BY <1>5, <2>2 DEF MarkAmbiguous
    <3> QED
      BY <1>1, <2>1, <3>1, MoveKeeps DEF PlaceOK, Places, recovery
  <2>3. CASE journal[o].status # "ambiguous"
    <3>1. "journal" \notin sick /\ Write(Ambiguous(o))
      BY <1>5, <2>3 DEF MarkAmbiguous, Writes
    <3>2. /\ Follows(Ambiguous(o), journal[o].status)
          /\ PlaceOK(o, "failed", Updated(journal[o], Ambiguous(o)))
      BY <2>1, RecordShapes DEF Follows, PlaceOK
    <3> QED
      BY <2>1, <3>1, <3>2, RecordShapes, WriteKeeps DEF Places
  <2> QED
    BY <2>2, <2>3
<1>6. CASE Complete(o)
  <2>1. /\ at[o] = "saved" /\ up /\ "journal" \notin sick /\ Goes(o, "returned") /\ o \in Journaled
        /\ UNCHANGED <<status, up, stops, sick>>
    BY <1>1, <1>6 DEF Complete, Writes, PlaceOK
  <2>2. CASE journal[o].status = "completed"
    <3>1. UNCHANGED <<loadable, journal>>
      BY <1>6, <2>2 DEF Complete
    <3> QED
      BY <1>1, <2>1, <2>2, <3>1, MoveKeeps DEF PlaceOK, Places, recovery
  <2>3. CASE journal[o].status # "completed"
    <3>1. Write(Completed(o))
      BY <1>6, <2>3 DEF Complete
    <3>2. /\ Follows(Completed(o), journal[o].status)
          /\ PlaceOK(o, "returned", Updated(journal[o], Completed(o)))
      BY <1>1, <1>3, <2>1, <2>3, RecordShapes DEF Follows, PlaceOK
    <3> QED
      BY <2>1, <3>1, <3>2, RecordShapes, WriteKeeps DEF Places
  <2> QED
    BY <2>2, <2>3
<1>7. CASE FailOp(o)
  <2>1. /\ at[o] \notin {"idle", "returned", "failed"} /\ Goes(o, "failed") /\ up /\ o \in Journaled
        /\ UNCHANGED <<status, up, stops, sick>>
    BY <1>1, <1>7 DEF FailOp, Fails, InFlight, PlaceOK
  <2>2. CASE UNCHANGED <<loadable, journal>>
    BY <1>1, <2>1, <2>2, MoveKeeps DEF PlaceOK, Places, recovery
  <2>3. CASE at[o] = "running" /\ Kind[o] = "do" /\ Writes("journal") /\ Write(Interrupted(o))
    <3>1. "journal" \notin sick /\ o \in Dos
      BY <2>3 DEF Writes, Dos
    <3>2. /\ Follows(Interrupted(o), journal[o].status)
          /\ PlaceOK(o, "failed", Updated(journal[o], Interrupted(o)))
      BY <1>1, <1>3, <2>1, <2>3, <3>1, RecordShapes DEF Follows, PlaceOK
    <3> QED
      BY <2>1, <2>3, <3>1, <3>2, RecordShapes, WriteKeeps DEF Places
  <2> QED
    BY <1>7, <2>2, <2>3 DEF FailOp
<1>8. CASE WriteFails(o)
  <2>1. /\ at[o] \in {"ready", "answered"} /\ up /\ Goes(o, "failed") /\ UNCHANGED <<recovery, up, stops>>
        /\ sick' = sick \cup {"memory"}
    BY <1>8 DEF WriteFails, Fails, Writes
  <2> QED
    BY <1>1, <2>1, MoveKeeps DEF PlaceOK, Places
<1>9. CASE JournalFails(o)
  <2>1. /\ up /\ "journal" \notin sick /\ Goes(o, "failed") /\ sick' = sick \cup {"journal"}
        /\ UNCHANGED <<journal, status, up, stops>>
    BY <1>9 DEF JournalFails, Fails, Writes
  <2>2. \/ o \in Journaled /\ journal[o].status = "none" /\ Torn(Prepared(o))
        \/ at[o] = "saved" /\ journal[o].status # "completed" /\ Torn(Completed(o))
        \/ /\ at[o] = "existing" /\ journal[o].status \notin {"completed", "ambiguous"}
           /\ Torn(Ambiguous(o))
    BY <1>9 DEF JournalFails
  <2>3. CASE o \in Journaled /\ journal[o].status = "none" /\ Torn(Prepared(o))
    BY <2>1, <2>3, RecordShapes, TornKeeps DEF Follows
  <2>4. CASE at[o] = "saved" /\ journal[o].status # "completed" /\ Torn(Completed(o))
    BY <1>1, <2>1, <2>4, RecordShapes, TornKeeps DEF Follows, PlaceOK
  <2>5. CASE /\ at[o] = "existing" /\ journal[o].status \notin {"completed", "ambiguous"}
             /\ Torn(Ambiguous(o))
    BY <1>1, <2>1, <2>5, RecordShapes, TornKeeps DEF Follows, PlaceOK
  <2> QED
    BY <2>2, <2>3, <2>4, <2>5
<1> QED
  BY <1>4, <1>5, <1>6, <1>7, <1>8, <1>9

(* The steps of the process.                                                *)
LEMMA ProcessKeeps ==
  ASSUME JournalInv,
         Cancel \/ EndCompleted \/ EndFailed \/ EndInterrupted \/ EndUnmarked \/ Crash \/ Resume
  PROVE  JournalInv'
<1>1. CASE Cancel
  BY <1>1, StillKeeps DEF Cancel, CanStop
<1>2. CASE EndCompleted
  <2>1. up /\ Durable(Marked("completed")) /\ stops' = stops /\ Down
    BY <1>2 DEF EndCompleted, Succeeded, Settled
  <2>2. \A o \in Journaled : loadable.ops[o].status = "completed"
    BY <1>2, SucceededCompleted DEF EndCompleted
  <2> QED
    BY <2>1, <2>2, DownKeeps
<1>3. CASE EndFailed
  <2>1. up /\ Durable(Marked("failed")) /\ stops' = stops /\ Down
    BY <1>3 DEF EndFailed, Settled
  <2> QED
    BY <2>1, DownKeeps
<1>4. CASE EndInterrupted
  <2>1. up /\ stops' = stops + 1 /\ Down /\ (Durable(Marked("interrupted")) \/ UNCHANGED loadable)
    BY <1>4 DEF EndInterrupted, Settled
  <2> QED
    BY <2>1, DownKeeps
<1>5. CASE EndUnmarked
  <2>1. up /\ stops' = stops + 1 /\ Down /\ (Durable(Marked(End)) \/ UNCHANGED loadable)
    BY <1>5 DEF EndUnmarked, Torn, Settled
  <2>2. End = "completed" => \A o \in Journaled : loadable.ops[o].status = "completed"
    BY SucceededCompleted DEF End
  <2>3. CASE Durable(Marked(End))
    BY <2>1, <2>2, <2>3, DownKeeps
  <2>4. CASE UNCHANGED loadable
    BY <2>1, <2>4, DownKeeps
  <2> QED
    BY <2>1, <2>3, <2>4
<1>6. CASE Crash
  <2>1. up /\ stops' = stops + 1 /\ Down /\ UNCHANGED loadable
    BY <1>6 DEF Crash, CanStop
  <2> QED
    BY <2>1, DownKeeps
<1> QED
  BY <1>1, <1>2, <1>3, <1>4, <1>5, <1>6, ResumeKeeps

(* The invariant holds at the start, and every step keeps it.               *)
LEMMA InitJournal == Init => JournalInv
<1> SUFFICES ASSUME Init PROVE JournalInv
  OBVIOUS
<1>1. /\ loadable = [valid |-> TRUE, status |-> "running", attempt |-> 0,
                     ops |-> [o \in Journaled |-> NoOperation]]
      /\ journal = [o \in Journaled |-> NoOperation]
  BY DEF Init, Begun
<1>2. DOMAIN NoOperation = {"status", "before", "result"} /\ NoOperation.status = "none"
  BY DEF NoOperation
<1>3. JournalTyped
  BY <1>1, <1>2 DEF Init, JournalTyped, Places
<1>4. KnownExact
  BY <1>1 DEF Init, KnownExact
<1>5. PlaceExact
  BY <1>1, <1>2 DEF Init, PlaceExact, PlaceOK
<1>6. LoadedExact
  BY <1>1, <1>2 DEF LoadedExact
<1> QED
  BY <1>3, <1>4, <1>5, <1>6 DEF JournalInv

(* Every step keeps what the journal and the process have of each other.    *)
LEMMA NextJournal == JournalInv /\ [Next]_vars => JournalInv'
<1> SUFFICES ASSUME JournalInv, [Next]_vars PROVE JournalInv'
  OBVIOUS
<1>1. CASE UNCHANGED vars
  BY <1>1 DEF vars, JournalInv, JournalTyped, KnownExact, PlaceExact, PlaceOK, LoadedExact
<1> QED
  BY <1>1, StepKeeps, RecordKeeps, ProcessKeeps DEF Next, Advance

-----------------------------------------------------------------------------
(* Whatever the order in which operations write, stop, fail to write and    *)
(* end, the next process can load the journal, and knows what this one did. *)
THEOREM JournalCanBeLoaded == Spec => []JournalLoads
<1>1. JournalInv => JournalLoads
  <2> SUFFICES ASSUME JournalInv PROVE JournalLoads
    OBVIOUS
  <2>1. loadable.valid
    BY DEF JournalInv, KnownExact
  <2>2. loadable.status = status
    BY DEF JournalInv, KnownExact, JournalTyped
  <2> QED
    BY <2>1, <2>2 DEF JournalInv, KnownExact, LoadedExact, JournalLoads
<1> QED
  BY <1>1, InitJournal, NextJournal, PTL DEF Spec

-----------------------------------------------------------------------------
\* The steps, and the locks of the memories.

\* A step of an operation.
OpStep(o) ==
  \/ Prepare(o) \/ Copy(o) \/ Replay(o) \/ Admit(o) \/ ResumeInput(o) \/ Reconcile(o)
  \/ AppendMessage(o) \/ FindMessage(o) \/ Mismatch(o) \/ MaterializeBase(o) \/ BaseMissing(o)
  \/ Begin(o) \/ Checkpoint(o) \/ Answer(o) \/ Save(o) \/ Complete(o) \/ MarkAmbiguous(o)
  \/ CallAdapter(o) \/ AdapterReturns(o) \/ FailOp(o) \/ WriteFails(o) \/ JournalFails(o)

\* A process ends.
EndStep == EndCompleted \/ EndFailed \/ EndInterrupted \/ EndUnmarked \/ Crash

(* A step is one of an operation, or of the process: it is aborted, ends or *)
(* starts.                                                                  *)
LEMMA NextSteps == Next <=> (\E o \in Ops : OpStep(o)) \/ Cancel \/ EndStep \/ Resume
BY DEF Next, Advance, OpStep, EndStep

\* An operation goes on, or starts; or it stays where it is.
GoesOn(o, place) ==
  /\ InFlight(o) \/ Launch(o)
  /\ place # "idle" /\ Goes(o, place)
  /\ place = "failed" => failing' # "no" /\ o \in Journaled

Stays == at' = at

\* A failure is not forgotten before the process is gone.
Remembers == failing # "no" => failing' # "no"

(* An operation that fails leaves the failure for the run to end with.      *)
LEMMA FailsRemembers ==
  ASSUME NEW o, NEW how \in {"recoverable", "fatal"}, Fails(o, how)
  PROVE  Goes(o, "failed") /\ failing' # "no" /\ Remembers
BY DEF Fails, Remembers

(* A step of an operation moves it, starts it or leaves it where it is, and *)
(* none forgets a failure.                                                  *)
LEMMA WhereItGoes ==
  ASSUME JournalInv, NEW o \in Ops, OpStep(o)
  PROVE  Remembers /\ (Stays \/ \E place \in Places : GoesOn(o, place))
<1>1. at[o] \notin {"idle", "returned", "failed"} => o \in Journaled
  BY DEF JournalInv, PlaceExact, PlaceOK
<1>2. CASE \/ Prepare(o) \/ Copy(o) \/ Replay(o) \/ Admit(o) \/ ResumeInput(o)
           \/ Reconcile(o) \/ AppendMessage(o) \/ FindMessage(o)
  BY <1>2 DEF Prepare, Copy, Replay, Admit, ResumeInput, Reconcile, AppendMessage, FindMessage, Open,
              Remembers, GoesOn, InFlight, Places
<1>3. CASE MaterializeBase(o) \/ Checkpoint(o)
  BY <1>3 DEF MaterializeBase, Checkpoint, Remembers, Stays
<1>4. CASE Begin(o) \/ Answer(o) \/ Save(o) \/ Complete(o) \/ CallAdapter(o) \/ AdapterReturns(o)
  BY <1>4 DEF Begin, Answer, Save, Complete, CallAdapter, AdapterReturns,
              Remembers, GoesOn, InFlight, Places
<1>5. CASE Mismatch(o) \/ BaseMissing(o) \/ MarkAmbiguous(o) \/ FailOp(o) \/ WriteFails(o)
  <2>1. Goes(o, "failed") /\ failing' # "no" /\ Remembers
    BY <1>5, FailsRemembers DEF Mismatch, BaseMissing, MarkAmbiguous, FailOp, WriteFails
  <2>2. InFlight(o)
    BY <1>5 DEF Mismatch, Mismatched, Open, BaseMissing, MarkAmbiguous, FailOp, WriteFails, InFlight
  <2> QED
    BY <1>1, <2>1, <2>2 DEF GoesOn, InFlight, Places
<1>6. CASE JournalFails(o)
  <2>1. Goes(o, "failed") /\ failing' # "no" /\ Remembers
    BY <1>6, FailsRemembers DEF JournalFails
  <2>2. (Launch(o) /\ o \in Journaled) \/ InFlight(o)
    BY <1>6 DEF JournalFails, InFlight
  <2> QED
    BY <1>1, <2>1, <2>2 DEF GoesOn, InFlight, Places
<1> QED
  BY <1>2, <1>3, <1>4, <1>5, <1>6 DEF OpStep

-----------------------------------------------------------------------------
Exclusive ==
  /\ \A o, p \in Ops \ Adapters :
       o # p /\ Mem[o] = Mem[p] /\ InFlight(o) => at[p] \in {"idle", "returned"}
  /\ \A o \in Ops : at[o] = "failed" => failing # "no" /\ o \in Journaled
  /\ \A o \in Ops : at[o] # "idle" => \A p \in After[o] : at[p] = "returned"

(* An operation that moves keeps the lock of its memory, or takes a free    *)
(* one.                                                                     *)
LEMMA ExclusiveMoves ==
  ASSUME JournalInv, Exclusive, NEW o \in Ops, Remembers, NEW place \in Places, GoesOn(o, place)
  PROVE  Exclusive'
<1>1. at \in [Ops -> Places]
  BY DEF JournalInv, JournalTyped
<1>2. \A p \in Ops : at'[p] = IF p = o THEN place ELSE at[p]
  BY <1>1 DEF GoesOn, Goes
<1>3. \A p \in Ops : InFlight(p)' => InFlight(p) \/ p = o
  BY <1>2 DEF InFlight
<1>4. at[o] # "returned"
  BY DEF GoesOn, InFlight, Launch
<1>5. \A p, q \in Ops \ Adapters :
        p # q /\ Mem[p] = Mem[q] /\ InFlight(p)' => at'[q] \in {"idle", "returned"}
  <2> SUFFICES ASSUME NEW p \in Ops \ Adapters, NEW q \in Ops \ Adapters, p # q, Mem[p] = Mem[q],
                      InFlight(p)'
               PROVE  at'[q] \in {"idle", "returned"}
    OBVIOUS
  <2>1. CASE p = o /\ InFlight(o)
    BY <1>2, <2>1 DEF Exclusive
  <2>2. CASE p = o /\ Launch(o)
    <3>1. at[q] \in {"idle", "returned", "failed"}
      BY <1>1, <2>2 DEF Launch, InFlight
    <3>2. at[q] # "failed"
      BY <2>2 DEF Launch, Exclusive
    <3> QED
      BY <1>2, <2>2, <3>1, <3>2
  <2>3. CASE p # o /\ q # o
    BY <1>2, <1>3, <2>3 DEF Exclusive
  <2>4. CASE q = o
    <3>1. InFlight(p)
      BY <1>3, <2>4
    <3>2. at[o] = "idle" /\ ~InFlight(o)
      BY <1>4, <2>4, <3>1 DEF Exclusive, InFlight
    <3>3. Launch(o)
      BY <3>2 DEF GoesOn
    <3> QED
      BY <2>4, <3>1, <3>3 DEF Launch
  <2> QED
    BY <2>1, <2>2, <2>3, <2>4 DEF GoesOn
<1>6. \A p \in Ops : at'[p] = "failed" => failing' # "no" /\ p \in Journaled
  BY <1>2 DEF GoesOn, Exclusive, Remembers
<1>7. \A p \in Ops : at'[p] # "idle" => \A q \in After[p] : at'[q] = "returned"
  <2> SUFFICES ASSUME NEW p \in Ops, at'[p] # "idle", NEW q \in After[p]
               PROVE  at'[q] = "returned"
    OBVIOUS
  <2>1. q \in Ops
    BY ProgramAssumption
  <2>2. at[q] = "returned"
    BY <1>2 DEF GoesOn, Exclusive, InFlight, Launch
  <2> QED
    BY <1>2, <1>4, <2>1, <2>2
<1> QED
  BY <1>5, <1>6, <1>7 DEF Exclusive, InFlight

(* An operation that stays where it is keeps the locks as they are.         *)
LEMMA ExclusiveStays == ASSUME Exclusive, Stays, Remembers PROVE Exclusive'
BY DEF Exclusive, Stays, Remembers, InFlight

(* Nothing is in flight when the process is gone.                           *)
LEMMA ExclusiveDown == ASSUME Down PROVE Exclusive'
BY ProgramAssumption DEF Down, Exclusive, InFlight

(* No step lets two operations work on one memory, or starts one before     *)
(* those it waits for have returned.                                        *)
LEMMA NextExclusive == JournalInv /\ Exclusive /\ [Next]_vars => Exclusive'
<1> SUFFICES ASSUME JournalInv, Exclusive, [Next]_vars PROVE Exclusive'
  OBVIOUS
<1>1. CASE UNCHANGED vars
  BY <1>1, ExclusiveStays DEF vars, Stays, Remembers
<1>2. CASE \E o \in Ops : OpStep(o)
  <2>1. PICK o \in Ops : Remembers /\ (Stays \/ \E place \in Places : GoesOn(o, place))
    BY <1>2, WhereItGoes
  <2> QED
    BY <2>1, ExclusiveStays, ExclusiveMoves
<1>3. CASE Cancel \/ Resume
  BY <1>3, ExclusiveStays DEF Cancel, Resume, Stays, Remembers
<1>4. CASE EndStep
  BY <1>4, ExclusiveDown DEF EndStep, EndCompleted, EndFailed, EndInterrupted, EndUnmarked, Crash
<1> QED
  BY <1>1, <1>2, <1>3, <1>4, NextSteps

-----------------------------------------------------------------------------
\* What a step leaves in the journal.

\* A record of o is durable after the step, and follows what was there.
RecordsOn(o, r) ==
  /\ o \in Journaled /\ r.op = o /\ OfOperation(r)
  /\ Follows(r, loadable.ops[o].status)
  /\ loadable'.ops = [loadable.ops EXCEPT ![o] = Updated(@, r)]
  /\ \/ r = Prepared(o) /\ Launch(o) /\ at'[o] \in {"prepared", "failed"}
     \/ r = Interrupted(o) /\ o \in Dos /\ at'[o] = "failed"
     \/ r = Ambiguous(o) /\ o \in Adapters /\ at'[o] = "failed"
     \/ r = Completed(o) /\ at[o] = "saved" /\ at'[o] \in {"returned", "failed"}

Records(o) == loadable'.ops = loadable.ops \/ \E r : RecordsOn(o, r)

\* The process knows of the record, or the journal is sick.
Knows(o) ==
  \/ journal' = journal
  \/ \E r : RecordsOn(o, r) /\ journal' = [journal EXCEPT ![o] = Updated(@, r)]

(* A durable record of an operation changes that operation alone.           *)
LEMMA DurableOps ==
  ASSUME JournalInv, NEW r, OfOperation(r), r.op \in Journaled, Durable(r)
  PROVE  loadable'.ops = [loadable.ops EXCEPT ![r.op] = Updated(@, r)]
<1>1. loadable' = [Applied(loadable, r) EXCEPT !.valid = @ /\ Accepted(loadable, r)]
  BY DEF Durable
<1>2. Applied(loadable, r) = [loadable EXCEPT !.ops[r.op] = Updated(@, r)]
  BY DEF Applied, OfOperation
<1> QED
  BY <1>1, <1>2 DEF JournalInv, JournalTyped

(* A step of an operation writes at most one record, of its own, and the    *)
(* process knows of it unless the write was torn.                           *)
LEMMA WhatItRecords ==
  ASSUME JournalInv, NEW o \in Ops, OpStep(o)
  PROVE  Records(o) /\ Knows(o)
<1> USE DEF Records, Knows
<1>1. /\ PlaceOK(o, at[o], journal[o]) /\ (at[o] # "idle" => up)
      /\ o \in Journaled /\ at[o] # "failed" => loadable.ops[o] = journal[o]
      /\ at \in [Ops -> Places]
  BY DEF JournalInv, PlaceExact, KnownExact, JournalTyped
<1>2. CASE \/ Copy(o) \/ Replay(o) \/ Admit(o) \/ ResumeInput(o)
           \/ Reconcile(o) \/ AppendMessage(o) \/ FindMessage(o) \/ Mismatch(o)
           \/ MaterializeBase(o) \/ BaseMissing(o) \/ Begin(o) \/ Checkpoint(o)
           \/ Answer(o) \/ Save(o) \/ CallAdapter(o) \/ AdapterReturns(o) \/ WriteFails(o)
  BY <1>2 DEF Copy, Replay, Admit, ResumeInput, Reconcile, AppendMessage, FindMessage, Mismatch,
              MaterializeBase, BaseMissing, Begin, Checkpoint, Answer, Save, CallAdapter,
              AdapterReturns, WriteFails, recovery
<1>3. CASE Prepare(o)
  <2>1. CASE journal[o].status = "none"
    <3>1. Launch(o) /\ o \in Journaled /\ Write(Prepared(o)) /\ at'[o] = "prepared" /\ at[o] = "idle"
      BY <1>1, <1>3, <2>1 DEF Prepare, Goes, Launch
    <3>2. RecordsOn(o, Prepared(o))
      BY <1>1, <2>1, <3>1, RecordShapes, DurableOps DEF Write, RecordsOn, Follows
    <3> QED
      BY <3>1, <3>2, RecordShapes DEF Write
  <2> QED
    BY <1>3, <2>1 DEF Prepare
<1>4. CASE Complete(o)
  <2>1. CASE journal[o].status # "completed"
    <3>1. /\ o \in Journaled /\ Write(Completed(o)) /\ at[o] = "saved" /\ at'[o] = "returned"
          /\ journal[o].status # "none"
      BY <1>1, <1>4, <2>1 DEF Complete, Goes, PlaceOK
    <3>2. RecordsOn(o, Completed(o))
      BY <1>1, <2>1, <3>1, RecordShapes, DurableOps, KindsOfOps DEF Write, RecordsOn, Follows, PlaceOK
    <3> QED
      BY <3>1, <3>2, RecordShapes DEF Write
  <2> QED
    BY <1>4, <2>1 DEF Complete
<1>5. CASE MarkAmbiguous(o)
  <2>1. CASE journal[o].status # "ambiguous"
    <3>1. /\ o \in Journaled /\ o \in Adapters /\ Write(Ambiguous(o)) /\ at[o] = "existing"
          /\ at'[o] = "failed" /\ journal[o].status \notin {"none", "completed"}
      BY <1>1, <1>5, <2>1 DEF MarkAmbiguous, Fails, Goes, PlaceOK
    <3>2. RecordsOn(o, Ambiguous(o))
      BY <1>1, <3>1, RecordShapes, DurableOps DEF Write, RecordsOn, Follows
    <3> QED
      BY <3>1, <3>2, RecordShapes DEF Write
  <2> QED
    BY <1>5, <2>1 DEF MarkAmbiguous
<1>6. CASE FailOp(o)
  <2>1. CASE at[o] = "running" /\ Kind[o] = "do" /\ Writes("journal") /\ Write(Interrupted(o))
    <3>1. o \in Dos /\ o \in Journaled /\ at'[o] = "failed"
      BY <1>1, <1>6, <2>1, KindsOfOps DEF Dos, FailOp, Fails, Goes
    <3>2. RecordsOn(o, Interrupted(o))
      BY <1>1, <2>1, <3>1, RecordShapes, DurableOps DEF Write, RecordsOn, Follows, PlaceOK
    <3> QED
      BY <2>1, <3>2, RecordShapes DEF Write
  <2> QED
    BY <1>6, <2>1 DEF FailOp
<1>7. CASE JournalFails(o)
  <2>1. journal' = journal /\ at'[o] = "failed"
    BY <1>1, <1>7 DEF JournalFails, Fails, Goes
  <2>2. CASE Launch(o) /\ o \in Journaled /\ journal[o].status = "none" /\ Torn(Prepared(o))
    <3>1. at[o] = "idle"
      BY <2>2 DEF Launch
    <3>2. Durable(Prepared(o)) => RecordsOn(o, Prepared(o))
      BY <1>1, <2>1, <2>2, <3>1, RecordShapes, DurableOps DEF RecordsOn, Follows
    <3> QED
      BY <2>1, <2>2, <3>2 DEF Torn
  <2>3. CASE at[o] = "saved" /\ journal[o].status # "completed" /\ Torn(Completed(o))
    <3>1. o \in Journaled /\ journal[o].status # "none"
      BY <1>1, <2>3 DEF PlaceOK
    <3>2. Follows(Completed(o), loadable.ops[o].status)
      BY <1>1, <2>3, <3>1, RecordShapes, KindsOfOps DEF Follows, PlaceOK
    <3>3. OfOperation(Completed(o)) /\ Completed(o).op = o
      BY RecordShapes
    <3>4. Durable(Completed(o)) =>
            loadable'.ops = [loadable.ops EXCEPT ![o] = Updated(@, Completed(o))]
      BY <3>1, <3>3, DurableOps
    <3>5. Durable(Completed(o)) => RecordsOn(o, Completed(o))
      BY <2>1, <2>3, <3>1, <3>2, <3>3, <3>4, RecordShapes DEF RecordsOn
    <3> QED
      BY <2>1, <2>3, <3>5 DEF Torn
  <2>4. CASE /\ at[o] = "existing" /\ journal[o].status \notin {"completed", "ambiguous"}
             /\ Torn(Ambiguous(o))
    <3>1. o \in Journaled /\ o \in Adapters /\ journal[o].status # "none"
      BY <1>1, <2>4 DEF PlaceOK
    <3>2. Follows(Ambiguous(o), loadable.ops[o].status)
      BY <1>1, <2>4, <3>1, RecordShapes DEF Follows
    <3>3. OfOperation(Ambiguous(o)) /\ Ambiguous(o).op = o
      BY RecordShapes
    <3>4. Durable(Ambiguous(o)) =>
            loadable'.ops = [loadable.ops EXCEPT ![o] = Updated(@, Ambiguous(o))]
      BY <3>1, <3>3, DurableOps
    <3>5. Durable(Ambiguous(o)) => RecordsOn(o, Ambiguous(o))
      BY <2>1, <2>4, <3>1, <3>2, <3>3, <3>4, RecordShapes DEF RecordsOn
    <3> QED
      BY <2>1, <2>4, <3>5 DEF Torn
  <2> QED
    BY <1>7, <2>2, <2>3, <2>4 DEF JournalFails
<1> QED
  BY <1>2, <1>3, <1>4, <1>5, <1>6, <1>7 DEF OpStep

(* The end of a process marks its run, which is no operation.               *)
LEMMA ProcessRecords ==
  ASSUME JournalInv,
         Cancel \/ EndStep \/ Resume
  PROVE  loadable'.ops = loadable.ops
<1>1. ASSUME NEW r, r.type \in {"run", "resume"}, Durable(r)
      PROVE  loadable'.ops = loadable.ops
  <2>1. Applied(loadable, r).ops = loadable.ops /\ DOMAIN Applied(loadable, r) = DOMAIN loadable
    BY <1>1 DEF Applied, JournalInv, JournalTyped
  <2> QED
    BY <1>1, <2>1 DEF Durable
<1>2. \A end, attempt : Marked(end).type = "run" /\ Resumed(attempt).type = "resume"
  BY DEF Marked, Resumed
<1>3. CASE Cancel
  BY <1>3 DEF Cancel, recovery
<1>4. CASE EndStep \/ Resume
  BY <1>1, <1>2, <1>4 DEF EndStep, EndCompleted, EndFailed, EndInterrupted, EndUnmarked, Crash, Resume, Torn
<1> QED
  BY <1>3, <1>4

\* No operation that has begun begins again, and a completed one is as it was.
Grows(ops, next) ==
  \A o \in Journaled :
    /\ ops[o].status # "none" => next[o].status # "none" /\ next[o].before = ops[o].before
    /\ ops[o].status = "completed" => next[o] = ops[o]

(* A record of an operation keeps the revision it began at, and its result. *)
LEMMA RecordsGrow ==
  ASSUME JournalInv, NEW o, Records(o)
  PROVE  Grows(loadable.ops, loadable'.ops)
<1>1. CASE loadable'.ops = loadable.ops
  BY <1>1 DEF Grows
<1>2. ASSUME NEW r, RecordsOn(o, r)
      PROVE  Grows(loadable.ops, loadable'.ops)
  <2>1. /\ DOMAIN loadable.ops = Journaled
        /\ DOMAIN loadable.ops[o] = {"status", "before", "result"}
    BY <1>2 DEF JournalInv, JournalTyped, RecordsOn
  <2>2. /\ Updated(loadable.ops[o], r).status = r.type
        /\ r.type # "prepared" => Updated(loadable.ops[o], r).before = loadable.ops[o].before
    BY <1>2, <2>1, UpdatedFields DEF RecordsOn
  <2> QED
    BY <1>2, <2>1, <2>2 DEF RecordsOn, Grows, Follows, OfOperation
<1> QED
  BY <1>1, <1>2 DEF Records

(* What the journal has of an operation is kept by every step.              *)
LEMMA NextGrows == JournalInv /\ [Next]_vars => Grows(loadable.ops, loadable'.ops)
<1> SUFFICES ASSUME JournalInv, [Next]_vars PROVE Grows(loadable.ops, loadable'.ops)
  OBVIOUS
<1>1. loadable'.ops = loadable.ops => Grows(loadable.ops, loadable'.ops)
  BY DEF Grows
<1>2. CASE UNCHANGED vars
  BY <1>1, <1>2 DEF vars
<1>3. CASE \E o \in Ops : OpStep(o)
  BY <1>3, WhatItRecords, RecordsGrow
<1> QED
  BY <1>1, <1>2, <1>3, ProcessRecords, NextSteps

-----------------------------------------------------------------------------
\* Executions and calls.

\* The operations that can still be executed, or called, in this process.
MayStart(place) == place \in {"idle", "existing", "prepared", "ready"}

\* Every process executes an operation at most once.
Attempts ==
  /\ stops <= MaxStops + 1 /\ (up => stops <= MaxStops)
  /\ attempts \in [Ops -> Nat]
  /\ \A o \in Ops :
       /\ attempts[o] <= MaxStops + 1
       /\ up => attempts[o] <= stops + 1
       /\ up /\ MayStart(at[o]) => attempts[o] <= stops
       /\ ~up /\ status \in {"running", "interrupted"} => attempts[o] <= stops
  /\ \A o \in Adapters :
       /\ attempts[o] <= 1
       /\ loadable.ops[o].status = "none" \/ at[o] = "prepared" => attempts[o] = 0

(* A process executes an operation at most once, and an adapter is called   *)
(* at most once by all of them.                                             *)
LEMMA AttemptsStep ==
  ASSUME JournalInv, Attempts, NEW o \in Ops, OpStep(o)
  PROVE  Attempts'
<1>1. /\ up \in BOOLEAN /\ stops \in Nat /\ at \in [Ops -> Places] /\ MaxStops \in Nat
      /\ Adapters \subseteq Journaled /\ Journaled \subseteq Ops /\ Dos \cap Adapters = {}
      /\ PlaceOK(o, at[o], journal[o]) /\ (at[o] # "idle" => up)
      /\ o \in Journaled /\ at[o] # "failed" => loadable.ops[o] = journal[o]
  BY ProgramAssumption, KindsOfOps
     DEF JournalInv, JournalTyped, KnownExact, PlaceExact
<1>2. Grows(loadable.ops, loadable'.ops)
  BY WhatItRecords, RecordsGrow
<1>3. \A p \in Adapters : loadable'.ops[p].status = "none" => loadable.ops[p].status = "none"
  BY <1>1, <1>2 DEF Grows
<1>4. up /\ UNCHANGED <<up, stops>>
  BY <1>1 DEF OpStep, Prepare, Copy, Replay, Admit, ResumeInput, Reconcile, AppendMessage, FindMessage,
     Mismatch, Mismatched, Open, MaterializeBase, BaseMissing, Begin, Checkpoint, Answer, Save, Complete,
     MarkAmbiguous, CallAdapter, AdapterReturns, FailOp, InFlight, WriteFails, JournalFails, Launch, Writes
<1>5. CASE Begin(o) \/ CallAdapter(o)
  <2>1. /\ MayStart(at[o]) /\ at' = [at EXCEPT ![o] = "running"]
        /\ attempts' = [attempts EXCEPT ![o] = @ + 1]
    BY <1>5 DEF Begin, CallAdapter, MayStart, Goes
  <2>2. attempts' \in [Ops -> Nat] /\ \A p \in Ops : attempts'[p] = IF p = o THEN attempts[o] + 1 ELSE attempts[p]
    BY <2>1 DEF Attempts
  <2>3. \A p \in Ops : at'[p] = IF p = o THEN "running" ELSE at[p]
    BY <1>1, <2>1
  <2>4. o \in Adapters => at[o] = "prepared" /\ loadable.ops[o].status # "none"
    BY <1>1, <1>5 DEF Begin, CallAdapter, PlaceOK
  <2>5. \A p \in Ops : /\ attempts'[p] <= stops + 1
                       /\ MayStart(at'[p]) => attempts'[p] <= stops
    BY <1>1, <1>4, <2>1, <2>2, <2>3 DEF Attempts, MayStart
  <2>6. \A p \in Adapters :
          /\ attempts'[p] <= 1
          /\ loadable'.ops[p].status = "none" \/ at'[p] = "prepared" => attempts'[p] = 0
    BY <1>1, <1>3, <2>2, <2>3, <2>4 DEF Attempts
  <2>7. \A p \in Ops : attempts'[p] <= MaxStops + 1
    BY <1>1, <1>4, <2>2, <2>5 DEF Attempts
  <2> QED
    BY <1>1, <1>4, <2>2, <2>5, <2>6, <2>7 DEF Attempts
<1>6. CASE attempts' = attempts /\ at' = at
  BY <1>3, <1>4, <1>6 DEF Attempts
<1>7. CASE /\ attempts' = attempts
           /\ \E place \in Places : at' = [at EXCEPT ![o] = place] /\ (MayStart(place) => MayStart(at[o]))
           /\ at'[o] = "prepared" /\ o \in Adapters => loadable.ops[o].status = "none"
  <2>1. PICK place \in Places : at' = [at EXCEPT ![o] = place] /\ (MayStart(place) => MayStart(at[o]))
    BY <1>7
  <2>2. \A p \in Ops : at'[p] = IF p = o THEN place ELSE at[p]
    BY <1>1, <2>1
  <2> QED
    BY <1>1, <1>3, <1>4, <1>7, <2>1, <2>2 DEF Attempts
<1>8. CASE Prepare(o)
  <2>1. attempts' = attempts /\ at[o] = "idle" /\ \E place \in {"existing", "prepared"} : Goes(o, place)
    BY <1>8 DEF Prepare, Launch
  <2>2. at'[o] = "prepared" /\ o \in Adapters => loadable.ops[o].status = "none"
    BY <1>1, <1>8 DEF Prepare, Launch, Goes
  <2> QED
    BY <1>7, <2>1, <2>2 DEF Goes, MayStart, Places
<1>9. CASE Admit(o) \/ ResumeInput(o)
  <2>1. attempts' = attempts /\ at[o] = "prepared" /\ Goes(o, "ready")
    BY <1>9 DEF Admit, ResumeInput, Open
  <2> QED
    BY <1>1, <1>7, <2>1 DEF Goes, MayStart, Places
<1>10. CASE \/ Copy(o) \/ Replay(o) \/ Reconcile(o) \/ AppendMessage(o) \/ FindMessage(o) \/ Mismatch(o)
            \/ BaseMissing(o) \/ Answer(o) \/ Save(o) \/ Complete(o) \/ MarkAmbiguous(o)
            \/ AdapterReturns(o) \/ FailOp(o) \/ WriteFails(o) \/ JournalFails(o)
  <2>1. attempts' = attempts /\ \E place \in {"answered", "saved", "returned", "failed"} : Goes(o, place)
    BY <1>10 DEF Copy, Replay, Reconcile, AppendMessage, FindMessage, Mismatch, BaseMissing, Answer, Save,
       Complete, MarkAmbiguous, AdapterReturns, FailOp, WriteFails, JournalFails, Fails
  <2> QED
    BY <1>1, <1>7, <2>1 DEF Goes, MayStart, Places
<1>11. CASE MaterializeBase(o) \/ Checkpoint(o)
  BY <1>6, <1>11 DEF MaterializeBase, Checkpoint
<1> QED
  BY <1>5, <1>8, <1>9, <1>10, <1>11 DEF OpStep

(* The process after one that ends may execute each agent.do once more.     *)
LEMMA AttemptsEnd ==
  ASSUME JournalInv, Attempts, EndStep
  PROVE  Attempts'
<1>1. /\ up \in BOOLEAN /\ stops \in Nat /\ MaxStops \in Nat
      /\ Adapters \subseteq Journaled /\ Journaled \subseteq Ops /\ loadable.status = "running"
      /\ DOMAIN loadable = {"valid", "status", "attempt", "ops"}
      /\ up
  BY ProgramAssumption, KindsOfOps
     DEF JournalInv, JournalTyped, KnownExact, EndStep, EndCompleted, Succeeded, EndFailed, EndInterrupted,
         EndUnmarked, Crash, CanStop, Settled
<1>2. loadable'.ops = loadable.ops
  BY ProcessRecords
<1>3. /\ up' = FALSE /\ attempts' = attempts /\ status' = loadable'.status
      /\ at' = [o \in Ops |-> "idle"]
  BY DEF EndStep, EndCompleted, EndFailed, EndInterrupted, EndUnmarked, Crash, Down
<1>4. \A end : Durable(Marked(end)) => loadable'.status = end
  <2> SUFFICES ASSUME NEW end, Durable(Marked(end)) PROVE loadable'.status = end
    OBVIOUS
  <2>1. Applied(loadable, Marked(end)) = [loadable EXCEPT !.status = end]
    BY DEF Applied, Marked
  <2>2. DOMAIN Applied(loadable, Marked(end)) = DOMAIN loadable /\ Applied(loadable, Marked(end)).status = end
    BY <1>1, <2>1
  <2> QED
    BY <1>1, <2>2 DEF Durable
<1>5. stops' = stops + 1 \/ (stops' = stops /\ status' \in {"completed", "failed"})
  <2>1. CASE EndCompleted \/ EndFailed
    BY <1>3, <1>4, <2>1 DEF EndCompleted, EndFailed
  <2>2. CASE EndInterrupted \/ EndUnmarked \/ Crash
    BY <2>2 DEF EndInterrupted, EndUnmarked, Crash
  <2> QED
    BY <2>1, <2>2 DEF EndStep
<1>6. \A o \in Adapters : at'[o] = "idle"
  BY <1>1, <1>3
<1> QED
  BY <1>1, <1>2, <1>3, <1>5, <1>6 DEF Attempts

(* A process that resumes the run has executed nothing yet.                 *)
LEMMA AttemptsResume ==
  ASSUME JournalInv, Attempts, Resume
  PROVE  Attempts'
<1>1. /\ stops \in Nat /\ MaxStops \in Nat /\ Adapters \subseteq Ops
      /\ \A o \in Ops : at[o] = "idle"
  BY ProgramAssumption, KindsOfOps DEF JournalInv, JournalTyped, KnownExact, Resume
<1>2. loadable'.ops = loadable.ops
  BY ProcessRecords
<1>3. /\ ~up /\ up' /\ stops <= MaxStops /\ status \in {"running", "interrupted"}
      /\ UNCHANGED <<attempts, stops, at>>
  BY DEF Resume
<1> QED
  BY <1>1, <1>2, <1>3 DEF Attempts

(* Every step keeps the executions bounded by the processes.                *)
LEMMA NextAttempts == JournalInv /\ Attempts /\ [Next]_vars => Attempts'
<1> SUFFICES ASSUME JournalInv, Attempts, [Next]_vars PROVE Attempts'
  OBVIOUS
<1>1. CASE UNCHANGED vars
  BY <1>1 DEF vars, Attempts
<1>2. CASE Cancel
  BY <1>2 DEF Cancel, Attempts, recovery
<1> QED
  BY <1>1, <1>2, AttemptsStep, AttemptsEnd, AttemptsResume, NextSteps

-----------------------------------------------------------------------------
\* Texts, and whose messages are where.

\* The operations that leave messages in a memory, and how many.
Written == Journaled \ Adapters
Leaves(o) == IF o \in Dos THEN 2 ELSE 1

\* A text is the beginning of another.
Begins(s, t) == Len(s) <= Len(t) /\ \A i \in 1..Len(s) : t[i] = s[i]

\* One of two texts is the beginning of the other.
Agree(s, t) == \A i \in 1..Len(s) : i <= Len(t) => t[i] = s[i]

(* A copy has one source, which is no copy, and what is no adapter's names  *)
(* a memory.                                                                *)
LEMMA SourceOf ==
  /\ \A c \in Copies : /\ Dest[c] \in Derived /\ Source(Dest[c]) = Mem[c]
                       /\ Mem[c] \in Memories \ Derived
  /\ \A m \in Derived : m \in Memories /\ Source(m) \in Memories \ Derived /\ Source(m) # m
  /\ \A o \in Ops \ Adapters : Mem[o] \in Memories
<1>1. Copies \subseteq Ops \ Adapters
  BY DEF Copies, Adapters
<1>2. \A o \in Ops \ Adapters : Mem[o] \in Memories
  BY ProgramAssumption
<1>3. \A c \in Copies : Dest[c] \in Memories /\ Dest[c] \in Derived
  BY ProgramAssumption DEF Derived
<1>4. \A c \in Copies : Mem[c] \notin Derived
  BY CopyAssumption DEF Derived
<1>5. ASSUME NEW c \in Copies PROVE Source(Dest[c]) = Mem[c]
  <2>1. (CHOOSE d \in Copies : Dest[d] = Dest[c]) = c
    BY CopyAssumption
  <2> QED
    BY <2>1 DEF Source
<1>6. \A m \in Derived : \E c \in Copies : m = Dest[c]
  BY DEF Derived
<1> QED
  BY <1>1, <1>2, <1>3, <1>4, <1>5, <1>6

(* IsPrefix compares the messages one by one.                               *)
LEMMA PrefixBegins ==
  ASSUME NEW S, NEW s \in Seq(S), NEW t \in Seq(S)
  PROVE  IsPrefix(s, t) <=> Begins(s, t)
<1>1. /\ Len(s) \in Nat /\ Len(t) \in Nat
      /\ \A i \in 1..Len(s) : s[i] \in S
      /\ \A i \in 1..Len(t) : t[i] \in S
  BY LenProperties, ElementOfSeq
<1>2. SubSeq(s, 1, Len(s)) = s
  BY SubSeqFull
<1>3. CASE Len(s) <= Len(t)
  <2>1. /\ SubSeq(t, 1, Len(s)) \in Seq(S) /\ Len(SubSeq(t, 1, Len(s))) = Len(s)
        /\ \A i \in 1..Len(s) : SubSeq(t, 1, Len(s))[i] = t[i]
    <3>1. \A i \in 1..Len(s) : t[i] \in S
      BY <1>1, <1>3
    <3>2. /\ SubSeq(t, 1, Len(s)) \in Seq(S)
          /\ Len(SubSeq(t, 1, Len(s))) = IF 1 <= Len(s) THEN Len(s) - 1 + 1 ELSE 0
          /\ \A i \in 1..(Len(s) - 1 + 1) : SubSeq(t, 1, Len(s))[i] = t[1 + i - 1]
      BY <1>1, <3>1, SubSeqProperties
    <3> QED
      BY <1>1, <3>2
  <2> HIDE DEF IsPrefix
  <2>2. s = SubSeq(t, 1, Len(s)) <=> \A i \in 1..Len(s) : s[i] = SubSeq(t, 1, Len(s))[i]
    BY <2>1, SeqEqual
  <2>3. (\A i \in 1..Len(s) : s[i] = SubSeq(t, 1, Len(s))[i]) <=> (\A i \in 1..Len(s) : t[i] = s[i])
    BY <2>1
  <2> QED
    BY <1>2, <1>3, <2>2, <2>3 DEF IsPrefix, Begins
<1>4. CASE ~(Len(s) <= Len(t))
  BY <1>4 DEF IsPrefix, Begins
<1> QED
  BY <1>3, <1>4

(* A text that begins like another and goes on with its own messages.       *)
LEMMA Joined ==
  ASSUME NEW S, NEW p \in Seq(S), NEW q \in Seq(S), NEW b \in 0..Len(p)
  PROVE  /\ SubSeq(p, 1, b) \o q \in Seq(S)
         /\ Len(SubSeq(p, 1, b) \o q) = b + Len(q)
         /\ \A i \in 1..(b + Len(q)) :
              (SubSeq(p, 1, b) \o q)[i] = IF i <= b THEN p[i] ELSE q[i - b]
<1>1. Len(p) \in Nat /\ Len(q) \in Nat /\ b \in Nat /\ b <= Len(p)
  BY LenProperties
<1>2. \A i \in 1..b : p[i] \in S
  BY <1>1, ElementOfSeq
<1>3. /\ SubSeq(p, 1, b) \in Seq(S)
      /\ Len(SubSeq(p, 1, b)) = IF 1 <= b THEN b - 1 + 1 ELSE 0
      /\ \A i \in 1..(b - 1 + 1) : SubSeq(p, 1, b)[i] = p[1 + i - 1]
  BY <1>1, <1>2, SubSeqProperties
<1>4. Len(SubSeq(p, 1, b)) = b /\ \A i \in 1..b : SubSeq(p, 1, b)[i] = p[i]
  BY <1>1, <1>3
<1> DEFINE s == SubSeq(p, 1, b)
<1> HIDE DEF s
<1>5. s \in Seq(S) /\ Len(s) = b /\ \A i \in 1..b : s[i] = p[i]
  BY <1>3, <1>4 DEF s
<1>6. /\ s \o q \in Seq(S) /\ Len(s \o q) = b + Len(q)
      /\ \A i \in 1..(b + Len(q)) : (s \o q)[i] = IF i <= b THEN s[i] ELSE q[i - b]
  BY <1>5, ConcatProperties
<1> QED
  BY <1>1, <1>5, <1>6 DEF s

(* Append puts one message behind those there are.                          *)
LEMMA Appended ==
  ASSUME NEW S, NEW q \in Seq(S), NEW x \in S
  PROVE  /\ Append(q, x) \in Seq(S) /\ Len(Append(q, x)) = Len(q) + 1
         /\ \A i \in 1..Len(q) : Append(q, x)[i] = q[i]
         /\ Append(q, x)[Len(q) + 1] = x
OBVIOUS

-----------------------------------------------------------------------------
Operation == [status : Statuses, before : Nat, result : Messages \cup {Nothing}]
OpsTyped(ops) == ops \in [Journaled -> Operation]

\* Message i of a text of m, of which b are inherited, is where its operation
\* leaves it.
Fits(text, i, m, b, ops) ==
  LET x == text[i]
      o == x.op
  IN  /\ o \in Written /\ ops[o].status # "none"
      /\ Mem[o] = IF i <= b THEN Source(m) ELSE m
      /\ \/ x = Input(o) /\ i = ops[o].before + 1
         \/ /\ o \in Dos /\ x.role = "assistant" /\ i = ops[o].before + 2
            /\ text[i - 1] = Input(o)

AllFit(text, m, b, ops) == \A i \in 1..Len(text) : Fits(text, i, m, b, ops)

(* The messages of an operation name it, and an agent's answer is an        *)
(* assistant's.                                                             *)
LEMMA InputShape ==
  ASSUME NEW o \in Ops
  PROVE  /\ Input(o) \in Messages /\ Input(o).op = o /\ Input(o).role # "assistant"
         /\ Output(o).op = o /\ (o \in Dos => Output(o).role = "assistant")
         /\ attempts[o] \in 0..(MaxStops + 1) => Output(o) \in Messages
BY ProgramAssumption, KindsOfOps DEF Input, Output, Messages

(* Messages stay where they belong when the journal grows.                  *)
LEMMA FitGrown ==
  ASSUME NEW text, NEW m, NEW b, NEW ops, NEW next, AllFit(text, m, b, ops), Grows(ops, next)
  PROVE  AllFit(text, m, b, next)
BY DEF AllFit, Fits, Grows, Written

(* The messages at the beginning of a text are where they belong.           *)
LEMMA FitPart ==
  ASSUME NEW text \in Seq(Messages), NEW part \in Seq(Messages), Begins(part, text),
         NEW m, NEW b, NEW ops, OpsTyped(ops), AllFit(text, m, b, ops)
  PROVE  AllFit(part, m, b, ops)
<1> SUFFICES ASSUME NEW i \in 1..Len(part) PROVE Fits(part, i, m, b, ops)
  BY DEF AllFit
<1>1. i \in 1..Len(text) /\ part[i] = text[i]
  BY DEF Begins
<1>2. Fits(text, i, m, b, ops)
  BY <1>1 DEF AllFit
<1>3. text[i].op \in Written => ops[text[i].op].before \in Nat
  BY DEF OpsTyped, Operation, Written
<1>4. i > 1 => part[i - 1] = text[i - 1]
  BY DEF Begins
<1> QED
  BY <1>1, <1>2, <1>3, <1>4 DEF Fits

(* A message is added where it belongs.                                     *)
LEMMA FitAppend ==
  ASSUME NEW text \in Seq(Messages), NEW x \in Messages,
         NEW m, NEW b, NEW ops, OpsTyped(ops), AllFit(text, m, b, ops),
         Fits(Append(text, x), Len(text) + 1, m, b, ops)
  PROVE  AllFit(Append(text, x), m, b, ops)
<1>1. /\ Len(text) \in Nat /\ Len(Append(text, x)) = Len(text) + 1
      /\ \A i \in 1..Len(text) : Append(text, x)[i] = text[i]
  BY Appended
<1> SUFFICES ASSUME NEW i \in 1..Len(text) PROVE Fits(Append(text, x), i, m, b, ops)
  BY <1>1 DEF AllFit
<1>2. Fits(text, i, m, b, ops) /\ Append(text, x)[i] = text[i]
  BY <1>1 DEF AllFit
<1>3. text[i].op \in Written => ops[text[i].op].before \in Nat
  BY DEF OpsTyped, Operation, Written
<1>4. i > 1 => Append(text, x)[i - 1] = text[i - 1]
  BY <1>1
<1> QED
  BY <1>2, <1>3, <1>4 DEF Fits

(* A copy begins with what its source holds.                                *)
LEMMA FitCopy ==
  ASSUME NEW text, Len(text) \in Nat, NEW m, NEW ops, AllFit(text, Source(m), 0, ops)
  PROVE  AllFit(text, m, Len(text), ops)
BY DEF AllFit, Fits

(* No message is there twice, and an answer follows its input.              *)
LEMMA FitUnique ==
  ASSUME NEW text, NEW m, NEW b, NEW ops, AllFit(text, m, b, ops)
  PROVE  /\ \A i, j \in 1..Len(text) : text[i] = text[j] => i = j
         /\ \A i \in 1..Len(text) : text[i].role = "assistant" =>
              /\ text[i].op \in Dos /\ i = ops[text[i].op].before + 2
              /\ text[i - 1] = Input(text[i].op)
<1>1. \A o \in Written : o \in Ops
  BY KindsOfOps DEF Written
<1> QED
  BY <1>1, InputShape DEF AllFit, Fits

-----------------------------------------------------------------------------
\* The files.

TextTyped ==
  /\ files \subseteq Memories
  /\ records \in [Memories -> Seq(Messages)] /\ mem \in [Memories -> Seq(Messages)]
  /\ base \in [Derived -> Nat] /\ remembered \in [Memories -> SUBSET Nat]

\* The file of a copy stands on a file that holds its base.
Based == \A m \in Derived :
  m \in files => Source(m) \in files /\ base[m] <= Len(records[Source(m)])

\* What a file stands for, message by message.
LoadedShape == \A m \in files :
  /\ Inherited(m) \in Nat
  /\ Loaded(m) \in Seq(Messages) /\ Len(Loaded(m)) = Inherited(m) + Len(records[m])
  /\ m \notin Derived => Loaded(m) = records[m] /\ Inherited(m) = 0
  /\ m \in Derived =>
       /\ Inherited(m) = base[m]
       /\ \A i \in 1..Len(Loaded(m)) :
            Loaded(m)[i] = IF i <= base[m] THEN records[Source(m)][i] ELSE records[m][i - base[m]]

(* A file stands for the messages up to its base and then for its own.      *)
LEMMA ShapeOfLoaded == TextTyped /\ Based => LoadedShape
<1> SUFFICES ASSUME TextTyped, Based, NEW m \in files
             PROVE  /\ Inherited(m) \in Nat
                    /\ Loaded(m) \in Seq(Messages) /\ Len(Loaded(m)) = Inherited(m) + Len(records[m])
                    /\ m \notin Derived => Loaded(m) = records[m] /\ Inherited(m) = 0
                    /\ m \in Derived =>
                         /\ Inherited(m) = base[m]
                         /\ \A i \in 1..Len(Loaded(m)) :
                              Loaded(m)[i] = IF i <= base[m] THEN records[Source(m)][i]
                                             ELSE records[m][i - base[m]]
  BY DEF LoadedShape
<1>1. m \in Memories /\ records[m] \in Seq(Messages)
  BY DEF TextTyped
<1>2. CASE m \notin Derived
  BY <1>1, <1>2, LenProperties DEF Loaded, Inherited
<1>3. CASE m \in Derived
  <2>1. /\ Source(m) \in Memories /\ records[Source(m)] \in Seq(Messages)
        /\ base[m] \in Nat /\ base[m] <= Len(records[Source(m)])
    BY <1>3, SourceOf DEF TextTyped, Based
  <2>2. base[m] \in 0..Len(records[Source(m)])
    BY <2>1, LenProperties
  <2>3. Loaded(m) = SubSeq(records[Source(m)], 1, base[m]) \o records[m] /\ Inherited(m) = base[m]
    BY <1>3 DEF Loaded, Inherited
  <2>4. /\ Loaded(m) \in Seq(Messages) /\ Len(Loaded(m)) = base[m] + Len(records[m])
        /\ \A i \in 1..(base[m] + Len(records[m])) :
             Loaded(m)[i] = IF i <= base[m] THEN records[Source(m)][i] ELSE records[m][i - base[m]]
    <3> DEFINE s == records[Source(m)]
               t == records[m]
               n == base[m]
               u == SubSeq(s, 1, n) \o t
    <3>1. s \in Seq(Messages) /\ t \in Seq(Messages) /\ n \in 0..Len(s)
      BY <1>1, <2>1, <2>2
    <3> HIDE DEF s, t, n
    <3>2. /\ u \in Seq(Messages) /\ Len(u) = n + Len(t)
          /\ \A i \in 1..(n + Len(t)) : u[i] = IF i <= n THEN s[i] ELSE t[i - n]
      BY <3>1, Joined
    <3> QED
      BY <2>3, <3>2 DEF s, t, n
  <2> QED
    BY <1>3, <2>1, <2>3, <2>4
<1> QED
  BY <1>2, <1>3

(* The same after a step that keeps the types and the bases.                *)
LEMMA NextShape == TextTyped' /\ Based' => LoadedShape'
BY ShapeOfLoaded, PTL

(* A file is written: what it had stays its beginning, and no other file    *)
(* stands for anything else.                                                *)
LEMMA FileWritten ==
  ASSUME TextTyped, Based, NEW m \in Memories, NEW own \in Seq(Messages),
         files' = files \cup {m}, UNCHANGED <<base, mem>>, records' = [records EXCEPT ![m] = own],
         remembered' \in [Memories -> SUBSET Nat],
         m \in files => Begins(records[m], own),
         m \in Derived => Source(m) \in files /\ base[m] <= Len(records[Source(m)])
  PROVE  /\ TextTyped' /\ Based' /\ LoadedShape'
         /\ records'[m] = own
         /\ m \in Derived => records'[Source(m)] = records[Source(m)]
         /\ m \in files => Begins(Loaded(m), Loaded(m)')
         /\ \A n \in Memories \ {m} :
              records'[n] = records[n] /\ (n \in files => Loaded(n)' = Loaded(n))
<1>1. records' \in [Memories -> Seq(Messages)] /\ records'[m] = own
      /\ \A n \in Memories \ {m} : records'[n] = records[n]
  BY DEF TextTyped
<1>2. TextTyped'
  BY <1>1 DEF TextTyped
<1>3. \A n \in Memories : n \in files => Len(records[n]) <= Len(records'[n])
                            /\ \A i \in 1..Len(records[n]) : records'[n][i] = records[n][i]
  <2> SUFFICES ASSUME NEW n \in Memories, n \in files
               PROVE  Len(records[n]) <= Len(records'[n])
                      /\ \A i \in 1..Len(records[n]) : records'[n][i] = records[n][i]
    OBVIOUS
  <2>1. Len(records[n]) \in Nat
    BY LenProperties DEF TextTyped
  <2> QED
    BY <1>1, <2>1 DEF Begins
<1>4. Based'
  <2> SUFFICES ASSUME NEW n \in Derived, n \in files'
               PROVE  Source(n) \in files' /\ base[n] <= Len(records'[Source(n)])
    BY DEF Based
  <2>1. Source(n) \in files /\ base[n] <= Len(records[Source(n)])
    BY DEF Based
  <2>2. Source(n) \in Memories
    BY SourceOf
  <2>3. Len(records[Source(n)]) \in Nat /\ Len(records'[Source(n)]) \in Nat /\ base[n] \in Nat
    BY <1>1, <2>2, LenProperties DEF TextTyped
  <2> QED
    BY <1>3, <2>1, <2>2, <2>3
<1>5. LoadedShape /\ LoadedShape'
  BY <1>2, <1>4, ShapeOfLoaded, NextShape
<1>6. m \in Derived => Source(m) # m /\ Source(m) \in Memories
  BY SourceOf
<1>7. \A n : Inherited(n)' = Inherited(n)
  BY DEF Inherited
<1>8. ASSUME NEW n \in files
      PROVE  /\ n \in Memories /\ n \in files' /\ Loaded(n) \in Seq(Messages) /\ Loaded(n)' \in Seq(Messages)
             /\ Begins(Loaded(n), Loaded(n)')
             /\ records'[n] = records[n] => Len(Loaded(n)') = Len(Loaded(n))
  <2>1. n \in Memories /\ n \in files'
    BY DEF TextTyped
  <2>2. /\ Loaded(n) \in Seq(Messages) /\ Loaded(n)' \in Seq(Messages)
        /\ Len(Loaded(n)) = Inherited(n) + Len(records[n])
        /\ Len(Loaded(n)') = Inherited(n) + Len(records'[n])
        /\ Inherited(n) \in Nat
    BY <1>5, <1>7, <2>1 DEF LoadedShape
  <2>3. Len(records[n]) \in Nat /\ Len(records'[n]) \in Nat
    BY <1>1, <2>1, LenProperties DEF TextTyped
  <2>4. Len(Loaded(n)) <= Len(Loaded(n)')
    BY <1>3, <2>1, <2>2, <2>3
  <2>5. ASSUME NEW i \in 1..Len(Loaded(n)) PROVE Loaded(n)'[i] = Loaded(n)[i]
    <3>1. CASE n \notin Derived
      BY <1>3, <1>5, <2>1, <3>1 DEF LoadedShape
    <3>2. CASE n \in Derived
      <4>1. /\ Source(n) \in files /\ base[n] <= Len(records[Source(n)])
            /\ Source(n) \in Memories /\ base[n] \in Nat /\ Len(records[Source(n)]) \in Nat
        BY <3>2, SourceOf, LenProperties DEF Based, TextTyped
      <4>2. /\ Loaded(n)[i] = IF i <= base[n] THEN records[Source(n)][i] ELSE records[n][i - base[n]]
            /\ Loaded(n)'[i] = IF i <= base[n] THEN records'[Source(n)][i] ELSE records'[n][i - base[n]]
            /\ Inherited(n) = base[n]
        <5>1. i \in 1..Len(Loaded(n)')
          BY <2>2, <2>3, <2>4
        <5>2. /\ Loaded(n)[i] = IF i <= base[n] THEN records[Source(n)][i] ELSE records[n][i - base[n]]
              /\ Inherited(n) = base[n]
          BY <1>5, <3>2 DEF LoadedShape
        <5>3. Loaded(n)'[i] = IF i <= base'[n] THEN records'[Source(n)][i] ELSE records'[n][i - base'[n]]
          BY <1>5, <2>1, <3>2, <5>1 DEF LoadedShape
        <5> QED
          BY <5>2, <5>3
      <4>3. CASE i <= base[n]
        <5>1. i \in 1..Len(records[Source(n)])
          BY <4>1, <4>3
        <5> QED
          BY <1>3, <4>1, <4>2, <4>3, <5>1
      <4>4. CASE ~(i <= base[n])
        <5>1. i - base[n] \in 1..Len(records[n])
          BY <2>2, <2>3, <4>1, <4>2, <4>4
        <5> QED
          BY <1>3, <2>1, <4>2, <4>4, <5>1
      <4> QED
        BY <4>3, <4>4
    <3> QED
      BY <3>1, <3>2
  <2> QED
    BY <2>1, <2>2, <2>4, <2>5 DEF Begins
<1>9. ASSUME NEW n \in files, records'[n] = records[n]
      PROVE  Loaded(n)' = Loaded(n)
  BY <1>8, <1>9, SeqEqual DEF Begins
<1> QED
  BY <1>1, <1>2, <1>4, <1>5, <1>6, <1>8, <1>9

(* What Put leaves in the file of a memory: the memory up to the revision.  *)
LEMMA FilePut ==
  ASSUME TextTyped, Based, NEW m \in Memories, NEW revision \in Nat, Put(m, revision),
         UNCHANGED <<base, mem>>, remembered' \in [Memories -> SUBSET Nat],
         Inherited(m) <= revision, revision <= Len(mem[m]),
         m \in files => Len(Loaded(m)) <= revision /\ Agree(Loaded(m), mem[m]),
         m \in Derived => /\ Source(m) \in files /\ base[m] <= Len(records[Source(m)])
                          /\ \A i \in 1..base[m] : records[Source(m)][i] = mem[m][i]
  PROVE  /\ TextTyped' /\ Based' /\ LoadedShape'
         /\ m \in files' /\ files' = files \cup {m}
         /\ Len(Loaded(m)') = revision
         /\ \A i \in 1..revision : Loaded(m)'[i] = mem[m][i]
         /\ m \in files => Begins(Loaded(m), Loaded(m)')
         /\ \A n \in Memories \ {m} :
              records'[n] = records[n] /\ (n \in files => Loaded(n)' = Loaded(n))
<1> DEFINE own == SubSeq(mem[m], Inherited(m) + 1, revision)
<1>1. Inherited(m) \in Nat /\ mem[m] \in Seq(Messages) /\ Len(mem[m]) \in Nat
      /\ records[m] \in Seq(Messages) /\ Len(records[m]) \in Nat
  BY LenProperties DEF Inherited, TextTyped
<1>2. \A i \in (Inherited(m) + 1)..revision : mem[m][i] \in Messages
  BY <1>1, ElementOfSeq
<1>3. /\ own \in Seq(Messages)
      /\ Len(own) = IF Inherited(m) + 1 <= revision THEN revision - (Inherited(m) + 1) + 1 ELSE 0
      /\ \A i \in 1..(revision - (Inherited(m) + 1) + 1) : own[i] = mem[m][(Inherited(m) + 1) + i - 1]
  <2> DEFINE s == mem[m]
             f == Inherited(m) + 1
             u == SubSeq(s, f, revision)
  <2>1. s \in Seq(Messages) /\ f \in Int /\ revision \in Int /\ \A i \in f..revision : s[i] \in Messages
    BY <1>1, <1>2
  <2> HIDE DEF s, f
  <2>2. /\ u \in Seq(Messages) /\ Len(u) = IF f <= revision THEN revision - f + 1 ELSE 0
        /\ \A i \in 1..(revision - f + 1) : u[i] = s[f + i - 1]
    BY <2>1, SubSeqProperties
  <2> QED
    BY <2>2 DEF s, f
<1>4. files' = files \cup {m} /\ records' = [records EXCEPT ![m] = own]
  BY DEF Put, ensureMemoryFile
<1> HIDE DEF own
<1>5. Len(own) = revision - Inherited(m) /\ \A i \in 1..Len(own) : own[i] = mem[m][Inherited(m) + i]
  <2>1. Len(own) = revision - Inherited(m)
    BY <1>1, <1>3
  <2>2. ASSUME NEW i \in 1..Len(own) PROVE own[i] = mem[m][Inherited(m) + i]
    <3>1. i \in 1..(revision - (Inherited(m) + 1) + 1) /\ (Inherited(m) + 1) + i - 1 = Inherited(m) + i
      BY <1>1, <2>1
    <3> QED
      BY <1>3, <3>1
  <2> QED
    BY <2>1, <2>2
<1>6. m \in files => Begins(records[m], own)
  <2> SUFFICES ASSUME m \in files PROVE Begins(records[m], own)
    OBVIOUS
  <2>1. LoadedShape
    BY ShapeOfLoaded
  <2>2. Len(Loaded(m)) = Inherited(m) + Len(records[m]) /\ Len(Loaded(m)) <= revision
    BY <2>1 DEF LoadedShape
  <2>3. Len(records[m]) <= Len(own)
    BY <1>1, <1>5, <2>2
  <2>4. ASSUME NEW i \in 1..Len(records[m]) PROVE own[i] = records[m][i]
    <3>1. Inherited(m) + i \in 1..Len(Loaded(m)) /\ Inherited(m) + i <= Len(mem[m])
      BY <1>1, <2>2
    <3>2. Loaded(m)[Inherited(m) + i] = records[m][i]
      <4>1. CASE m \in Derived
        <5>1. /\ Inherited(m) = base[m]
              /\ \A j \in 1..Len(Loaded(m)) :
                   Loaded(m)[j] = IF j <= base[m] THEN records[Source(m)][j] ELSE records[m][j - base[m]]
          BY <2>1, <4>1 DEF LoadedShape
        <5>2. ~(Inherited(m) + i <= base[m]) /\ (Inherited(m) + i) - base[m] = i
          BY <1>1, <5>1
        <5> QED
          BY <3>1, <5>1, <5>2
      <4>2. CASE m \notin Derived
        <5>1. Loaded(m) = records[m] /\ Inherited(m) = 0
          BY <2>1, <4>2 DEF LoadedShape
        <5> QED
          BY <5>1
      <4> QED
        BY <4>1, <4>2
    <3>3. mem[m][Inherited(m) + i] = Loaded(m)[Inherited(m) + i]
      BY <3>1 DEF Agree
    <3> QED
      BY <1>1, <1>5, <2>3, <3>2, <3>3
  <2> QED
    BY <2>3, <2>4 DEF Begins
<1>7. /\ TextTyped' /\ Based' /\ LoadedShape' /\ records'[m] = own
      /\ m \in Derived => records'[Source(m)] = records[Source(m)]
      /\ m \in files => Begins(Loaded(m), Loaded(m)')
      /\ \A n \in Memories \ {m} :
           records'[n] = records[n] /\ (n \in files => Loaded(n)' = Loaded(n))
  BY <1>3, <1>4, <1>6, FileWritten
<1>8. Inherited(m)' = Inherited(m) /\ m \in files' /\ base' = base
  BY <1>4 DEF Inherited
<1>9. Len(Loaded(m)') = revision
  BY <1>1, <1>5, <1>7, <1>8 DEF LoadedShape
<1>10. ASSUME NEW i \in 1..revision PROVE Loaded(m)'[i] = mem[m][i]
  <2>1. CASE m \notin Derived
    BY <1>1, <1>5, <1>7, <1>8, <2>1 DEF LoadedShape
  <2>2. CASE m \in Derived
    <3>1. /\ Loaded(m)'[i] = IF i <= base[m] THEN records[Source(m)][i] ELSE own[i - base[m]]
          /\ Inherited(m) = base[m]
      BY <1>7, <1>8, <1>9, <2>2 DEF LoadedShape
    <3>2. CASE i <= base[m]
      BY <1>1, <2>2, <3>1, <3>2
    <3>3. CASE ~(i <= base[m])
      <4>1. i - base[m] \in 1..Len(own)
        BY <1>1, <1>5, <3>1, <3>3
      <4> QED
        BY <1>1, <1>5, <3>1, <3>3, <4>1
    <3> QED
      BY <3>2, <3>3
  <2> QED
    BY <2>1, <2>2
<1> QED
  BY <1>4, <1>7, <1>8, <1>9, <1>10

-----------------------------------------------------------------------------
\* The invariant of the messages and the files.

\* The executor has journaled an answer that the memory does not have yet.
Ahead(m) ==
  /\ Len(Loaded(m)) = Len(mem[m]) + 1
  /\ \E o \in Dos : /\ Mem[o] = m /\ at[o] \in {"running", "failed"}
                    /\ Loaded(m)[Len(mem[m]) + 1] = Output(o)

\* A file is the beginning of its memory, but for such an answer.
FileOK(m) ==
  /\ m \notin files => records[m] = <<>> /\ remembered[m] = {}
  /\ m \in files => \A r \in remembered[m] : r <= Len(Loaded(m))
  /\ up /\ m \in files => /\ Agree(Loaded(m), mem[m])
                          /\ Len(Loaded(m)) <= Len(mem[m]) \/ Ahead(m)
Filed == \A m \in Memories : FileOK(m)

\* Up to its base a copy is what its source is.
ForkOK(m) ==
  /\ m \notin files /\ ~up => base[m] = 0
  /\ up => /\ base[m] <= Len(mem[m]) /\ base[m] <= Len(mem[Source(m)])
           /\ \A i \in 1..base[m] : mem[m][i] = mem[Source(m)][i]
Forked == \A m \in Derived : ForkOK(m)

\* The messages are where their operations leave them.
TextOK(m) ==
  /\ AllFit(mem[m], m, Inherited(m), loadable.ops)
  /\ m \in files => AllFit(Loaded(m), m, Inherited(m), loadable.ops)
Texts == \A m \in Memories : TextOK(m)

\* An answer that the file lacks is one that is about to be saved, or whose
\* operation has failed.
SaveOK(m) ==
  \A i \in 1..Len(mem[m]) :
    mem[m][i].role = "assistant" /\ i > Inherited(m) =>
      /\ m \in files
      /\ i <= Len(Loaded(m)) \/ at[mem[m][i].op] \in {"answered", "failed"}
AnswersSaved == \A m \in Memories : SaveOK(m)

\* What the memory of an operation that is at a place holds of it.
PlaceIn(o, place, before, text, filed, loaded) ==
  /\ place \in {"ready", "running", "answered", "saved", "returned"} =>
       before + 1 <= Len(text) /\ text[before + 1] = Input(o)
  /\ place \in {"ready", "running"} => o \in Dos /\ Len(text) = before + 1
  /\ place = "running" => filed /\ before + 1 <= Len(loaded)
  /\ place = "answered" => filed /\ Len(text) = before + Leaves(o)
  /\ o \in Dos /\ place \in {"answered", "saved"} =>
       before + 2 <= Len(text) /\ text[before + 2].role = "assistant"
  /\ o \in Dos /\ place = "saved" => filed /\ before + 2 <= Len(loaded)
  /\ place = "returned" => before + Leaves(o) <= Len(text)
Placed == \A o \in Written :
  PlaceIn(o, at[o], loadable.ops[o].before, mem[Mem[o]], Mem[o] \in files, Loaded(Mem[o]))

\* The result of a completed agent.do is its answer in the file.
ResultIn(o, operation, filed, loaded) ==
  operation.status = "completed" =>
    /\ filed /\ operation.before + 2 <= Len(loaded)
    /\ operation.result = loaded[operation.before + 2]
    /\ operation.result.op = o /\ operation.result.role = "assistant"
Results ==
  /\ \A o \in Journaled : loadable.ops[o].status # "completed" => loadable.ops[o].result = Nothing
  /\ \A o \in Adapters : loadable.ops[o].status = "completed" => loadable.ops[o].result \in Messages
  /\ \A o \in Dos : ResultIn(o, loadable.ops[o], Mem[o] \in files, Loaded(Mem[o]))

OpsAreTyped == OpsTyped(loadable.ops) /\ OpsTyped(journal) /\ told \subseteq Ops \X Messages

ControlInv == JournalInv /\ Exclusive /\ Attempts
DataInv == /\ TextTyped /\ Based /\ Filed /\ Forked /\ Texts /\ AnswersSaved /\ Placed /\ Results
           /\ OpsAreTyped

-----------------------------------------------------------------------------
(* What an operation needs of a file is still there when the file has       *)
(* grown.                                                                   *)
LEMMA PlaceGrows ==
  ASSUME NEW o, NEW place, NEW before \in Nat, NEW text, NEW filed, NEW loaded, NEW filed2, NEW loaded2,
         PlaceIn(o, place, before, text, filed, loaded),
         filed => filed2 /\ Len(loaded) \in Nat /\ Len(loaded2) \in Nat /\ Len(loaded) <= Len(loaded2)
  PROVE  PlaceIn(o, place, before, text, filed2, loaded2)
BY DEF PlaceIn

(* A completed agent.do still has its result in a file that has grown.      *)
LEMMA ResultGrows ==
  ASSUME NEW o, NEW operation, operation.before \in Nat, NEW filed, NEW loaded, NEW filed2, NEW loaded2,
         ResultIn(o, operation, filed, loaded),
         filed => filed2 /\ Len(loaded) \in Nat /\ Len(loaded2) \in Nat /\ Begins(loaded, loaded2)
  PROVE  ResultIn(o, operation, filed2, loaded2)
BY DEF ResultIn, Begins

(* What writes to a memory is journaled and no adapter's.                   *)
LEMMA WrittenOps ==
  /\ Written \subseteq Journaled /\ Written \subseteq Ops \ Adapters /\ Dos \subseteq Written
  /\ \A o \in Written : o \in Ops /\ o \notin Adapters /\ Mem[o] \in Memories
BY KindsOfOps, SourceOf DEF Written

\* What is known of a memory.
LEMMA TextKnown ==
  ASSUME TextTyped, Based, NEW m \in Memories
  PROVE  /\ mem[m] \in Seq(Messages) /\ Len(mem[m]) \in Nat
         /\ records[m] \in Seq(Messages) /\ Len(records[m]) \in Nat
         /\ Inherited(m) \in Nat
         /\ m \in files => Loaded(m) \in Seq(Messages) /\ Len(Loaded(m)) \in Nat
                           /\ Len(Loaded(m)) = Inherited(m) + Len(records[m])
                           /\ (m \notin Derived => Loaded(m) = records[m])
BY ShapeOfLoaded, LenProperties DEF TextTyped, LoadedShape, Inherited

(* An answer that follows the input of o is an answer of o.                 *)
LEMMA AnswerAfterInput ==
  ASSUME NEW text \in Seq(Messages), NEW m, NEW b, NEW ops, OpsTyped(ops), AllFit(text, m, b, ops),
         NEW o \in Written, NEW before \in Nat, before + 2 <= Len(text), text[before + 1] = Input(o),
         text[before + 2].role = "assistant"
  PROVE  text[before + 2].op = o /\ ops[o].before = before
<1>1. Len(text) \in Nat /\ before + 2 \in 1..Len(text) /\ o \in Ops
  BY LenProperties, WrittenOps
<1>2. /\ text[before + 2].op \in Dos /\ before + 2 = ops[text[before + 2].op].before + 2
      /\ text[before + 2 - 1] = Input(text[before + 2].op)
  BY <1>1, FitUnique
<1>3. before + 2 - 1 = before + 1 /\ text[before + 2].op \in Ops
      /\ ops[text[before + 2].op].before \in Nat
  BY <1>2, KindsOfOps DEF OpsTyped, Operation
<1> QED
  BY <1>1, <1>2, <1>3, InputShape

-----------------------------------------------------------------------------
(* A record that is durable has the right types, and the answer of the      *)
(* agent.do that it completes is in the file.                               *)
LEMMA RecordsData ==
  ASSUME ControlInv, DataInv, NEW o \in Ops, Records(o), Knows(o), up,
         UNCHANGED <<stored, mem>>
  PROVE  OpsTyped(loadable'.ops) /\ OpsTyped(journal') /\ Results'
<1>1. OpsTyped(loadable.ops) /\ OpsTyped(journal) /\ Results
  BY DEF DataInv, OpsAreTyped
<1>2. \A m : Loaded(m)' = Loaded(m) /\ files' = files
  BY DEF Loaded, stored
<1>3. ASSUME NEW r, RecordsOn(o, r)
      PROVE  /\ r.type = "prepared" => r.before \in Nat
             /\ r.type = "completed" =>
                  /\ r.result \in Messages \cup {Nothing}
                  /\ o \in Adapters => r.result \in Messages
                  /\ o \in Dos =>
                       ResultIn(o, [loadable.ops[o] EXCEPT !.status = "completed", !.result = r.result],
                                Mem[o] \in files, Loaded(Mem[o]))
  <2>1. CASE r = Prepared(o)
    <3>1. o \notin Adapters => Mem[o] \in Memories
      BY SourceOf
    <3>2. o \notin Adapters => Revision(o) \in Nat
      BY <3>1, TextKnown DEF Revision, DataInv
    <3> QED
      BY <2>1, <3>2 DEF Prepared
  <2>2. CASE r = Completed(o) /\ at[o] = "saved"
    <3>1. r.result = CASE Kind[o] = "do" -> mem[Mem[o]][Before(o) + 2]
                       [] Kind[o] = "adapter" -> Output(o)
                       [] OTHER -> Nothing
      BY <2>2 DEF Completed
    <3>0. r.type = "completed"
      BY <2>2 DEF Completed
    <3>2. CASE o \in Dos
      <4>1. loadable.ops[o] = journal[o] /\ o \in Journaled /\ o \in Written /\ Mem[o] \in Memories
            /\ Kind[o] = "do" /\ o \notin Adapters
        BY <2>2, <3>2, KindsOfOps, WrittenOps DEF ControlInv, JournalInv, KnownExact, Dos
      <4> DEFINE m == Mem[o]
                 b == loadable.ops[o].before
      <4>2. PlaceIn(o, "saved", b, mem[m], m \in files, Loaded(m))
        BY <2>2, <4>1 DEF DataInv, Placed
      <4>3. /\ b \in Nat /\ m \in files /\ b + 2 <= Len(mem[m]) /\ b + 2 <= Len(Loaded(m))
            /\ mem[m][b + 1] = Input(o) /\ mem[m][b + 2].role = "assistant"
        BY <1>1, <3>2, <4>1, <4>2 DEF PlaceIn, OpsTyped, Operation
      <4>4. /\ mem[m] \in Seq(Messages) /\ Len(mem[m]) \in Nat /\ Len(Loaded(m)) \in Nat
        BY <4>1, <4>3, TextKnown DEF DataInv
      <4>5. mem[m][b + 2] \in Messages
        BY <4>3, <4>4
      <4>6. r.result = mem[m][b + 2]
        BY <3>1, <4>1 DEF Before
      <4>7. mem[m][b + 2] = Loaded(m)[b + 2]
        <5>1. Agree(Loaded(m), mem[m])
          BY <4>1, <4>3 DEF DataInv, Filed, FileOK
        <5> QED
          BY <4>3, <4>4, <5>1 DEF Agree
      <4>8. mem[m][b + 2].op = o
        <5>1. AllFit(mem[m], m, Inherited(m), loadable.ops)
          BY <4>1 DEF DataInv, Texts, TextOK
        <5> QED
          BY <1>1, <4>1, <4>3, <4>4, <5>1, AnswerAfterInput
      <4>9. DOMAIN loadable.ops[o] = {"status", "before", "result"}
        BY <4>1 DEF ControlInv, JournalInv, JournalTyped
      <4>10. ResultIn(o, [loadable.ops[o] EXCEPT !.status = "completed", !.result = r.result],
                      m \in files, Loaded(m))
        BY <4>3, <4>6, <4>7, <4>8, <4>9 DEF ResultIn
      <4> QED
        BY <3>0, <4>1, <4>5, <4>6, <4>10
    <3>3. CASE o \in Adapters
      <4>1. Output(o) \in Messages
        BY InputShape, ProgramAssumption DEF ControlInv, Attempts
      <4> QED
        BY <3>0, <3>1, <3>3, <4>1, KindsOfOps DEF Adapters
    <3>4. CASE o \notin Dos /\ o \notin Adapters
      <4>1. r.result = Nothing
        BY <3>1, <3>4 DEF Dos, Adapters
      <4> QED
        BY <3>0, <3>4, <4>1
    <3> QED
      BY <2>2, <3>2, <3>3, <3>4 DEF Completed
  <2>3. CASE r = Interrupted(o) \/ r = Ambiguous(o)
    BY <2>3 DEF Interrupted, Ambiguous
  <2> QED
    BY <1>3, <2>1, <2>2, <2>3 DEF RecordsOn
<1>4. ASSUME NEW r, RecordsOn(o, r), NEW operation \in Operation
      PROVE  Updated(operation, r) \in Operation
  BY <1>3, <1>4 DEF Updated, Operation, Statuses, RecordsOn, OfOperation
<1>5. ASSUME NEW r, RecordsOn(o, r), NEW ops, OpsTyped(ops)
      PROVE  OpsTyped([ops EXCEPT ![o] = Updated(@, r)])
  BY <1>4, <1>5 DEF OpsTyped, RecordsOn
<1>10. \A r : RecordsOn(o, r) => loadable'.ops = [loadable.ops EXCEPT ![o] = Updated(@, r)]
  BY DEF RecordsOn
<1>6. OpsTyped(loadable'.ops)
  <2>1. CASE loadable'.ops = loadable.ops
    BY <1>1, <2>1
  <2>2. ASSUME NEW r, RecordsOn(o, r) PROVE OpsTyped(loadable'.ops)
    <3>1. OpsTyped([loadable.ops EXCEPT ![o] = Updated(@, r)])
      BY <1>1, <1>5, <2>2
    <3> QED
      BY <1>10, <2>2, <3>1
  <2> QED
    BY <2>1, <2>2 DEF Records
<1>7. OpsTyped(journal')
  BY <1>1, <1>5 DEF Knows
<1>11. ASSUME \A p \in Journaled : loadable'.ops[p].status # "completed" => loadable'.ops[p].result = Nothing,
             \A p \in Adapters : loadable'.ops[p].status = "completed" => loadable'.ops[p].result \in Messages,
             \A p \in Dos : ResultIn(p, loadable'.ops[p], Mem[p] \in files, Loaded(Mem[p]))
       PROVE Results'
  <2>1. \A p \in Dos : ResultIn(p, loadable'.ops[p], Mem[p] \in files', Loaded(Mem[p])')
    BY <1>2, <1>11
  <2> QED
    BY <1>11, <2>1 DEF Results
<1>8. ASSUME NEW r, RecordsOn(o, r)
      PROVE  Results'
  <2>1. /\ \A p \in Journaled \ {o} : loadable'.ops[p] = loadable.ops[p]
        /\ loadable'.ops[o] = Updated(loadable.ops[o], r) /\ o \in Journaled
        /\ DOMAIN loadable.ops[o] = {"status", "before", "result"}
        /\ loadable.ops[o].status # "completed"
    BY <1>8 DEF RecordsOn, ControlInv, JournalInv, JournalTyped, Follows, OfOperation
  <2>2. loadable.ops[o].result = Nothing
    BY <1>1, <2>1 DEF Results
  <2>3. CASE r.type = "completed"
    <3>1. loadable'.ops[o] = [loadable.ops[o] EXCEPT !.status = "completed", !.result = r.result]
      BY <2>1, <2>3 DEF Updated
    <3>2. loadable'.ops[o].status = "completed" /\ loadable'.ops[o].result = r.result
      BY <2>1, <3>1
    <3>3. o \in Dos => ResultIn(o, loadable'.ops[o], Mem[o] \in files, Loaded(Mem[o]))
      BY <1>3, <1>8, <2>3, <3>1
    <3>4. o \in Adapters => loadable'.ops[o].result \in Messages
      BY <1>3, <1>8, <2>3, <3>2
    <3>5. \A p \in Dos : ResultIn(p, loadable'.ops[p], Mem[p] \in files, Loaded(Mem[p]))
      BY <1>1, <2>1, <3>3, KindsOfOps DEF Results
    <3>6. \A p \in Adapters : loadable'.ops[p].status = "completed" => loadable'.ops[p].result \in Messages
      BY <1>1, <2>1, <3>4, KindsOfOps DEF Results
    <3>7. \A p \in Journaled : loadable'.ops[p].status # "completed" => loadable'.ops[p].result = Nothing
      BY <1>1, <2>1, <3>2 DEF Results
    <3> QED
      BY <1>11, <3>5, <3>6, <3>7
  <2>4. CASE r.type # "completed"
    <3>1. loadable'.ops[o].status # "completed" /\ loadable'.ops[o].result = Nothing
      BY <1>8, <2>1, <2>2, <2>4 DEF Updated, RecordsOn, OfOperation
    <3>2. \A p \in Dos : ResultIn(p, loadable'.ops[p], Mem[p] \in files, Loaded(Mem[p]))
      BY <1>1, <2>1, <3>1, KindsOfOps DEF Results, ResultIn
    <3>3. \A p \in Adapters : loadable'.ops[p].status = "completed" => loadable'.ops[p].result \in Messages
      BY <1>1, <2>1, <3>1, KindsOfOps DEF Results
    <3>4. \A p \in Journaled : loadable'.ops[p].status # "completed" => loadable'.ops[p].result = Nothing
      BY <1>1, <2>1, <3>1 DEF Results
    <3> QED
      BY <1>11, <3>2, <3>3, <3>4
  <2> QED
    BY <2>3, <2>4
<1>9. CASE loadable'.ops = loadable.ops
  <2>1. \A p \in Dos : ResultIn(p, loadable'.ops[p], Mem[p] \in files, Loaded(Mem[p]))
    BY <1>1, <1>9 DEF Results
  <2>2. \A p \in Journaled : loadable'.ops[p].status # "completed" => loadable'.ops[p].result = Nothing
    BY <1>1, <1>9 DEF Results
  <2>3. \A p \in Adapters : loadable'.ops[p].status = "completed" => loadable'.ops[p].result \in Messages
    BY <1>1, <1>9 DEF Results
  <2> QED
    BY <1>6, <1>7, <1>11, <2>1, <2>2, <2>3
<1> QED
  BY <1>6, <1>7, <1>8, <1>9 DEF Records

-----------------------------------------------------------------------------
\* Steps of the journal, and of one memory.

\* An executor that runs, and an answer that is to be saved, stay what they
\* are until their operation fails.
KeepsRunning == \A p \in Dos :
  at[p] \in {"running", "failed"} => at'[p] \in {"running", "failed"} /\ attempts'[p] = attempts[p]
KeepsAnswered == \A p \in Dos :
  at[p] \in {"answered", "failed"} => at'[p] \in {"answered", "failed"}

(* The journal or the place of an operation changes, and no text does.      *)
LEMMA StillData ==
  ASSUME ControlInv, DataInv, NEW o \in Ops, up, up' = up,
         UNCHANGED <<stored, mem, remembered>>, Records(o), Knows(o),
         NEW place \in Places, Goes(o, place), KeepsRunning, KeepsAnswered,
         o \in Written => PlaceIn(o, place, loadable'.ops[o].before, mem[Mem[o]], Mem[o] \in files,
                                  Loaded(Mem[o])),
         told' \subseteq Ops \X Messages
  PROVE  DataInv'
<1>1. UNCHANGED <<files, records, base, mem, remembered>>
  BY DEF stored
<1>2. \A m : Loaded(m)' = Loaded(m) /\ Inherited(m)' = Inherited(m)
  BY <1>1 DEF Loaded, Inherited
<1>3. Grows(loadable.ops, loadable'.ops)
  BY RecordsGrow DEF ControlInv
<1>4. OpsTyped(loadable'.ops) /\ OpsTyped(journal') /\ Results'
  BY RecordsData
<1>5. TextTyped' /\ Based'
  BY <1>1 DEF DataInv, TextTyped, Based
<1>6. Filed'
  <2> SUFFICES ASSUME NEW m \in Memories PROVE FileOK(m)'
    BY DEF Filed
  <2>1. FileOK(m)
    BY DEF DataInv, Filed
  <2>2. Ahead(m) => Ahead(m)'
    <3> SUFFICES ASSUME Ahead(m) PROVE Ahead(m)'
      OBVIOUS
    <3>1. PICK p \in Dos : /\ Mem[p] = m /\ at[p] \in {"running", "failed"}
                           /\ Loaded(m)[Len(mem[m]) + 1] = Output(p)
      BY DEF Ahead
    <3>2. at'[p] \in {"running", "failed"} /\ attempts'[p] = attempts[p]
      BY <3>1 DEF KeepsRunning
    <3>3. Output(p)' = Output(p)
      BY <3>2 DEF Output
    <3>4. Len(Loaded(m)') = Len(mem'[m]) + 1
      BY <1>1, <1>2 DEF Ahead
    <3>5. Loaded(m)'[Len(mem'[m]) + 1] = Output(p)'
      BY <1>1, <1>2, <3>1, <3>3
    <3> QED
      BY <3>1, <3>2, <3>4, <3>5 DEF Ahead
  <2> QED
    BY <1>1, <1>2, <2>1, <2>2 DEF FileOK
<1>7. Forked'
  BY <1>1 DEF DataInv, Forked, ForkOK
<1>8. Texts'
  <2> SUFFICES ASSUME NEW m \in Memories PROVE TextOK(m)'
    BY DEF Texts
  <2>1. TextOK(m)
    BY DEF DataInv, Texts
  <2>2. /\ AllFit(mem[m], m, Inherited(m), loadable'.ops)
        /\ m \in files => AllFit(Loaded(m), m, Inherited(m), loadable'.ops)
    BY <1>3, <2>1, FitGrown DEF TextOK
  <2> QED
    BY <1>1, <1>2, <2>2 DEF TextOK
<1>9. AnswersSaved'
  <2> SUFFICES ASSUME NEW m \in Memories PROVE SaveOK(m)'
    BY DEF AnswersSaved
  <2>1. SaveOK(m) /\ TextOK(m)
    BY DEF DataInv, AnswersSaved, Texts
  <2>2. \A i \in 1..Len(mem[m]) : mem[m][i].role = "assistant" => mem[m][i].op \in Dos
    BY <2>1, FitUnique DEF TextOK
  <2> QED
    BY <1>1, <1>2, <2>1, <2>2 DEF SaveOK, KeepsAnswered
<1>10. Placed'
  <2> SUFFICES ASSUME NEW p \in Written
               PROVE  PlaceIn(p, at'[p], loadable'.ops[p].before, mem[Mem[p]], Mem[p] \in files,
                              Loaded(Mem[p]))
    BY <1>1, <1>2 DEF Placed
  <2>1. at \in [Ops -> Places] /\ p \in Ops
    BY WrittenOps DEF ControlInv, JournalInv, JournalTyped
  <2>2. CASE p = o
    BY <2>1, <2>2 DEF Goes
  <2>3. CASE p # o
    <3>1. at'[p] = at[p]
      BY <2>1, <2>3 DEF Goes
    <3>2. loadable'.ops[p].before = loadable.ops[p].before
      BY <2>1, <2>3, WrittenOps DEF Records, RecordsOn, ControlInv, JournalInv, JournalTyped
    <3> QED
      BY <3>1, <3>2 DEF DataInv, Placed
  <2> QED
    BY <2>2, <2>3
<1> QED
  BY <1>4, <1>5, <1>6, <1>7, <1>8, <1>9, <1>10 DEF DataInv, OpsAreTyped

-----------------------------------------------------------------------------
\* An operation that is idle or has returned asks nothing of what is added.
LEMMA ReturnedStays ==
  ASSUME NEW p, NEW place \in {"idle", "returned"}, NEW b \in Nat, NEW text, NEW more,
         NEW filed, NEW loaded, PlaceIn(p, place, b, text, filed, loaded),
         Len(text) \in Nat, Len(more) \in Nat, Len(text) <= Len(more),
         \A i \in 1..Len(text) : more[i] = text[i]
  PROVE  PlaceIn(p, place, b, more, filed, loaded)
<1>1. CASE place = "idle"
  BY <1>1 DEF PlaceIn
<1>2. CASE place = "returned"
  <2>1. /\ b + 1 <= Len(text) /\ text[b + 1] = Input(p) /\ b + Leaves(p) <= Len(text)
        /\ Leaves(p) \in Nat
    BY <1>2 DEF PlaceIn, Leaves
  <2>2. b + 1 \in 1..Len(text) /\ b + 1 <= Len(more) /\ b + Leaves(p) <= Len(more)
    BY <2>1
  <2> QED
    BY <1>2, <2>1, <2>2 DEF PlaceIn
<1> QED
  BY <1>1, <1>2

(* An operation adds a message to its memory.                               *)
LEMMA AddsData ==
  ASSUME ControlInv, DataInv, NEW o \in Written, NEW x \in Messages, up, InFlight(o),
         mem' = [mem EXCEPT ![Mem[o]] = Append(@, x)],
         UNCHANGED <<stored, recovery, remembered, up, told, attempts>>,
         NEW place \in Places, Goes(o, place),
         at[o] = "running" => x = Output(o), at[o] # "answered",
         Fits(Append(mem[Mem[o]], x), Len(mem[Mem[o]]) + 1, Mem[o], Inherited(Mem[o]), loadable.ops),
         x.role = "assistant" => Mem[o] \in files /\ x.op = o /\ place = "answered",
         PlaceIn(o, place, loadable.ops[o].before, Append(mem[Mem[o]], x), Mem[o] \in files,
                 Loaded(Mem[o]))
  PROVE  DataInv'
<1> DEFINE m == Mem[o]
           text == Append(mem[m], x)
<1>1. UNCHANGED <<files, records, base, loadable, journal>>
  BY DEF stored, recovery
<1>2. \A n : Loaded(n)' = Loaded(n) /\ Inherited(n)' = Inherited(n)
  BY <1>1 DEF Loaded, Inherited
<1>3. m \in Memories /\ o \in Ops /\ o \notin Adapters /\ o \in Ops \ Adapters
  BY WrittenOps
<1>4. mem[m] \in Seq(Messages) /\ Len(mem[m]) \in Nat /\ OpsTyped(loadable.ops)
  BY <1>3, TextKnown DEF DataInv, OpsAreTyped
<1>5. /\ text \in Seq(Messages) /\ Len(text) = Len(mem[m]) + 1
      /\ \A i \in 1..Len(mem[m]) : text[i] = mem[m][i]
      /\ text[Len(mem[m]) + 1] = x
  BY <1>4, Appended
<1>6. mem' \in [Memories -> Seq(Messages)] /\ mem'[m] = text /\ \A n \in Memories \ {m} : mem'[n] = mem[n]
  BY <1>3, <1>5 DEF DataInv, TextTyped
<1> HIDE DEF text
<1>7. at \in [Ops -> Places] /\ \A p \in Ops : at'[p] = IF p = o THEN place ELSE at[p]
  BY <1>3 DEF ControlInv, JournalInv, JournalTyped, Goes
<1>8. \A p \in Ops \ Adapters : p # o /\ Mem[p] = m => at[p] \in {"idle", "returned"}
  BY <1>3 DEF ControlInv, Exclusive
<1>9. TextTyped' /\ Based'
  BY <1>1, <1>6 DEF DataInv, TextTyped, Based
<1>10. Filed'
  <2> SUFFICES ASSUME NEW n \in Memories PROVE FileOK(n)'
    BY DEF Filed
  <2>1. FileOK(n)
    BY DEF DataInv, Filed
  <2>2. CASE n # m
    <3>1. Ahead(n) => Ahead(n)'
      <4> SUFFICES ASSUME Ahead(n) PROVE Ahead(n)'
        OBVIOUS
      <4>1. PICK p \in Dos : /\ Mem[p] = n /\ at[p] \in {"running", "failed"}
                             /\ Loaded(n)[Len(mem[n]) + 1] = Output(p)
        BY DEF Ahead
      <4>2. at'[p] = at[p] /\ Output(p)' = Output(p)
        BY <1>7, <2>2, <4>1, KindsOfOps DEF Output
      <4> QED
        BY <1>2, <1>6, <2>2, <4>1, <4>2 DEF Ahead
    <3> QED
      BY <1>1, <1>2, <1>6, <2>1, <2>2, <3>1 DEF FileOK
  <2>3. CASE n = m
    <3>1. m \in files => Len(Loaded(m)) \in Nat /\ Loaded(m) \in Seq(Messages)
      BY <1>3, TextKnown DEF DataInv
    <3>2. m \in files /\ Ahead(m) => Len(Loaded(m)) = Len(mem[m]) + 1 /\ Loaded(m)[Len(mem[m]) + 1] = x
      <4> SUFFICES ASSUME m \in files, Ahead(m) PROVE Loaded(m)[Len(mem[m]) + 1] = x
        BY DEF Ahead
      <4>1. PICK p \in Dos : /\ Mem[p] = m /\ at[p] \in {"running", "failed"}
                             /\ Loaded(m)[Len(mem[m]) + 1] = Output(p)
        BY DEF Ahead
      <4>2. p = o
        BY <1>8, <4>1, WrittenOps
      <4> QED
        BY <4>1, <4>2 DEF InFlight
    <3>3. m \in files => Agree(Loaded(m), text) /\ Len(Loaded(m)) <= Len(text)
      <4> SUFFICES ASSUME m \in files PROVE Agree(Loaded(m), text) /\ Len(Loaded(m)) <= Len(text)
        OBVIOUS
      <4>1. Agree(Loaded(m), mem[m]) /\ (Len(Loaded(m)) <= Len(mem[m]) \/ Ahead(m))
        BY <2>1, <2>3 DEF FileOK
      <4>2. Len(Loaded(m)) <= Len(text)
        BY <1>4, <1>5, <3>1, <3>2, <4>1
      <4>3. ASSUME NEW i \in 1..Len(Loaded(m)), i <= Len(text) PROVE text[i] = Loaded(m)[i]
        <5>1. CASE i <= Len(mem[m])
          BY <1>4, <1>5, <4>1, <5>1 DEF Agree
        <5>2. CASE ~(i <= Len(mem[m]))
          <6>1. i = Len(mem[m]) + 1 /\ Ahead(m)
            BY <1>4, <1>5, <3>1, <4>1, <4>3, <5>2
          <6> QED
            BY <1>5, <3>2, <6>1
        <5> QED
          BY <5>1, <5>2
      <4> QED
        BY <4>2, <4>3 DEF Agree
    <3> QED
      BY <1>1, <1>2, <1>6, <2>1, <2>3, <3>3 DEF FileOK
  <2> QED
    BY <2>2, <2>3
<1>11. Forked'
  <2> SUFFICES ASSUME NEW n \in Derived PROVE ForkOK(n)'
    BY DEF Forked
  <2>1. ForkOK(n)
    BY DEF DataInv, Forked
  <2>2. n \in Memories /\ Source(n) \in Memories /\ base[n] \in Nat
    BY SourceOf DEF DataInv, TextTyped
  <2>3. \A k \in Memories : /\ Len(mem[k]) \in Nat /\ Len(mem[k]) <= Len(mem'[k])
                            /\ \A i \in 1..Len(mem[k]) : mem'[k][i] = mem[k][i]
                            /\ Len(mem'[k]) \in Nat
    <3> SUFFICES ASSUME NEW k \in Memories
                 PROVE  /\ Len(mem[k]) \in Nat /\ Len(mem[k]) <= Len(mem'[k])
                        /\ \A i \in 1..Len(mem[k]) : mem'[k][i] = mem[k][i]
                        /\ Len(mem'[k]) \in Nat
      OBVIOUS
    <3>1. Len(mem[k]) \in Nat
      BY TextKnown DEF DataInv
    <3> QED
      BY <1>4, <1>5, <1>6, <3>1
  <2>4. /\ base[n] <= Len(mem[n]) /\ base[n] <= Len(mem[Source(n)])
        /\ \A i \in 1..base[n] : mem[n][i] = mem[Source(n)][i]
    BY <2>1 DEF ForkOK
  <2>5. base[n] <= Len(mem'[n]) /\ base[n] <= Len(mem'[Source(n)])
    BY <2>2, <2>3, <2>4
  <2>6. ASSUME NEW i \in 1..base[n] PROVE mem'[n][i] = mem'[Source(n)][i]
    <3>1. i \in 1..Len(mem[n]) /\ i \in 1..Len(mem[Source(n)])
      BY <2>2, <2>3, <2>4
    <3> QED
      BY <2>2, <2>3, <2>4, <3>1
  <2> QED
    BY <1>1, <2>5, <2>6 DEF ForkOK
<1>12. Texts'
  <2> SUFFICES ASSUME NEW n \in Memories PROVE TextOK(n)'
    BY DEF Texts
  <2>1. TextOK(n)
    BY DEF DataInv, Texts
  <2>2. AllFit(mem'[n], n, Inherited(n), loadable.ops)
    <3>1. CASE n # m
      BY <1>6, <2>1, <3>1 DEF TextOK
    <3>2. CASE n = m
      BY <1>4, <1>6, <2>1, <3>2, FitAppend DEF TextOK, text
    <3> QED
      BY <3>1, <3>2
  <2> QED
    BY <1>1, <1>2, <2>1, <2>2 DEF TextOK
<1>13. AnswersSaved'
  <2> SUFFICES ASSUME NEW n \in Memories PROVE SaveOK(n)'
    BY DEF AnswersSaved
  <2>1. SaveOK(n) /\ TextOK(n)
    BY DEF DataInv, AnswersSaved, Texts
  <2>2. \A i \in 1..Len(mem[n]) : mem[n][i].role = "assistant" =>
           mem[n][i].op \in Ops /\ (at[mem[n][i].op] \in {"answered", "failed"} => mem[n][i].op # o)
    <3>1. \A i \in 1..Len(mem[n]) : mem[n][i].role = "assistant" => mem[n][i].op \in Dos
      BY <2>1, FitUnique DEF TextOK
    <3> QED
      BY <3>1, KindsOfOps DEF InFlight
  <2>3. CASE n # m
    BY <1>1, <1>2, <1>6, <1>7, <2>1, <2>2, <2>3 DEF SaveOK
  <2>4. CASE n = m
    <3> SUFFICES ASSUME NEW i \in 1..Len(text), text[i].role = "assistant", i > Inherited(m)
                 PROVE  /\ m \in files
                        /\ i <= Len(Loaded(m)) \/ at'[text[i].op] \in {"answered", "failed"}
      BY <1>1, <1>2, <1>6, <2>4 DEF SaveOK
    <3>1. CASE i <= Len(mem[m])
      <4>1. i \in 1..Len(mem[m]) /\ text[i] = mem[m][i]
        BY <1>4, <1>5, <3>1
      <4> QED
        BY <1>7, <2>1, <2>2, <2>4, <4>1 DEF SaveOK
    <3>2. CASE i = Len(mem[m]) + 1
      BY <1>3, <1>5, <1>7, <3>2
    <3> QED
      BY <1>4, <1>5, <3>1, <3>2
  <2> QED
    BY <2>3, <2>4
<1>14. Placed'
  <2> SUFFICES ASSUME NEW p \in Written
               PROVE  PlaceIn(p, at'[p], loadable.ops[p].before, mem'[Mem[p]], Mem[p] \in files,
                              Loaded(Mem[p]))
    BY <1>1, <1>2 DEF Placed
  <2>1. p \in Ops /\ p \in Ops \ Adapters /\ Mem[p] \in Memories
    BY WrittenOps
  <2>2. PlaceIn(p, at[p], loadable.ops[p].before, mem[Mem[p]], Mem[p] \in files, Loaded(Mem[p]))
    BY DEF DataInv, Placed
  <2>3. CASE p = o
    BY <1>3, <1>6, <1>7, <2>3 DEF text
  <2>4. CASE p # o /\ Mem[p] # m
    BY <1>6, <1>7, <2>1, <2>2, <2>4
  <2>5. CASE p # o /\ Mem[p] = m
    <3>1. at'[p] = at[p] /\ at[p] \in {"idle", "returned"} /\ mem'[Mem[p]] = text
      BY <1>6, <1>7, <1>8, <2>1, <2>5
    <3>2. loadable.ops[p].before \in Nat
      BY <1>4, WrittenOps DEF OpsTyped, Operation
    <3> QED
      <4> DEFINE b == loadable.ops[p].before
      <4>1. PlaceIn(p, at[p], b, mem[m], m \in files, Loaded(m))
        BY <2>2, <2>5
      <4>2. /\ Len(mem[m]) \in Nat /\ Len(text) \in Nat /\ Len(mem[m]) <= Len(text)
            /\ \A i \in 1..Len(mem[m]) : text[i] = mem[m][i]
        BY <1>4, <1>5
      <4> HIDE DEF b, text, m
      <4>3. PlaceIn(p, at[p], b, text, m \in files, Loaded(m))
        BY <3>1, <3>2, <4>1, <4>2, ReturnedStays DEF b
      <4> QED
        BY <2>5, <3>1, <4>3 DEF b
  <2> QED
    BY <2>3, <2>4, <2>5
<1>15. Results' /\ OpsAreTyped'
  <2>1. Results /\ OpsAreTyped
    BY DEF DataInv
  <2>2. \A p \in Dos : ResultIn(p, loadable'.ops[p], Mem[p] \in files', Loaded(Mem[p])')
    BY <1>1, <1>2, <2>1 DEF Results
  <2> QED
    BY <1>1, <2>1, <2>2 DEF Results, OpsAreTyped
<1> QED
  BY <1>9, <1>10, <1>11, <1>12, <1>13, <1>14, <1>15 DEF DataInv

-----------------------------------------------------------------------------
\* Steps that write to a file.

(* An operation writes to the file of a memory, its own or the source of    *)
(* the copy it works on.                                                    *)
LEMMA FilesData ==
  ASSUME ControlInv, DataInv, NEW o \in Written, NEW m \in Memories, up, up' = up,
         UNCHANGED <<mem, base, recovery, told>>,
         TextTyped', Based', m \in files', files' = files \cup {m},
         m \in files => Begins(Loaded(m), Loaded(m)'),
         \A n \in Memories \ {m} : records'[n] = records[n] /\ (n \in files => Loaded(n)' = Loaded(n)),
         AllFit(Loaded(m)', m, Inherited(m), loadable.ops),
         Agree(Loaded(m)', mem[m]), Len(Loaded(m)') <= Len(mem[m]) \/ Ahead(m)',
         \A n \in Memories \ {m} : remembered'[n] = remembered[n],
         \A r \in remembered'[m] : r <= Len(Loaded(m)'),
         NEW place \in Places, Goes(o, place), KeepsRunning,
         \A p \in Dos : at[p] \in {"answered", "failed"} =>
           at'[p] \in {"answered", "failed"} \/ (Mem[p] = m /\ Len(mem[m]) <= Len(Loaded(m)')),
         PlaceIn(o, place, loadable.ops[o].before, mem[Mem[o]], Mem[o] \in files', Loaded(Mem[o])')
  PROVE  DataInv'
<1>1. UNCHANGED <<loadable, journal>>
  BY DEF recovery
<1>2. \A n : Inherited(n)' = Inherited(n)
  BY DEF Inherited
<1>3. o \in Ops /\ o \in Ops \ Adapters /\ OpsTyped(loadable.ops)
  BY WrittenOps DEF DataInv, OpsAreTyped
<1>4. \A p \in Ops : at'[p] = IF p = o THEN place ELSE at[p]
  BY <1>3 DEF ControlInv, JournalInv, JournalTyped, Goes
<1>5. \A n \in Memories :
        n \in files => /\ n \in files' /\ Len(Loaded(n)) \in Nat /\ Len(Loaded(n)') \in Nat
                       /\ Len(Loaded(n)) <= Len(Loaded(n)')
                       /\ \A i \in 1..Len(Loaded(n)) : Loaded(n)'[i] = Loaded(n)[i]
  <2> SUFFICES ASSUME NEW n \in Memories, n \in files
               PROVE  /\ n \in files' /\ Len(Loaded(n)) \in Nat /\ Len(Loaded(n)') \in Nat
                      /\ Len(Loaded(n)) <= Len(Loaded(n)')
                      /\ \A i \in 1..Len(Loaded(n)) : Loaded(n)'[i] = Loaded(n)[i]
    OBVIOUS
  <2>1. n \in files' /\ Len(Loaded(n)) \in Nat
    BY TextKnown DEF DataInv
  <2>2. Loaded(n)' \in Seq(Messages)
    BY <2>1, NextShape DEF LoadedShape
  <2>3. Len(Loaded(n)') \in Nat
    BY <2>2, LenProperties
  <2> QED
    BY <2>1, <2>3 DEF Begins
<1>6. Filed'
  <2> SUFFICES ASSUME NEW n \in Memories PROVE FileOK(n)'
    BY DEF Filed
  <2>1. FileOK(n)
    BY DEF DataInv, Filed
  <2>2. CASE n # m
    <3>1. n \in files /\ Ahead(n) => Ahead(n)'
      <4> SUFFICES ASSUME n \in files, Ahead(n) PROVE Ahead(n)'
        OBVIOUS
      <4>1. PICK p \in Dos : /\ Mem[p] = n /\ at[p] \in {"running", "failed"}
                             /\ Loaded(n)[Len(mem[n]) + 1] = Output(p)
        BY DEF Ahead
      <4>2. at'[p] \in {"running", "failed"} /\ Output(p)' = Output(p) /\ Loaded(n)' = Loaded(n)
        BY <2>2, <4>1 DEF Output, KeepsRunning
      <4> QED
        BY <4>1, <4>2 DEF Ahead
    <3>2. n \in files' <=> n \in files
      BY <2>2
    <3>3. n \notin files => records'[n] = <<>> /\ remembered'[n] = {}
      BY <2>1, <2>2 DEF FileOK
    <3>4. n \in files => \A r \in remembered'[n] : r <= Len(Loaded(n)')
      BY <2>1, <2>2 DEF FileOK
    <3>5. n \in files => Agree(Loaded(n)', mem'[n]) /\ (Len(Loaded(n)') <= Len(mem'[n]) \/ Ahead(n)')
      BY <2>1, <2>2, <3>1 DEF FileOK
    <3> QED
      BY <3>2, <3>3, <3>4, <3>5 DEF FileOK
  <2>3. CASE n = m
    BY <2>3 DEF FileOK
  <2> QED
    BY <2>2, <2>3
<1>7. Forked'
  <2> SUFFICES ASSUME NEW n \in Derived PROVE ForkOK(n)'
    BY DEF Forked
  <2>1. ForkOK(n)
    BY DEF DataInv, Forked
  <2> QED
    BY <2>1 DEF ForkOK
<1>8. Texts'
  <2> SUFFICES ASSUME NEW n \in Memories PROVE TextOK(n)'
    BY DEF Texts
  <2>1. TextOK(n)
    BY DEF DataInv, Texts
  <2>2. n \in files' => AllFit(Loaded(n)', n, Inherited(n), loadable.ops)
    BY <2>1 DEF TextOK
  <2> QED
    BY <1>1, <1>2, <2>1, <2>2 DEF TextOK
<1>9. AnswersSaved'
  <2> SUFFICES ASSUME NEW n \in Memories, NEW i \in 1..Len(mem[n]), mem[n][i].role = "assistant",
                      i > Inherited(n)
               PROVE  /\ n \in files'
                      /\ i <= Len(Loaded(n)') \/ at'[mem[n][i].op] \in {"answered", "failed"}
    BY <1>2 DEF AnswersSaved, SaveOK
  <2>1. SaveOK(n) /\ TextOK(n)
    BY DEF DataInv, AnswersSaved, Texts
  <2>2. mem[n] \in Seq(Messages) /\ Len(mem[n]) \in Nat /\ Len(mem[m]) \in Nat
    BY TextKnown DEF DataInv
  <2>3. n \in files /\ (i <= Len(Loaded(n)) \/ at[mem[n][i].op] \in {"answered", "failed"})
    BY <2>1 DEF SaveOK
  <2>4. CASE i <= Len(Loaded(n))
    BY <1>5, <2>2, <2>3, <2>4
  <2>5. CASE at[mem[n][i].op] \in {"answered", "failed"}
    <3>1. mem[n][i].op \in Dos
      BY <2>1, FitUnique DEF TextOK
    <3>2. Mem[mem[n][i].op] = n
      <4>1. Fits(mem[n], i, n, Inherited(n), loadable.ops)
        BY <2>1 DEF TextOK, AllFit
      <4>2. ~(i <= Inherited(n))
        BY <2>2, TextKnown DEF DataInv
      <4> QED
        BY <4>1, <4>2 DEF Fits
    <3>3. CASE at'[mem[n][i].op] \in {"answered", "failed"}
      BY <2>3, <3>3
    <3>4. CASE n = m /\ Len(mem[m]) <= Len(Loaded(m)')
      <4>1. Len(Loaded(m)') \in Nat
        BY <1>5, <2>3, <3>4
      <4> QED
        BY <2>2, <3>4, <4>1
    <3> QED
      BY <2>5, <3>1, <3>2, <3>3, <3>4
  <2> QED
    BY <2>3, <2>4, <2>5
<1>10. Placed'
  <2> SUFFICES ASSUME NEW p \in Written
               PROVE  PlaceIn(p, at'[p], loadable.ops[p].before, mem[Mem[p]], Mem[p] \in files',
                              Loaded(Mem[p])')
    BY <1>1 DEF Placed
  <2>1. CASE p = o
    BY <1>3, <1>4, <2>1
  <2>2. CASE p # o
    <3>1. p \in Ops /\ Mem[p] \in Memories /\ at'[p] = at[p] /\ loadable.ops[p].before \in Nat
      BY <1>3, <1>4, <2>2, WrittenOps DEF OpsTyped, Operation
    <3>2. PlaceIn(p, at[p], loadable.ops[p].before, mem[Mem[p]], Mem[p] \in files, Loaded(Mem[p]))
      BY DEF DataInv, Placed
    <3> QED
      BY <1>5, <3>1, <3>2, PlaceGrows
  <2> QED
    BY <2>1, <2>2
<1>11. Results' /\ OpsAreTyped'
  <2>1. Results /\ OpsAreTyped
    BY DEF DataInv
  <2>2. ASSUME NEW p \in Dos
        PROVE  ResultIn(p, loadable'.ops[p], Mem[p] \in files', Loaded(Mem[p])')
    <3>1. Mem[p] \in Memories /\ loadable.ops[p].before \in Nat
      BY <1>3, WrittenOps DEF OpsTyped, Operation
    <3>2. ResultIn(p, loadable.ops[p], Mem[p] \in files, Loaded(Mem[p]))
      BY <2>1 DEF Results
    <3>3. Mem[p] \in files =>
            /\ Mem[p] \in files' /\ Len(Loaded(Mem[p])) \in Nat /\ Len(Loaded(Mem[p])') \in Nat
            /\ Begins(Loaded(Mem[p]), Loaded(Mem[p])')
      BY <1>5, <3>1 DEF Begins
    <3> QED
      BY <1>1, <3>1, <3>2, <3>3, ResultGrows
  <2> QED
    BY <1>1, <2>1, <2>2 DEF Results, OpsAreTyped
<1> QED
  BY <1>6, <1>7, <1>8, <1>9, <1>10, <1>11 DEF DataInv

-----------------------------------------------------------------------------
\* Copies, and the ends of processes.

(* memory.copy takes what the source holds, if it has not done so before.   *)
LEMMA CopyData ==
  ASSUME ControlInv, DataInv, NEW c \in Ops, Copy(c)
  PROVE  DataInv'
<1> DEFINE m == Dest[c]
           s == Mem[c]
<1>1. /\ Launch(c) /\ c \in Copies /\ Goes(c, "returned") /\ up /\ at[c] = "idle"
      /\ claim(m, mem[s], Revision(c))
      /\ UNCHANGED <<files, records, recovery, up, remembered, failing, stops, attempts, told>>
  BY DEF Copy, Launch
<1>2. /\ c \notin Journaled /\ c \notin Dos /\ c \notin Written /\ c \notin Adapters
      /\ m \in Derived /\ m \in Memories /\ s \in Memories /\ s \notin Derived /\ s # m /\ Source(m) = s
  BY <1>1, KindsOfOps, SourceOf DEF Written
<1>3. /\ at \in [Ops -> Places] /\ \A p \in Ops : at'[p] = IF p = c THEN "returned" ELSE at[p]
  BY <1>1 DEF ControlInv, JournalInv, JournalTyped, Goes
<1>4. \A p \in Dos : at'[p] = at[p]
  BY <1>2, <1>3, KindsOfOps
<1>5. CASE m \in files
  <2>1. UNCHANGED <<stored, mem, remembered>>
    BY <1>1, <1>5 DEF claim, stored
  <2>2. Records(c) /\ Knows(c)
    BY <1>1 DEF Records, Knows, recovery
  <2>3. KeepsRunning /\ KeepsAnswered /\ "returned" \in Places /\ told' \subseteq Ops \X Messages
    BY <1>1, <1>4 DEF KeepsRunning, KeepsAnswered, Places, DataInv, OpsAreTyped
  <2> QED
    BY <1>1, <1>2, <2>1, <2>2, <2>3, StillData
<1>6. CASE m \notin files
  <2>1. /\ mem' = [mem EXCEPT ![m] = mem[s]] /\ base' = [base EXCEPT ![m] = Len(mem[s])]
    BY <1>1, <1>6 DEF claim, Revision
  <2>2. UNCHANGED <<files, records, loadable, journal, remembered, up, told, attempts>>
    BY <1>1 DEF recovery
  <2>3. mem[s] \in Seq(Messages) /\ Len(mem[s]) \in Nat /\ TextTyped /\ Based /\ OpsTyped(loadable.ops)
    BY <1>2, TextKnown DEF DataInv, OpsAreTyped
  <2>4. /\ mem' \in [Memories -> Seq(Messages)] /\ mem'[m] = mem[s]
        /\ \A n \in Memories \ {m} : mem'[n] = mem[n]
    BY <1>2, <2>1, <2>3 DEF TextTyped
  <2>5. /\ base' \in [Derived -> Nat] /\ base'[m] = Len(mem[s])
        /\ \A n \in Derived \ {m} : base'[n] = base[n]
    BY <1>2, <2>1, <2>3 DEF TextTyped
  <2>6. \A n \in Memories : Loaded(n)' = Loaded(n)
    BY <1>6, <2>2, <2>5 DEF Loaded
  <2>7. Inherited(m)' = Len(mem[s]) /\ \A n \in Memories \ {m} : Inherited(n)' = Inherited(n)
    BY <1>2, <2>5 DEF Inherited
  <2>8. TextTyped' /\ Based'
    BY <1>6, <2>2, <2>3, <2>4, <2>5 DEF TextTyped, Based
  <2>9. Filed'
    <3> SUFFICES ASSUME NEW n \in Memories PROVE FileOK(n)'
      BY DEF Filed
    <3>1. FileOK(n)
      BY DEF DataInv, Filed
    <3>2. n # m /\ Ahead(n) => Ahead(n)'
      <4> SUFFICES ASSUME n # m, Ahead(n) PROVE Ahead(n)'
        OBVIOUS
      <4>1. PICK p \in Dos : /\ Mem[p] = n /\ at[p] \in {"running", "failed"}
                             /\ Loaded(n)[Len(mem[n]) + 1] = Output(p)
        BY DEF Ahead
      <4>2. at'[p] = at[p] /\ Output(p)' = Output(p)
        BY <1>4, <2>2 DEF Output
      <4> QED
        BY <2>4, <2>6, <4>1, <4>2 DEF Ahead
    <3> QED
      BY <1>6, <2>2, <2>4, <2>6, <3>1, <3>2 DEF FileOK
  <2>10. Forked'
    <3> SUFFICES ASSUME NEW n \in Derived PROVE ForkOK(n)'
      BY DEF Forked
    <3>1. ForkOK(n)
      BY DEF DataInv, Forked
    <3>2. n \in Memories /\ Source(n) \in Memories /\ Source(n) # m
      BY <1>2, SourceOf
    <3>3. CASE n = m
      <4>1. mem'[m] = mem[s] /\ mem'[Source(m)] = mem[s] /\ base'[m] = Len(mem[s])
        BY <1>2, <2>4, <2>5
      <4> QED
        BY <1>1, <2>3, <3>3, <4>1 DEF ForkOK
    <3>4. CASE n # m
      BY <1>1, <2>4, <2>5, <3>1, <3>2, <3>4 DEF ForkOK
    <3> QED
      BY <3>3, <3>4
  <2>11. Texts'
    <3> SUFFICES ASSUME NEW n \in Memories PROVE TextOK(n)'
      BY DEF Texts
    <3>1. TextOK(n) /\ TextOK(s)
      BY <1>2 DEF DataInv, Texts
    <3>2. CASE n = m
      <4>1. AllFit(mem[s], Source(m), 0, loadable.ops)
        BY <1>2, <3>1 DEF TextOK, Inherited
      <4>2. AllFit(mem[s], m, Len(mem[s]), loadable.ops)
        BY <2>3, <4>1, FitCopy
      <4> QED
        BY <1>6, <2>2, <2>4, <2>7, <3>2, <4>2 DEF TextOK
    <3>3. CASE n # m
      BY <2>2, <2>4, <2>6, <2>7, <3>1, <3>3 DEF TextOK
    <3> QED
      BY <3>2, <3>3
  <2>12. AnswersSaved'
    <3> SUFFICES ASSUME NEW n \in Memories PROVE SaveOK(n)'
      BY DEF AnswersSaved
    <3>1. SaveOK(n) /\ TextOK(n)
      BY DEF DataInv, AnswersSaved, Texts
    <3>2. CASE n = m
      BY <2>3, <2>4, <2>7, <3>2 DEF SaveOK
    <3>3. CASE n # m
      <4>1. \A i \in 1..Len(mem[n]) : mem[n][i].role = "assistant" => mem[n][i].op \in Dos
        BY <3>1, FitUnique DEF TextOK
      <4> QED
        BY <1>4, <2>2, <2>4, <2>6, <2>7, <3>1, <3>3, <4>1 DEF SaveOK
    <3> QED
      BY <3>2, <3>3
  <2>13. Placed'
    <3> SUFFICES ASSUME NEW p \in Written
                 PROVE  PlaceIn(p, at'[p], loadable.ops[p].before, mem'[Mem[p]], Mem[p] \in files,
                                Loaded(Mem[p]))
      BY <2>2, <2>6, WrittenOps DEF Placed
    <3>1. p \in Ops /\ p \in Ops \ Adapters /\ Mem[p] \in Memories /\ at'[p] = at[p]
      BY <1>2, <1>3, WrittenOps
    <3>2. CASE Mem[p] = m
      <4>1. c \in After[p]
        BY <1>1, <3>1, <3>2, NameAssumption
      <4>2. at[p] = "idle"
        BY <1>1, <3>1, <4>1 DEF ControlInv, Exclusive
      <4> QED
        BY <3>1, <4>2 DEF PlaceIn
    <3>3. CASE Mem[p] # m
      BY <2>4, <3>1, <3>3 DEF DataInv, Placed
    <3> QED
      BY <3>2, <3>3
  <2>14. Results' /\ OpsAreTyped'
    <3>1. Results /\ OpsAreTyped
      BY DEF DataInv
    <3>2. \A p \in Dos : ResultIn(p, loadable'.ops[p], Mem[p] \in files', Loaded(Mem[p])')
      BY <2>2, <2>6, <3>1, WrittenOps DEF Results
    <3> QED
      BY <2>2, <3>1, <3>2 DEF Results, OpsAreTyped
  <2> QED
    BY <2>8, <2>9, <2>10, <2>11, <2>12, <2>13, <2>14 DEF DataInv
<1> QED
  BY <1>5, <1>6

-----------------------------------------------------------------------------
(* The process is gone; the files are what they were.                       *)
LEMMA DownData ==
  ASSUME DataInv, Down, loadable'.ops = loadable.ops
  PROVE  DataInv'
<1>1. /\ up' = FALSE /\ at' = [o \in Ops |-> "idle"] /\ mem' = [m \in Memories |-> <<>>]
      /\ base' = [m \in Derived |-> IF m \in files THEN base[m] ELSE 0]
      /\ remembered' = [m \in Memories |-> {}] /\ journal' = loadable.ops
      /\ UNCHANGED <<files, records, told>>
  BY DEF Down
<1>2. TextTyped /\ Based /\ OpsAreTyped
  BY DEF DataInv
<1>3. /\ \A m \in Memories : mem'[m] = <<>> /\ Len(mem'[m]) = 0
      /\ \A m \in Derived : base'[m] = IF m \in files THEN base[m] ELSE 0
  BY <1>1
<1>4. \A m \in Memories : Loaded(m)' = Loaded(m)
  BY <1>1, <1>3 DEF Loaded
<1>5. \A m \in files : Inherited(m)' = Inherited(m)
  BY <1>3 DEF Inherited
<1>6. TextTyped'
  BY <1>1, <1>2 DEF TextTyped
<1>7. Based'
  BY <1>1, <1>2, <1>3 DEF Based
<1>8. Filed'
  BY <1>1, <1>4 DEF DataInv, Filed, FileOK
<1>9. Forked'
  BY <1>1, <1>3 DEF Forked, ForkOK
<1>10. Texts'
  <2> SUFFICES ASSUME NEW m \in Memories PROVE TextOK(m)'
    BY DEF Texts
  <2>1. TextOK(m)
    BY DEF DataInv, Texts
  <2>2. AllFit(mem'[m], m, Inherited(m)', loadable'.ops)
    BY <1>3 DEF AllFit
  <2>3. m \in files => AllFit(Loaded(m)', m, Inherited(m)', loadable'.ops)
    BY <1>4, <1>5, <2>1 DEF TextOK
  <2> QED
    BY <1>1, <2>2, <2>3 DEF TextOK
<1>11. AnswersSaved'
  BY <1>3 DEF AnswersSaved, SaveOK
<1>12. Placed'
  <2>1. \A o \in Written : at'[o] = "idle"
    BY <1>1, WrittenOps
  <2> QED
    BY <2>1 DEF Placed, PlaceIn
<1>13. Results' /\ OpsAreTyped'
  <2>1. Results
    BY DEF DataInv
  <2>2. \A p \in Dos : ResultIn(p, loadable'.ops[p], Mem[p] \in files', Loaded(Mem[p])')
    BY <1>1, <1>4, <2>1, WrittenOps DEF Results
  <2> QED
    BY <1>1, <1>2, <2>1, <2>2 DEF Results, OpsAreTyped
<1> QED
  BY <1>6, <1>7, <1>8, <1>9, <1>10, <1>11, <1>12, <1>13 DEF DataInv

(* A process resumes the run with what the files hold.                      *)
LEMMA ResumeData ==
  ASSUME ControlInv, DataInv, Resume
  PROVE  DataInv'
<1>1. /\ ~up /\ up' = TRUE /\ mem' = Restored /\ remembered' = Known
      /\ UNCHANGED <<files, records, base, journal, at, told>>
  BY DEF Resume, stored
<1>2. loadable'.ops = loadable.ops /\ \A o \in Ops : at'[o] = "idle"
  BY <1>1, ProcessRecords DEF ControlInv, JournalInv, KnownExact
<1>3. TextTyped /\ Based /\ OpsAreTyped /\ LoadedShape
  BY ShapeOfLoaded DEF DataInv
<1>4. \A m : Loaded(m)' = Loaded(m) /\ Inherited(m)' = Inherited(m)
  BY <1>1 DEF Loaded, Inherited
<1>5. /\ \A m \in Memories : mem'[m] = IF m \in files THEN Loaded(m) ELSE <<>>
      /\ \A m \in Memories : remembered'[m] = IF m \in files THEN Inherited(m)..Len(Loaded(m)) ELSE {}
  BY <1>1 DEF Restored, Known
<1>6. \A m \in files : Loaded(m) \in Seq(Messages) /\ Len(Loaded(m)) \in Nat /\ Inherited(m) \in Nat
  BY <1>3, TextKnown DEF TextTyped
<1>7. TextTyped'
  <2>1. mem' \in [Memories -> Seq(Messages)]
    BY <1>1, <1>6 DEF Restored
  <2>2. remembered' \in [Memories -> SUBSET Nat]
    <3>1. \A m \in Memories :
            (IF m \in files THEN Inherited(m)..Len(Loaded(m)) ELSE {}) \in SUBSET Nat
      BY <1>6
    <3> QED
      BY <1>1, <3>1 DEF Known
  <2> QED
    BY <1>1, <1>3, <2>1, <2>2 DEF TextTyped
<1>8. Based'
  BY <1>1, <1>3 DEF Based
<1>9. Filed'
  <2> SUFFICES ASSUME NEW m \in Memories PROVE FileOK(m)'
    BY DEF Filed
  <2>1. FileOK(m)
    BY DEF DataInv, Filed
  <2>2. m \notin files => records'[m] = <<>> /\ remembered'[m] = {}
    BY <1>1, <1>5, <2>1 DEF FileOK
  <2>3. m \in files => \A r \in remembered'[m] : r <= Len(Loaded(m)')
    BY <1>4, <1>5, <1>6
  <2>4. m \in files => Agree(Loaded(m)', mem'[m]) /\ Len(Loaded(m)') <= Len(mem'[m])
    BY <1>4, <1>5, <1>6 DEF Agree
  <2> QED
    BY <1>1, <2>2, <2>3, <2>4 DEF FileOK
<1>10. Forked'
  <2> SUFFICES ASSUME NEW m \in Derived PROVE ForkOK(m)'
    BY DEF Forked
  <2>1. ForkOK(m)
    BY DEF DataInv, Forked
  <2>2. m \in Memories /\ Source(m) \in Memories /\ Source(m) \notin Derived /\ base[m] \in Nat
    BY <1>3, SourceOf DEF TextTyped
  <2>3. CASE m \notin files
    <3>1. base[m] = 0 /\ mem'[m] = <<>> /\ Len(mem'[Source(m)]) \in Nat
      BY <1>1, <1>5, <1>6, <2>1, <2>2, <2>3 DEF ForkOK
    <3> QED
      BY <1>1, <3>1 DEF ForkOK
  <2>4. CASE m \in files
    <3>1. Source(m) \in files /\ base[m] <= Len(records[Source(m)])
      BY <1>3, <2>4 DEF Based
    <3>2. mem'[m] = Loaded(m) /\ mem'[Source(m)] = records[Source(m)]
      BY <1>3, <1>5, <2>2, <2>4, <3>1 DEF LoadedShape
    <3>3. Len(records[m]) \in Nat /\ Len(Loaded(m)) = base[m] + Len(records[m])
      BY <1>3, <2>2, <2>4, LenProperties DEF LoadedShape, TextTyped
    <3>4. \A i \in 1..base[m] : Loaded(m)[i] = records[Source(m)][i]
      BY <1>3, <2>2, <2>4, <3>3 DEF LoadedShape
    <3> QED
      BY <1>1, <2>2, <3>1, <3>2, <3>3, <3>4 DEF ForkOK
  <2> QED
    BY <2>3, <2>4
<1>11. Texts'
  <2> SUFFICES ASSUME NEW m \in Memories PROVE TextOK(m)'
    BY DEF Texts
  <2>1. TextOK(m)
    BY DEF DataInv, Texts
  <2>2. m \notin files => AllFit(mem'[m], m, Inherited(m), loadable.ops)
    BY <1>5 DEF AllFit
  <2>3. AllFit(mem'[m], m, Inherited(m), loadable.ops)
    BY <1>5, <2>1, <2>2 DEF TextOK
  <2> QED
    BY <1>1, <1>2, <1>4, <2>1, <2>3 DEF TextOK
<1>12. AnswersSaved'
  BY <1>1, <1>4, <1>5 DEF AnswersSaved, SaveOK
<1>13. Placed'
  <2>1. \A o \in Written : at'[o] = "idle"
    BY <1>2, WrittenOps
  <2> QED
    BY <2>1 DEF Placed, PlaceIn
<1>14. Results' /\ OpsAreTyped'
  <2>1. Results
    BY DEF DataInv
  <2>2. \A p \in Dos : ResultIn(p, loadable'.ops[p], Mem[p] \in files', Loaded(Mem[p])')
    BY <1>1, <1>2, <1>4, <2>1 DEF Results
  <2> QED
    BY <1>1, <1>2, <1>3, <2>1, <2>2 DEF Results, OpsAreTyped
<1> QED
  BY <1>7, <1>8, <1>9, <1>10, <1>11, <1>12, <1>13, <1>14 DEF DataInv

(* Nothing that the invariant is about changes.                             *)
LEMMA NothingData ==
  ASSUME DataInv, UNCHANGED <<stored, up, at, mem, remembered, attempts, told, journal>>,
         loadable'.ops = loadable.ops
  PROVE  DataInv'
<1>1. UNCHANGED <<files, records, base, up, at, mem, remembered, attempts, told, journal>>
  BY DEF stored
<1>2. \A m : Loaded(m)' = Loaded(m) /\ Inherited(m)' = Inherited(m)
  BY <1>1 DEF Loaded, Inherited
<1>3. TextTyped' /\ Based' /\ OpsAreTyped'
  BY <1>1 DEF DataInv, TextTyped, Based, OpsAreTyped
<1>4. Filed'
  <2>1. \A m : Ahead(m)' <=> Ahead(m)
    BY <1>1, <1>2 DEF Ahead, Output
  <2> QED
    BY <1>1, <1>2, <2>1 DEF DataInv, Filed, FileOK
<1>5. Forked'
  BY <1>1 DEF DataInv, Forked, ForkOK
<1>6. Texts'
  BY <1>1, <1>2 DEF DataInv, Texts, TextOK
<1>7. AnswersSaved'
  BY <1>1, <1>2 DEF DataInv, AnswersSaved, SaveOK
<1>8. Placed'
  <2>1. Placed
    BY DEF DataInv
  <2> QED
    BY <1>1, <1>2, <2>1 DEF Placed
<1>9. Results'
  <2>1. Results
    BY DEF DataInv
  <2>2. \A p \in Dos : ResultIn(p, loadable'.ops[p], Mem[p] \in files', Loaded(Mem[p])')
    BY <1>1, <1>2, <2>1 DEF Results
  <2> QED
    BY <1>1, <2>1, <2>2 DEF Results
<1> QED
  BY <1>3, <1>4, <1>5, <1>6, <1>7, <1>8, <1>9 DEF DataInv

-----------------------------------------------------------------------------
\* The steps of the operations.

(* An operation that is not with its executor disturbs no answer of         *)
(* another.                                                                 *)
LEMMA KeepsBoth ==
  ASSUME JournalInv, NEW o \in Ops, NEW place, Goes(o, place),
         o \in Dos /\ at[o] \in {"running", "answered", "failed"} => place = "failed",
         \A p \in Dos : attempts'[p] = attempts[p]
  PROVE  KeepsRunning /\ KeepsAnswered
<1>1. at \in [Ops -> Places] /\ Dos \subseteq Ops
  BY KindsOfOps DEF JournalInv, JournalTyped
<1>2. \A p \in Dos : at'[p] = IF p = o THEN place ELSE at[p]
  BY <1>1 DEF Goes
<1> QED
  BY <1>2 DEF KeepsRunning, KeepsAnswered

(* What an operation that writes to a memory and is at work knows.          *)
LEMMA AtWork ==
  ASSUME ControlInv, DataInv, NEW o \in Written, InFlight(o)
  PROVE  /\ up /\ o \in Journaled /\ o \in Ops /\ o \in Ops \ Adapters /\ Mem[o] \in Memories
         /\ loadable.ops[o] = journal[o] /\ loadable.ops[o].before \in Nat
         /\ Before(o) = loadable.ops[o].before /\ loadable.ops[o].status # "none"
         /\ PlaceIn(o, at[o], loadable.ops[o].before, mem[Mem[o]], Mem[o] \in files, Loaded(Mem[o]))
         /\ TextOK(Mem[o]) /\ FileOK(Mem[o]) /\ SaveOK(Mem[o]) /\ OpsTyped(loadable.ops)
         /\ Inherited(Mem[o]) <= Len(mem[Mem[o]])
         /\ \A p \in Written \ {o} : Mem[p] = Mem[o] => at[p] \in {"idle", "returned"}
<1>1. o \in Journaled /\ o \in Ops /\ o \in Ops \ Adapters /\ Mem[o] \in Memories
  BY WrittenOps
<1>2. at[o] \notin {"idle", "returned", "failed"}
  BY DEF InFlight
<1>3. up /\ loadable.ops[o] = journal[o] /\ loadable.ops[o].status # "none"
  BY <1>1, <1>2 DEF ControlInv, JournalInv, KnownExact, PlaceExact, PlaceOK
<1>4. OpsTyped(loadable.ops) /\ loadable.ops[o].before \in Nat
  BY <1>1 DEF DataInv, OpsAreTyped, OpsTyped, Operation
<1>5. /\ PlaceIn(o, at[o], loadable.ops[o].before, mem[Mem[o]], Mem[o] \in files, Loaded(Mem[o]))
      /\ TextOK(Mem[o]) /\ FileOK(Mem[o]) /\ SaveOK(Mem[o])
  BY <1>1 DEF DataInv, Placed, Texts, Filed, AnswersSaved
<1>6. Inherited(Mem[o]) <= Len(mem[Mem[o]])
  <2>1. Len(mem[Mem[o]]) \in Nat
    BY <1>1, TextKnown DEF DataInv
  <2> QED
    BY <1>3, <2>1 DEF Inherited, DataInv, Forked, ForkOK
<1>7. \A p \in Written \ {o} : Mem[p] = Mem[o] => at[p] \in {"idle", "returned"}
  BY <1>1, WrittenOps DEF ControlInv, Exclusive
<1> QED
  BY <1>1, <1>3, <1>4, <1>5, <1>6, <1>7 DEF Before

(* Nothing is journaled by an executor while an operation is elsewhere.     *)
LEMMA NotAhead ==
  ASSUME ControlInv, DataInv, NEW o \in Written, InFlight(o), at[o] # "running", Mem[o] \in files
  PROVE  Agree(Loaded(Mem[o]), mem[Mem[o]]) /\ Len(Loaded(Mem[o])) <= Len(mem[Mem[o]])
<1>1. up /\ FileOK(Mem[o]) /\ \A p \in Written \ {o} : Mem[p] = Mem[o] => at[p] \in {"idle", "returned"}
  BY AtWork
<1>2. ~Ahead(Mem[o])
  BY <1>1, WrittenOps DEF Ahead, InFlight
<1> QED
  BY <1>1, <1>2 DEF FileOK

(* An answer of o in its memory is none that a copy has inherited.          *)
LEMMA OwnMessage ==
  ASSUME NEW text, NEW i, NEW ops, NEW o \in Written,
         Fits(text, i, Mem[o], Inherited(Mem[o]), ops), text[i].op = o, i \in Nat \ {0}
  PROVE  i > Inherited(Mem[o]) \/ Inherited(Mem[o]) \notin Nat
<1>1. CASE Mem[o] \in Derived
  BY <1>1, SourceOf DEF Fits
<1>2. CASE Mem[o] \notin Derived
  BY <1>2 DEF Inherited
<1> QED
  BY <1>1, <1>2

(* The steps that leave the memories and their files alone.                 *)
LEMMA QuietData ==
  ASSUME ControlInv, DataInv, NEW o \in Ops,
         \/ Prepare(o) \/ Replay(o) \/ ResumeInput(o) \/ Reconcile(o) \/ FindMessage(o)
         \/ Mismatch(o) \/ BaseMissing(o) \/ Complete(o) \/ MarkAmbiguous(o)
         \/ CallAdapter(o) \/ AdapterReturns(o) \/ FailOp(o) \/ JournalFails(o)
  PROVE  DataInv'
<1> DEFINE m == Mem[o]
           b == loadable.ops[o].before
<1>1. Records(o) /\ Knows(o) /\ Grows(loadable.ops, loadable'.ops)
  BY WhatItRecords, RecordsGrow DEF OpStep, ControlInv
<1>2. /\ PlaceOK(o, at[o], journal[o]) /\ (at[o] # "idle" => up) /\ up \in BOOLEAN
      /\ o \in Journaled /\ at[o] # "failed" => loadable.ops[o] = journal[o]
      /\ attempts \in [Ops -> Nat] /\ told \subseteq Ops \X Messages
      /\ TextTyped /\ Based
  BY DEF ControlInv, JournalInv, JournalTyped, PlaceExact, KnownExact, Attempts, DataInv, OpsAreTyped
<1>3. /\ Dos \cap Adapters = {} /\ \A p \in Dos : p \in Ops
      /\ \A p \in Ops : p \in Dos <=> Kind[p] = "do"
      /\ \A p \in Ops : p \in Adapters <=> Kind[p] = "adapter"
  BY KindsOfOps DEF Dos, Adapters
<1>4. o \in Written => o \in Journaled
  BY DEF Written
<1>5. ASSUME up, UNCHANGED <<stored, up, mem, remembered>>, NEW place \in Places, Goes(o, place),
             o \in Dos /\ at[o] \in {"running", "answered", "failed"} => place = "failed",
             \A p \in Dos : attempts'[p] = attempts[p],
             o \in Written => PlaceIn(o, place, loadable'.ops[o].before, mem[Mem[o]], Mem[o] \in files,
                                      Loaded(Mem[o])),
             told' \subseteq Ops \X Messages
      PROVE  DataInv'
  <2>1. KeepsRunning /\ KeepsAnswered
    BY <1>5, KeepsBoth DEF ControlInv
  <2> QED
    BY <1>1, <1>5, <2>1, StillData
<1>6. \A before, text, filed, loaded :
         \A place \in {"prepared", "existing", "failed"} : PlaceIn(o, place, before, text, filed, loaded)
  BY DEF PlaceIn
<1>7. CASE Prepare(o)
  <2>1. /\ up /\ at[o] = "idle" /\ UNCHANGED <<stored, up, mem, remembered, attempts, told>>
        /\ \E place \in {"prepared", "existing"} : Goes(o, place)
    BY <1>7 DEF Prepare, Launch
  <2> QED
    BY <1>2, <1>5, <1>6, <2>1 DEF Places
<1>8. CASE Mismatch(o) \/ BaseMissing(o) \/ MarkAmbiguous(o) \/ FailOp(o) \/ JournalFails(o)
  <2>1. /\ up /\ UNCHANGED <<stored, up, mem, remembered, attempts, told>> /\ Goes(o, "failed")
    BY <1>2, <1>8 DEF Mismatch, Mismatched, Open, BaseMissing, MarkAmbiguous, FailOp, JournalFails, Fails,
       InFlight, Writes
  <2> QED
    BY <1>2, <1>5, <1>6, <2>1 DEF Places
<1>9. CASE CallAdapter(o) \/ AdapterReturns(o)
  <2>1. /\ up /\ UNCHANGED <<stored, up, mem, remembered, told>> /\ o \in Adapters
        /\ \E place \in {"running", "saved"} : Goes(o, place)
        /\ attempts' = attempts \/ attempts' = [attempts EXCEPT ![o] = @ + 1]
    BY <1>2, <1>9 DEF CallAdapter, AdapterReturns
  <2>2. o \notin Dos /\ o \notin Written /\ \A p \in Dos : attempts'[p] = attempts[p]
    BY <1>2, <1>3, <2>1 DEF Written
  <2> QED
    BY <1>2, <1>5, <2>1, <2>2 DEF Places
<1>10. CASE Replay(o)
  <2>1. /\ up /\ UNCHANGED <<stored, up, mem, remembered, attempts>> /\ Goes(o, "returned")
        /\ at[o] \in {"prepared", "existing"} /\ InFlight(o) /\ journal[o].status = "completed"
        /\ told' = told \cup {<<o, journal[o].result>>} /\ o \in Dos \cup Adapters /\ o \in Journaled
        /\ loadable'.ops = loadable.ops
    BY <1>2, <1>3, <1>10, KindsOfOps DEF Replay, InFlight, recovery
  <2>2. CASE o \in Adapters
    <3>1. journal[o].result \in Messages
      BY <1>2, <2>1, <2>2 DEF DataInv, Results
    <3> QED
      BY <1>2, <1>3, <1>5, <2>1, <2>2, <3>1 DEF Written, Places
  <2>3. CASE o \in Dos
    <3>1. /\ o \in Written /\ b \in Nat /\ TextOK(m) /\ OpsTyped(loadable.ops) /\ m \in Memories
          /\ loadable.ops[o] = journal[o]
      BY <2>1, <2>3, WrittenOps, AtWork
    <3>2. ResultIn(o, loadable.ops[o], m \in files, Loaded(m))
      BY <2>3 DEF DataInv, Results
    <3>3. /\ m \in files /\ b + 2 <= Len(Loaded(m)) /\ loadable.ops[o].result = Loaded(m)[b + 2]
          /\ Loaded(m)[b + 2].op = o /\ Loaded(m)[b + 2].role = "assistant"
      BY <2>1, <3>1, <3>2 DEF ResultIn
    <3>4. /\ mem[m] \in Seq(Messages) /\ Len(mem[m]) \in Nat
          /\ Loaded(m) \in Seq(Messages) /\ Len(Loaded(m)) \in Nat
      BY <1>2, <3>1, <3>3, TextKnown
    <3>5. Agree(Loaded(m), mem[m]) /\ Len(Loaded(m)) <= Len(mem[m])
      BY <2>1, <3>1, <3>3, NotAhead
    <3>6. b + 2 \in 1..Len(mem[m]) /\ mem[m][b + 2] = Loaded(m)[b + 2] /\ Loaded(m)[b + 2] \in Messages
      BY <3>1, <3>3, <3>4, <3>5 DEF Agree
    <3>7. mem[m][b + 2 - 1] = Input(o)
      <4>1. /\ AllFit(mem[m], m, Inherited(m), loadable.ops) /\ b + 2 \in 1..Len(mem[m])
            /\ mem[m][b + 2].role = "assistant" /\ mem[m][b + 2].op = o /\ b \in Nat
        BY <3>1, <3>3, <3>6 DEF TextOK
      <4> HIDE DEF b, m
      <4>2. mem[m][b + 2 - 1] = Input(mem[m][b + 2].op)
        BY <4>1, FitUnique
      <4> QED
        BY <4>1, <4>2
    <3>8. b + 2 - 1 = b + 1 /\ b + 1 <= Len(mem[m]) /\ b + 2 <= Len(mem[m])
      <4>1. b \in Nat /\ Len(mem[m]) \in Nat /\ b + 2 \in 1..Len(mem[m])
        BY <3>1, <3>4, <3>6
      <4> HIDE DEF b, m
      <4> QED
        BY <4>1
    <3>9. PlaceIn(o, "returned", b, mem[m], m \in files, Loaded(m))
      BY <2>3, <3>7, <3>8 DEF PlaceIn, Leaves
    <3>10. told' \subseteq Ops \X Messages
      BY <1>2, <2>1, <3>1, <3>3, <3>6
    <3> QED
      BY <1>5, <2>1, <3>9, <3>10 DEF Places
  <2> QED
    BY <2>1, <2>2, <2>3
<1>11. CASE ResumeInput(o) \/ Reconcile(o)
  <2>1. /\ up /\ UNCHANGED <<stored, up, mem, remembered, attempts, told>> /\ at[o] = "prepared"
        /\ o \in Dos /\ InFlight(o) /\ loadable'.ops = loadable.ops /\ HasInput(o)
        /\ ResumeInput(o) => Goes(o, "ready") /\ Revision(o) = Before(o) + 1
        /\ Reconcile(o) => /\ Goes(o, "saved") /\ Revision(o) = Before(o) + 2
                           /\ mem[Mem[o]][Before(o) + 2].role = "assistant"
    BY <1>3, <1>11 DEF ResumeInput, Reconcile, Open, HasOutput, InFlight, recovery
  <2>2. /\ o \in Written /\ b \in Nat /\ Before(o) = b /\ m \in Memories /\ TextOK(m) /\ SaveOK(m)
        /\ OpsTyped(loadable.ops)
    BY <2>1, AtWork, WrittenOps
  <2>3. mem[m] \in Seq(Messages) /\ Len(mem[m]) \in Nat /\ Inherited(m) \in Nat
    BY <1>2, <2>2, TextKnown
  <2>4. b + 1 <= Len(mem[m]) /\ mem[m][b + 1] = Input(o)
    BY <2>1, <2>2, <2>3 DEF HasInput, Revision
  <2>5. CASE ResumeInput(o)
    <3>1. PlaceIn(o, "ready", b, mem[m], m \in files, Loaded(m))
      BY <2>1, <2>2, <2>4, <2>5 DEF PlaceIn, Revision
    <3> QED
      BY <1>2, <1>5, <2>1, <2>5, <3>1 DEF Places
  <2>6. CASE Reconcile(o)
    <3>1. /\ Len(mem[m]) = b + 2 /\ mem[m][b + 2].role = "assistant" /\ b + 2 \in 1..Len(mem[m])
          /\ b + 2 \in Nat \ {0}
      BY <2>1, <2>2, <2>6 DEF Revision
    <3>2. mem[m][b + 2].op = o
      <4>1. AllFit(mem[m], m, Inherited(m), loadable.ops) /\ b + 2 <= Len(mem[m])
        BY <2>2, <2>3, <3>1 DEF TextOK
      <4> HIDE DEF m, b
      <4> QED
        BY <2>2, <2>3, <2>4, <3>1, <4>1, AnswerAfterInput
    <3>3. Fits(mem[m], b + 2, m, Inherited(m), loadable.ops)
      BY <2>2, <3>1 DEF TextOK, AllFit
    <3>4. b + 2 > Inherited(m)
      BY <2>2, <2>3, <3>1, <3>2, <3>3, OwnMessage
    <3>5. m \in files /\ b + 2 <= Len(Loaded(m))
      BY <2>1, <2>2, <3>1, <3>2, <3>4 DEF SaveOK
    <3>6. PlaceIn(o, "saved", b, mem[m], m \in files, Loaded(m))
      BY <2>1, <2>4, <3>1, <3>5 DEF PlaceIn
    <3> QED
      BY <1>2, <1>5, <2>1, <2>6, <3>6 DEF Places
  <2> QED
    BY <1>11, <2>5, <2>6
<1>12. CASE FindMessage(o)
  <2>1. /\ up /\ UNCHANGED <<stored, up, mem, remembered, attempts, told>> /\ at[o] = "prepared"
        /\ o \notin Dos /\ o \notin Adapters /\ InFlight(o) /\ loadable'.ops = loadable.ops /\ HasInput(o)
        /\ Goes(o, "saved")
    BY <1>3, <1>12 DEF FindMessage, InFlight, recovery
  <2>2. o \in Written
    BY <1>2, <2>1 DEF PlaceOK, Written
  <2>3. b \in Nat /\ Before(o) = b /\ m \in Memories
    BY <2>1, <2>2, AtWork
  <2>4. Len(mem[m]) \in Nat
    BY <1>2, <2>3, TextKnown
  <2>5. b + 1 <= Len(mem[m]) /\ mem[m][b + 1] = Input(o)
    BY <2>1, <2>3, <2>4 DEF HasInput, Revision
  <2>6. PlaceIn(o, "saved", b, mem[m], m \in files, Loaded(m))
    BY <2>1, <2>5 DEF PlaceIn
  <2> QED
    BY <1>2, <1>5, <2>1, <2>6 DEF Places
<1>13. CASE Complete(o)
  <2>1. /\ up /\ UNCHANGED <<stored, up, mem, remembered, attempts>> /\ at[o] = "saved" /\ InFlight(o)
        /\ Goes(o, "returned")
        /\ told' = IF Kind[o] \in {"do", "adapter"} THEN told \cup {<<o, Completed(o).result>>} ELSE told
        /\ o \in Journaled /\ journal[o].status # "none"
    BY <1>2, <1>13 DEF Complete, Writes, InFlight, PlaceOK
  <2>2. loadable'.ops[o].before = b
    BY <1>1, <1>2, <2>1 DEF Grows
  <2>3. CASE o \in Adapters
    <3>1. Completed(o).result = Output(o)
      BY <1>3, <2>3 DEF Completed
    <3>2. Output(o) \in Messages
      BY InputShape, ProgramAssumption, <2>3 DEF ControlInv, Attempts
    <3> QED
      BY <1>2, <1>3, <1>5, <2>1, <2>3, <3>1, <3>2 DEF Written, Places
  <2>4. CASE o \in Written
    <3>1. /\ b \in Nat /\ Before(o) = b /\ m \in Memories
          /\ PlaceIn(o, "saved", b, mem[m], m \in files, Loaded(m))
      BY <2>1, <2>4, AtWork
    <3>2. mem[m] \in Seq(Messages) /\ Len(mem[m]) \in Nat
      BY <1>2, <3>1, TextKnown
    <3>3. PlaceIn(o, "returned", b, mem[m], m \in files, Loaded(m))
      BY <3>1 DEF PlaceIn, Leaves
    <3>4. told' \subseteq Ops \X Messages
      <4>1. CASE o \in Dos
        <5>1. Completed(o).result = mem[m][b + 2]
          BY <1>3, <3>1, <4>1 DEF Completed
        <5>2. b + 2 \in 1..Len(mem[m])
          BY <3>1, <3>2, <4>1 DEF PlaceIn
        <5>3. mem[m][b + 2] \in Messages
          BY <3>2, <5>2
        <5> QED
          BY <1>2, <2>1, <5>1, <5>3
      <4>2. CASE o \notin Dos
        <5>1. Kind[o] \notin {"do", "adapter"}
          BY <1>3, <2>4, <4>2, WrittenOps
        <5> QED
          BY <1>2, <2>1, <5>1
      <4> QED
        BY <4>1, <4>2
    <3> QED
      BY <1>2, <1>5, <2>1, <2>2, <3>3, <3>4 DEF Places
  <2> QED
    BY <2>1, <2>3, <2>4 DEF Written
<1> QED
  BY <1>7, <1>8, <1>9, <1>10, <1>11, <1>12, <1>13

-----------------------------------------------------------------------------
(* The steps that add a message to a memory.                                *)
LEMMA GrowingData ==
  ASSUME ControlInv, DataInv, NEW o \in Ops, Admit(o) \/ AppendMessage(o) \/ Answer(o)
  PROVE  DataInv'
<1> DEFINE m == Mem[o]
           b == loadable.ops[o].before
<1>1. /\ InFlight(o) /\ at[o] \in {"prepared", "running"} /\ Kind[o] \in {"do", "append"}
      /\ UNCHANGED <<stored, recovery, up, remembered, attempts, told>>
  BY DEF Admit, AppendMessage, Answer, Open, InFlight
<1>2. o \in Journaled /\ o \notin Adapters /\ o \in Written /\ (o \in Dos <=> Kind[o] = "do")
  BY <1>1 DEF Journaled, Copies, Adapters, Dos, Written
<1>3. /\ up /\ m \in Memories /\ b \in Nat /\ Before(o) = b /\ loadable.ops[o].status # "none"
      /\ PlaceIn(o, at[o], b, mem[m], m \in files, Loaded(m))
      /\ Inherited(m) <= Len(mem[m]) /\ OpsTyped(loadable.ops)
  BY <1>1, <1>2, AtWork
<1>4. mem[m] \in Seq(Messages) /\ Len(mem[m]) \in Nat /\ Inherited(m) \in Nat
  BY <1>3, TextKnown DEF DataInv
<1>5. Input(o) \in Messages /\ Input(o).role # "assistant"
  BY InputShape
<1>6. CASE Admit(o) \/ AppendMessage(o)
  <2> DEFINE x == Input(o)
             text == Append(mem[m], x)
  <2>1. /\ text \in Seq(Messages) /\ Len(text) = Len(mem[m]) + 1 /\ text[Len(mem[m]) + 1] = x
    BY <1>4, <1>5, Appended
  <2>2. Len(mem[m]) = b /\ mem' = [mem EXCEPT ![m] = text] /\ at[o] = "prepared"
    BY <1>3, <1>6 DEF Admit, AppendMessage, Revision, Open
  <2>3. x.op = o /\ Fits(text, Len(mem[m]) + 1, m, Inherited(m), loadable.ops)
    <3>1. ~(Len(mem[m]) + 1 <= Inherited(m)) /\ text[Len(mem[m]) + 1].op = o
      BY <1>3, <1>4, <2>1, InputShape
    <3> QED
      BY <1>2, <1>3, <2>1, <2>2, <3>1 DEF Fits
  <2>4. \E place \in Places : Goes(o, place) /\ PlaceIn(o, place, b, text, m \in files, Loaded(m))
    <3>3. b \in Nat /\ Len(text) = b + 1 /\ text[b + 1] = Input(o)
      BY <1>3, <2>1, <2>2
    <3> HIDE DEF x, text, b
    <3>1. CASE Admit(o)
      <4>1. Goes(o, "ready") /\ o \in Dos
        BY <1>2, <3>1 DEF Admit, Open
      <4> QED
        BY <3>3, <4>1 DEF PlaceIn, Places
    <3>2. CASE AppendMessage(o)
      <4>1. Goes(o, IF m \in files THEN "answered" ELSE "saved") /\ o \notin Dos
        BY <1>2, <3>2 DEF AppendMessage
      <4>2. CASE m \in files
        BY <3>3, <4>1, <4>2 DEF PlaceIn, Places, Leaves
      <4>3. CASE m \notin files
        BY <3>3, <4>1, <4>3 DEF PlaceIn, Places, Leaves
      <4> QED
        BY <4>2, <4>3
    <3> QED
      BY <1>6, <3>1, <3>2
  <2> HIDE DEF x
  <2>5. x \in Messages /\ x.role # "assistant"
    BY <1>5 DEF x
  <2> QED
    BY <1>1, <1>2, <1>3, <2>2, <2>3, <2>4, <2>5, AddsData
<1>7. CASE Answer(o)
  <2> DEFINE x == Output(o)
             text == Append(mem[m], x)
  <2>1. /\ at[o] = "running" /\ o \in Dos /\ Goes(o, "answered") /\ mem' = [mem EXCEPT ![m] = text]
    BY <1>2, <1>7 DEF Answer
  <2>2. x \in Messages /\ x.op = o /\ x.role = "assistant"
    BY <2>1, InputShape, ProgramAssumption DEF ControlInv, Attempts
  <2>3. /\ text \in Seq(Messages) /\ Len(text) = Len(mem[m]) + 1 /\ text[Len(mem[m]) + 1] = x
        /\ \A i \in 1..Len(mem[m]) : text[i] = mem[m][i]
    BY <1>4, <2>2, Appended
  <2>4. /\ m \in files /\ Len(mem[m]) = b + 1 /\ mem[m][b + 1] = Input(o)
    BY <1>3, <2>1 DEF PlaceIn
  <2>5. /\ Len(text) = b + 2 /\ text[b + 2] = x /\ text[b + 1] = Input(o)
    BY <1>3, <2>3, <2>4
  <2>6. Fits(text, Len(mem[m]) + 1, m, Inherited(m), loadable.ops)
    <3> HIDE DEF text, x, m, b
    <3>0. Len(mem[m]) + 1 = b + 2 /\ Len(mem[m]) + 1 - 1 = b + 1
      BY <1>3, <2>4
    <3>1. /\ ~(Len(mem[m]) + 1 <= Inherited(m)) /\ text[Len(mem[m]) + 1] = x
          /\ Len(mem[m]) + 1 = b + 2 /\ text[Len(mem[m]) + 1 - 1] = Input(o)
      <4>1. ~(Len(mem[m]) + 1 <= Inherited(m))
        BY <1>3, <1>4
      <4> QED
        BY <2>3, <2>5, <3>0, <4>1
    <3> QED
      BY <1>2, <1>3, <2>1, <2>2, <3>1 DEF Fits, m, b
  <2>7. PlaceIn(o, "answered", b, text, m \in files, Loaded(m))
    BY <1>3, <2>1, <2>2, <2>4, <2>5 DEF PlaceIn, Leaves
  <2> HIDE DEF x
  <2> QED
    BY <1>1, <1>2, <1>3, <2>1, <2>2, <2>4, <2>6, <2>7, AddsData DEF x, Places
<1> QED
  BY <1>6, <1>7

-----------------------------------------------------------------------------
\* The steps of the operations that write to files.

\* What the memory m of an operation holds of it once it is saved.
WhenPut(o, place, m, revision) ==
  \A loaded : Len(loaded) = revision =>
    PlaceIn(o, place, loadable.ops[o].before, mem[m], TRUE, loaded)

\* An operation leaves the files alone, or adds to one of them: what its memory
\* holds already, or an answer of its own.
FilesStep(o) ==
  \/ UNCHANGED <<files, records>>
  \/ \E m \in Memories :
       /\ UNCHANGED loadable /\ up /\ o \in Written /\ InFlight(o)
       /\ files' = files \cup {m} /\ \A n \in Memories \ {m} : records'[n] = records[n]
       /\ m \in files => Begins(Loaded(m), Loaded(m)') /\ Mem[o] = m
       /\ \A i \in 1..Len(Loaded(m)') :
            \/ i \in 1..Len(mem[m]) /\ Loaded(m)'[i] = mem[m][i]
            \/ o \in Dos /\ Loaded(m)'[i].op = o

(* An operation puts a memory, up to a revision, in its file.               *)
LEMMA PutData ==
  ASSUME ControlInv, DataInv, NEW o \in Written, up, up' = up, InFlight(o),
         NEW m \in Memories, NEW revision \in Nat, Put(m, revision),
         UNCHANGED <<mem, base, recovery, told>>,
         Inherited(m) <= revision, revision <= Len(mem[m]),
         m \in files => Agree(Loaded(m), mem[m]) /\ Len(Loaded(m)) <= revision /\ Mem[o] = m,
         m \in Derived => Source(m) \in files /\ base[m] <= Len(records[Source(m)]),
         remembered' = remembered \/ Remember(m, revision),
         NEW place \in Places, Goes(o, place), KeepsRunning,
         \A p \in Dos : at[p] \in {"answered", "failed"} =>
           at'[p] \in {"answered", "failed"} \/ (Mem[p] = m /\ Len(mem[m]) <= revision),
         Mem[o] = m => WhenPut(o, place, m, revision),
         Mem[o] # m => PlaceIn(o, place, loadable.ops[o].before, mem[Mem[o]], Mem[o] \in files,
                               Loaded(Mem[o]))
  PROVE  DataInv' /\ FilesStep(o)
<1>1. TextTyped /\ Based /\ FileOK(m) /\ TextOK(m) /\ OpsTyped(loadable.ops)
  BY DEF DataInv, Filed, Texts, OpsAreTyped
<1>2. /\ mem[m] \in Seq(Messages) /\ Len(mem[m]) \in Nat
      /\ m \in files => Loaded(m) \in Seq(Messages) /\ Len(Loaded(m)) \in Nat
  BY <1>1, TextKnown
<1>3. remembered' \in [Memories -> SUBSET Nat]
  <2>1. remembered \in [Memories -> SUBSET Nat] /\ remembered[m] \cup {revision} \in SUBSET Nat
    BY <1>1 DEF TextTyped
  <2>2. CASE remembered' = [remembered EXCEPT ![m] = remembered[m] \cup {revision}]
    BY <2>1, <2>2
  <2> QED
    BY <2>1, <2>2 DEF Remember
<1>4. m \in Derived => \A i \in 1..base[m] : records[Source(m)][i] = mem[m][i]
  <2> SUFFICES ASSUME m \in Derived, NEW i \in 1..base[m] PROVE records[Source(m)][i] = mem[m][i]
    OBVIOUS
  <2>1. Source(m) \in Memories /\ Source(m) \notin Derived /\ Source(m) \in files
    BY SourceOf
  <2>2. FileOK(Source(m)) /\ ForkOK(m)
    BY <2>1 DEF DataInv, Filed, Forked
  <2>3. /\ Loaded(Source(m)) = records[Source(m)] /\ Len(records[Source(m)]) \in Nat
        /\ Len(mem[Source(m)]) \in Nat
    BY <1>1, <2>1, TextKnown
  <2>4. base[m] \in Nat /\ base[m] <= Len(mem[Source(m)]) /\ mem[m][i] = mem[Source(m)][i]
    BY <1>1, <2>2 DEF ForkOK, TextTyped
  <2>5. i \in 1..Len(records[Source(m)]) /\ i <= Len(mem[Source(m)])
    BY <2>3, <2>4
  <2>6. Agree(records[Source(m)], mem[Source(m)])
    BY <2>1, <2>2, <2>3 DEF FileOK
  <2> QED
    BY <2>4, <2>5, <2>6 DEF Agree
<1>5. /\ TextTyped' /\ Based' /\ LoadedShape'
      /\ m \in files' /\ files' = files \cup {m}
      /\ Len(Loaded(m)') = revision
      /\ \A i \in 1..revision : Loaded(m)'[i] = mem[m][i]
      /\ m \in files => Begins(Loaded(m), Loaded(m)')
      /\ \A n \in Memories \ {m} :
           records'[n] = records[n] /\ (n \in files => Loaded(n)' = Loaded(n))
  BY <1>1, <1>3, <1>4, FilePut
<1>6. Loaded(m)' \in Seq(Messages)
  BY <1>5 DEF LoadedShape
<1>7. Begins(Loaded(m)', mem[m]) /\ Agree(Loaded(m)', mem[m]) /\ Len(Loaded(m)') <= Len(mem[m])
  BY <1>2, <1>5 DEF Begins, Agree
<1>8. AllFit(Loaded(m)', m, Inherited(m), loadable.ops)
  <2>1. AllFit(mem[m], m, Inherited(m), loadable.ops)
    BY <1>1 DEF TextOK
  <2> QED
    BY <1>1, <1>2, <1>6, <1>7, <2>1, FitPart
<1>9. \A n \in Memories \ {m} : remembered'[n] = remembered[n]
  BY <1>1 DEF TextTyped, Remember
<1>10. \A r \in remembered'[m] : r <= Len(Loaded(m)')
  <2> SUFFICES ASSUME NEW r \in remembered'[m] PROVE r <= revision
    BY <1>5
  <2>1. r \in remembered[m] \/ r = revision
    BY <1>1 DEF TextTyped, Remember
  <2>2. CASE r \in remembered[m]
    <3>1. r \in Nat
      BY <1>1, <2>2 DEF TextTyped
    <3>2. m \in files /\ r <= Len(Loaded(m))
      BY <1>1, <2>2 DEF FileOK
    <3> QED
      BY <1>2, <3>1, <3>2
  <2> QED
    BY <2>1, <2>2
<1>11. PlaceIn(o, place, loadable.ops[o].before, mem[Mem[o]], Mem[o] \in files', Loaded(Mem[o])')
  <2>1. CASE Mem[o] = m
    <3>1. PlaceIn(o, place, loadable.ops[o].before, mem[m], TRUE, Loaded(m)')
      BY <1>5, <2>1 DEF WhenPut
    <3>2. (Mem[o] \in files') = TRUE
      BY <1>5, <2>1
    <3> QED
      BY <2>1, <3>1, <3>2
  <2>2. CASE Mem[o] # m
    <3>1. Mem[o] \in Memories /\ loadable.ops[o].before \in Nat
      BY <1>1, WrittenOps DEF OpsTyped, Operation
    <3>2. Mem[o] \in files => Mem[o] \in files' /\ Loaded(Mem[o])' = Loaded(Mem[o])
                              /\ Len(Loaded(Mem[o])) \in Nat
      BY <1>1, <1>5, <2>2, <3>1, TextKnown
    <3> QED
      BY <2>2, <3>1, <3>2, PlaceGrows
  <2> QED
    BY <2>1, <2>2
<1>12. \A p \in Dos : at[p] \in {"answered", "failed"} =>
         at'[p] \in {"answered", "failed"} \/ (Mem[p] = m /\ Len(mem[m]) <= Len(Loaded(m)'))
  BY <1>5
<1>13. FilesStep(o)
  <2>1. \A i \in 1..Len(Loaded(m)') : i \in 1..Len(mem[m]) /\ Loaded(m)'[i] = mem[m][i]
    BY <1>2, <1>5
  <2>2. UNCHANGED loadable
    BY DEF recovery
  <2> QED
    BY <1>5, <2>1, <2>2 DEF FilesStep
<1> QED
  BY <1>5, <1>7, <1>8, <1>9, <1>10, <1>11, <1>12, <1>13, FilesData

(* A copy that can be saved stands on a file that holds its base.           *)
LEMMA BaseIsFiled ==
  ASSUME ControlInv, DataInv, NEW o \in Written, BaseReady(o), Mem[o] \in Derived
  PROVE  Source(Mem[o]) \in files /\ base[Mem[o]] <= Len(records[Source(Mem[o])])
<1> DEFINE m == Mem[o]
           s == Source(Mem[o])
<1>1. CASE m \in files
  BY <1>1 DEF DataInv, Based
<1>2. CASE m \notin files
  <2>1. s \in files /\ base[m] \in remembered[s]
    BY <1>2 DEF BaseReady, NeedsBase
  <2>2. s \in Memories /\ s \notin Derived
    BY SourceOf
  <2>3. base[m] <= Len(Loaded(s))
    BY <2>1, <2>2 DEF DataInv, Filed, FileOK
  <2>4. Loaded(s) = records[s]
    BY <2>1, <2>2, TextKnown DEF DataInv
  <2> QED
    BY <2>1, <2>3, <2>4
<1> QED
  BY <1>1, <1>2

(* What an operation that moves to a place keeps of the executors.          *)
LEMMA KeepsWriting ==
  ASSUME JournalInv, NEW o \in Ops, NEW place, Goes(o, place), at[o] # "failed",
         at[o] = "running" => place \in {"running", "failed"},
         \A p \in Dos \ {o} : attempts'[p] = attempts[p],
         at[o] = "running" => attempts'[o] = attempts[o]
  PROVE  /\ KeepsRunning
         /\ \A p \in Dos \ {o} : at[p] \in {"answered", "failed"} => at'[p] \in {"answered", "failed"}
         /\ at[o] = "answered" /\ place \in {"answered", "failed"} =>
              at'[o] \in {"answered", "failed"}
<1>1. at \in [Ops -> Places] /\ Dos \subseteq Ops
  BY KindsOfOps DEF JournalInv, JournalTyped
<1>2. \A p \in Ops : at'[p] = IF p = o THEN place ELSE at[p]
  BY <1>1 DEF Goes
<1> QED
  BY <1>1, <1>2 DEF KeepsRunning

-----------------------------------------------------------------------------
(* The steps that write to the files of memories.                           *)
LEMMA BeginData ==
  ASSUME ControlInv, DataInv, NEW o \in Written, Begin(o)
  PROVE  DataInv' /\ FilesStep(o)
<1> DEFINE m == Mem[o]
           b == loadable.ops[o].before
<1>1. /\ at[o] = "ready" /\ BaseReady(o) /\ InFlight(o) /\ Put(m, Len(mem[m])) /\ Remember(m, Len(mem[m]))
      /\ attempts' = [attempts EXCEPT ![o] = @ + 1] /\ Goes(o, "running")
      /\ UNCHANGED <<mem, base, recovery, told, up>>
  BY DEF Begin, InFlight, Revision
<1>2. /\ up /\ o \in Ops /\ m \in Memories /\ b \in Nat /\ TextTyped /\ Based
      /\ PlaceIn(o, "ready", b, mem[m], m \in files, Loaded(m)) /\ Inherited(m) <= Len(mem[m])
  BY <1>1, AtWork DEF DataInv
<1>3. mem[m] \in Seq(Messages) /\ Len(mem[m]) \in Nat
  BY <1>2, TextKnown
<1>4. m \in files => Agree(Loaded(m), mem[m]) /\ Len(Loaded(m)) <= Len(mem[m])
  BY <1>1, NotAhead
<1>5. m \in Derived => Source(m) \in files /\ base[m] <= Len(records[Source(m)])
  BY <1>1, BaseIsFiled
<1>6. \A p \in Dos \ {o} : attempts'[p] = attempts[p]
  BY <1>1, KindsOfOps DEF ControlInv, Attempts
<1>7. KeepsRunning /\ \A p \in Dos \ {o} : at[p] \in {"answered", "failed"} => at'[p] \in {"answered", "failed"}
  BY <1>1, <1>2, <1>6, KeepsWriting DEF ControlInv
<1>8. \A p \in Dos : at[p] \in {"answered", "failed"} =>
        at'[p] \in {"answered", "failed"} \/ (Mem[p] = m /\ Len(mem[m]) <= Len(mem[m]))
  BY <1>1, <1>7
<1>9. \A loaded : Len(loaded) = Len(mem[m]) => PlaceIn(o, "running", b, mem[m], TRUE, loaded)
  BY <1>2 DEF PlaceIn
<1>10. WhenPut(o, "running", m, Len(mem[m]))
  BY <1>9 DEF WhenPut
<1> QED
  BY <1>1, <1>2, <1>3, <1>4, <1>5, <1>7, <1>8, <1>10, PutData DEF Places

(* The source of a copy gets a file that ends where the copy was made.      *)
LEMMA MaterializeData ==
  ASSUME ControlInv, DataInv, NEW o \in Written, MaterializeBase(o)
  PROVE  DataInv' /\ FilesStep(o)
<1> DEFINE m == Mem[o]
           s == Source(Mem[o])
           b == loadable.ops[o].before
<1>1. /\ at[o] = "ready" /\ InFlight(o) /\ m \in Derived /\ m \notin files /\ s \notin files
      /\ Put(s, base[m]) /\ Remember(s, base[m])
      /\ UNCHANGED <<mem, base, recovery, told, up, at, attempts>>
  BY DEF MaterializeBase, NeedsBase, InFlight
<1>2. /\ up /\ o \in Ops /\ m \in Memories /\ b \in Nat /\ TextTyped /\ Based
      /\ PlaceIn(o, "ready", b, mem[m], m \in files, Loaded(m))
  BY <1>1, AtWork DEF DataInv
<1>3. s \in Memories /\ s \notin Derived /\ s # m
  BY <1>1, SourceOf
<1>4. base[m] \in Nat /\ Inherited(s) <= base[m] /\ base[m] <= Len(mem[s])
  <2>1. ForkOK(m)
    BY <1>1 DEF DataInv, Forked
  <2> QED
    BY <1>1, <1>2, <1>3, <2>1 DEF TextTyped, ForkOK, Inherited
<1>5. Goes(o, "ready")
  BY <1>1, <1>2 DEF Goes, ControlInv, JournalInv, JournalTyped
<1>6. \A p \in Dos : attempts'[p] = attempts[p]
  BY <1>1
<1>7. KeepsRunning /\ \A p \in Dos : at[p] \in {"answered", "failed"} => at'[p] \in {"answered", "failed"}
  BY <1>1 DEF KeepsRunning
<1> QED
  BY <1>1, <1>2, <1>3, <1>4, <1>5, <1>7, PutData DEF Places

(* An answer or an appended message is saved.                               *)
LEMMA SaveData ==
  ASSUME ControlInv, DataInv, NEW o \in Written, Save(o)
  PROVE  DataInv' /\ FilesStep(o)
<1> DEFINE m == Mem[o]
           b == loadable.ops[o].before
<1>1. /\ at[o] = "answered" /\ InFlight(o) /\ Remember(m, Len(mem[m]))
      /\ Goes(o, "saved") /\ UNCHANGED <<mem, base, recovery, told, up, attempts>>
      /\ IF Kind[o] = "do" THEN endMemoryDo(m) ELSE Put(m, Len(mem[m]))
  BY DEF Save, InFlight, Revision
<1>2. /\ up /\ o \in Ops /\ m \in Memories /\ b \in Nat /\ TextTyped /\ Based
      /\ PlaceIn(o, "answered", b, mem[m], m \in files, Loaded(m)) /\ Inherited(m) <= Len(mem[m])
  BY <1>1, AtWork DEF DataInv
<1>3. /\ mem[m] \in Seq(Messages) /\ Len(mem[m]) \in Nat /\ m \in files
      /\ Loaded(m) \in Seq(Messages) /\ Len(Loaded(m)) \in Nat
  BY <1>2, TextKnown DEF PlaceIn
<1>4. Agree(Loaded(m), mem[m]) /\ Len(Loaded(m)) <= Len(mem[m])
  BY <1>1, <1>3, NotAhead
<1>5. Put(m, Len(mem[m]))
  <2>1. Begins(Loaded(m), mem[m])
    BY <1>3, <1>4 DEF Begins, Agree
  <2>2. IsPrefix(Loaded(m), mem[m])
    BY <1>3, <2>1, PrefixBegins
  <2> QED
    BY <1>1, <2>2 DEF endMemoryDo
<1>6. m \in Derived => Source(m) \in files /\ base[m] <= Len(records[Source(m)])
  BY <1>3 DEF DataInv, Based
<1>7. KeepsRunning /\ \A p \in Dos \ {o} : at[p] \in {"answered", "failed"} => at'[p] \in {"answered", "failed"}
  BY <1>1, <1>2, KeepsWriting DEF ControlInv
<1>8. \A p \in Dos : at[p] \in {"answered", "failed"} =>
        at'[p] \in {"answered", "failed"} \/ (Mem[p] = m /\ Len(mem[m]) <= Len(mem[m]))
  BY <1>3, <1>7
<1>9. \A loaded : Len(loaded) = Len(mem[m]) => PlaceIn(o, "saved", b, mem[m], TRUE, loaded)
  BY <1>2, <1>3 DEF PlaceIn, Leaves
<1>10. WhenPut(o, "saved", m, Len(mem[m]))
  BY <1>9 DEF WhenPut
<1> QED
  BY <1>1, <1>2, <1>3, <1>4, <1>5, <1>6, <1>7, <1>8, <1>10, PutData DEF Places

(* A write that fails leaves any beginning of what it should have written.  *)
LEMMA WriteFailsData ==
  ASSUME ControlInv, DataInv, NEW o \in Ops, WriteFails(o)
  PROVE  DataInv' /\ FilesStep(o)
<1> DEFINE w == Mem[o]
           b == loadable.ops[o].before
           s == Source(Mem[o])
<1>1. /\ at[o] \in {"ready", "answered"} /\ InFlight(o) /\ Goes(o, "failed")
      /\ UNCHANGED <<mem, base, recovery, told, up, attempts, remembered>>
  BY DEF WriteFails, InFlight, Fails
<1>2. o \in Written
  BY <1>1 DEF ControlInv, JournalInv, PlaceExact, PlaceOK, Written
<1>3. /\ up /\ w \in Memories /\ b \in Nat /\ TextTyped /\ Based /\ Inherited(w) <= Len(mem[w])
  BY <1>1, <1>2, AtWork DEF DataInv
<1>4. mem[w] \in Seq(Messages) /\ Len(mem[w]) \in Nat /\ Inherited(w) \in Nat
  BY <1>3, TextKnown
<1>5. /\ KeepsRunning
      /\ \A p \in Dos : at[p] \in {"answered", "failed"} => at'[p] \in {"answered", "failed"}
  <2>1. o \in Ops /\ at[o] # "failed" /\ at[o] # "running"
    BY <1>1
  <2>2. /\ KeepsRunning
        /\ \A p \in Dos \ {o} : at[p] \in {"answered", "failed"} => at'[p] \in {"answered", "failed"}
        /\ at[o] = "answered" => at'[o] \in {"answered", "failed"}
    BY <1>1, <2>1, KeepsWriting DEF ControlInv
  <2> QED
    BY <2>1, <2>2
<1>6. \A before, text, filed, loaded : PlaceIn(o, "failed", before, text, filed, loaded)
  BY DEF PlaceIn
<1>7. CASE UNCHANGED <<files, records>>
  <2>1. Records(o) /\ Knows(o) /\ UNCHANGED <<stored, mem, remembered>> /\ told' \subseteq Ops \X Messages
    BY <1>1, <1>7, WhatItRecords DEF OpStep, ControlInv, stored, DataInv, OpsAreTyped
  <2>2. KeepsAnswered
    BY <1>5 DEF KeepsAnswered
  <2>3. o \in Written => PlaceIn(o, "failed", loadable'.ops[o].before, mem[w], w \in files, Loaded(w))
    BY <1>6
  <2> QED
    BY <1>1, <1>3, <1>5, <1>7, <2>1, <2>2, <2>3, StillData DEF Places, FilesStep
<1>8. ASSUME NEW m, NEW revision, Put(m, revision), m \in {w, s},
             m = w => BaseReady(o) /\ revision \in (IF m \in files THEN Len(Loaded(m)) ELSE Inherited(m))..Len(mem[w]),
             m # w => NeedsBase(o) /\ s \notin files /\ revision \in Inherited(s)..base[w]
      PROVE  DataInv' /\ FilesStep(o)
  <2>1. WhenPut(o, "failed", m, revision)
    BY <1>6 DEF WhenPut
  <2>2. CASE m = w
    <3>1. w \in files => Agree(Loaded(w), mem[w]) /\ Len(Loaded(w)) <= Len(mem[w]) /\ Len(Loaded(w)) \in Nat
                          /\ Len(Loaded(w)) = Inherited(w) + Len(records[w]) /\ Len(records[w]) \in Nat
      BY <1>1, <1>2, <1>3, NotAhead, TextKnown
    <3>2. w \in Derived => Source(w) \in files /\ base[w] <= Len(records[Source(w)])
      BY <1>2, <1>8, <2>2, BaseIsFiled
    <3>3. /\ revision \in Nat /\ Inherited(w) <= revision /\ revision <= Len(mem[w])
          /\ w \in files => Agree(Loaded(w), mem[w]) /\ Len(Loaded(w)) <= revision
      <4>1. CASE w \in files
        BY <1>4, <1>8, <2>2, <3>1, <4>1
      <4>2. CASE w \notin files
        BY <1>4, <1>8, <2>2, <4>2
      <4> QED
        BY <4>1, <4>2
    <3>4. \A p \in Dos : at[p] \in {"answered", "failed"} =>
            at'[p] \in {"answered", "failed"} \/ (Mem[p] = w /\ Len(mem[w]) <= revision)
      BY <1>5
    <3>5. Put(w, revision) /\ WhenPut(o, "failed", w, revision)
      BY <1>8, <2>1, <2>2
    <3> QED
      BY <1>1, <1>2, <1>3, <1>5, <2>2, <3>2, <3>3, <3>4, <3>5, PutData DEF Places
  <2>3. CASE m # w
    <3>1. /\ w \in Derived /\ w \notin files /\ s \in Memories /\ s \notin Derived /\ s # w
      BY <1>8, <2>3, SourceOf DEF NeedsBase
    <3>2. base[w] \in Nat /\ base[w] <= Len(mem[s]) /\ Len(mem[s]) \in Nat
      BY <1>3, <3>1, TextKnown DEF DataInv, Forked, ForkOK, TextTyped
    <3>3. revision \in Nat /\ Inherited(s) <= revision /\ revision <= Len(mem[s])
      BY <1>8, <2>3, <3>1, <3>2 DEF Inherited
    <3>4. \A p \in Dos : at[p] \in {"answered", "failed"} =>
            at'[p] \in {"answered", "failed"} \/ (Mem[p] = s /\ Len(mem[s]) <= revision)
      BY <1>5
    <3>5. Put(s, revision) /\ s \notin files
      BY <1>8, <2>3
    <3>6. PlaceIn(o, "failed", loadable.ops[o].before, mem[Mem[o]], Mem[o] \in files, Loaded(Mem[o]))
      BY <1>6
    <3> QED
      BY <1>1, <1>2, <1>3, <1>5, <3>1, <3>3, <3>4, <3>5, <3>6, PutData DEF Places
  <2> QED
    BY <2>2, <2>3
<1>9. \/ UNCHANGED <<files, records>>
      \/ /\ NeedsBase(o) /\ s \notin files
         /\ \E revision \in Inherited(s)..base[w] : Put(s, revision)
      \/ /\ BaseReady(o)
         /\ \E revision \in (IF w \in files THEN Len(Loaded(w)) ELSE Inherited(w))..Len(mem[w]) :
              Put(w, revision)
  <2>1. CASE NeedsBase(o) /\ s \notin files
    <3>1. s # w
      BY <2>1, SourceOf DEF NeedsBase
    <3> QED
      BY <2>1, <3>1 DEF WriteFails
  <2>2. CASE ~(NeedsBase(o) /\ s \notin files)
    BY <2>2 DEF WriteFails, Revision
  <2> QED
    BY <2>1, <2>2
<1>10. NeedsBase(o) => s # w
  BY SourceOf DEF NeedsBase
<1> QED
  BY <1>7, <1>8, <1>9, <1>10

(* The executor journals the answer before it returns it.                   *)
LEMMA CheckpointData ==
  ASSUME ControlInv, DataInv, NEW o \in Ops, Checkpoint(o)
  PROVE  DataInv' /\ FilesStep(o)
<1> DEFINE m == Mem[o]
           b == loadable.ops[o].before
           x == Output(o)
           own == Append(records[m], x)
<1>1. /\ at[o] = "running" /\ InFlight(o) /\ o \in Dos /\ Len(Loaded(m)) = Len(mem[m])
      /\ records' = [records EXCEPT ![m] = own] /\ Remember(m, Len(mem[m]) + 1)
      /\ UNCHANGED <<files, mem, base, recovery, told, up, at, attempts>>
  BY DEF Checkpoint, InFlight, Dos, Revision
<1>2. o \in Written /\ o \in Ops
  BY <1>1, WrittenOps
<1>3. /\ up /\ m \in Memories /\ b \in Nat /\ TextTyped /\ Based /\ OpsTyped(loadable.ops)
      /\ PlaceIn(o, "running", b, mem[m], m \in files, Loaded(m)) /\ Inherited(m) <= Len(mem[m])
      /\ TextOK(m) /\ FileOK(m) /\ loadable.ops[o].status # "none"
  BY <1>1, <1>2, AtWork DEF DataInv
<1>4. m \in files /\ Len(mem[m]) = b + 1 /\ mem[m][b + 1] = Input(o)
  BY <1>3 DEF PlaceIn
<1>5. /\ mem[m] \in Seq(Messages) /\ Len(mem[m]) \in Nat /\ records[m] \in Seq(Messages)
      /\ Len(records[m]) \in Nat /\ Inherited(m) \in Nat
      /\ Loaded(m) \in Seq(Messages) /\ Len(Loaded(m)) \in Nat
      /\ Len(Loaded(m)) = Inherited(m) + Len(records[m])
  BY <1>3, <1>4, TextKnown
<1>23. /\ Len(mem[m]) \in Nat /\ Len(records[m]) \in Nat /\ Inherited(m) \in Nat
       /\ Len(mem[m]) = Inherited(m) + Len(records[m])
  BY <1>1, <1>5
<1>6. x \in Messages /\ x.op = o /\ x.role = "assistant"
  BY <1>1, InputShape, ProgramAssumption DEF ControlInv, Attempts
<1> HIDE DEF x
<1>7. /\ own \in Seq(Messages) /\ Len(own) = Len(records[m]) + 1 /\ own[Len(records[m]) + 1] = x
      /\ \A i \in 1..Len(records[m]) : own[i] = records[m][i]
  BY <1>5, <1>6, Appended
<1>8. Begins(records[m], own)
  BY <1>5, <1>7 DEF Begins
<1>9. remembered' \in [Memories -> SUBSET Nat]
  <2>1. remembered \in [Memories -> SUBSET Nat] /\ remembered[m] \cup {Len(mem[m]) + 1} \in SUBSET Nat
    BY <1>3, <1>5 DEF TextTyped
  <2> QED
    BY <1>1, <2>1 DEF Remember
<1>10. m \in Derived => Source(m) \in files /\ base[m] <= Len(records[Source(m)])
  BY <1>3, <1>4 DEF Based
<1> HIDE DEF own
<1>11. /\ TextTyped' /\ Based' /\ LoadedShape' /\ records'[m] = own
       /\ m \in files => Begins(Loaded(m), Loaded(m)')
       /\ \A n \in Memories \ {m} :
            records'[n] = records[n] /\ (n \in files => Loaded(n)' = Loaded(n))
       /\ m \in Derived => records'[Source(m)] = records[Source(m)]
  <2>1. files' = files \cup {m} /\ UNCHANGED <<base, mem>>
    BY <1>1, <1>4
  <2> QED
    BY <1>1, <1>3, <1>7, <1>8, <1>9, <1>10, <2>1, FileWritten
<1>12. Loaded(m)' \in Seq(Messages) /\ Len(Loaded(m)') = Len(mem[m]) + 1 /\ Loaded(m)'[Len(mem[m]) + 1] = x
  <2>1. m \in files' /\ Inherited(m)' = Inherited(m)
    BY <1>1, <1>4 DEF Inherited
  <2>2. Loaded(m)' \in Seq(Messages) /\ Len(Loaded(m)') = Inherited(m) + Len(own)
    BY <1>11, <2>1 DEF LoadedShape
  <2>3. Len(Loaded(m)') = Len(mem[m]) + 1
    BY <1>1, <1>5, <1>7, <2>2
  <2>4. Loaded(m)'[Len(mem[m]) + 1] = x
    <3>1. CASE m \in Derived
      <4>1. /\ Inherited(m) = base[m] /\ base'[m] = base[m]
            /\ \A i \in 1..Len(Loaded(m)') :
                 Loaded(m)'[i] = IF i <= base'[m] THEN records'[Source(m)][i] ELSE records'[m][i - base'[m]]
        BY <1>1, <1>11, <2>1, <3>1 DEF LoadedShape, Inherited
      <4>2. ASSUME NEW i \in Nat, i = Len(mem[m]) + 1 PROVE Loaded(m)'[i] = x
        <5>1. i \in 1..Len(Loaded(m)') /\ ~(i <= base'[m]) /\ i - base'[m] = Len(records[m]) + 1
          BY <1>23, <2>3, <4>1, <4>2
        <5>2. Loaded(m)'[i] = records'[m][i - base'[m]]
          BY <4>1, <5>1
        <5> QED
          BY <1>7, <1>11, <5>1, <5>2
      <4> QED
        BY <1>23, <4>2
    <3>2. CASE m \notin Derived
      <4>1. Loaded(m)' = own /\ Inherited(m) = 0
        BY <1>11, <2>1, <3>2 DEF LoadedShape, Inherited
      <4> QED
        BY <1>1, <1>5, <1>7, <4>1
    <3> QED
      BY <3>1, <3>2
  <2> QED
    BY <2>2, <2>3, <2>4
<1>13. \A i \in 1..Len(mem[m]) : Loaded(m)'[i] = mem[m][i]
  <2> SUFFICES ASSUME NEW i \in 1..Len(mem[m]) PROVE Loaded(m)'[i] = mem[m][i]
    OBVIOUS
  <2>1. Loaded(m)'[i] = Loaded(m)[i]
    BY <1>1, <1>4, <1>11 DEF Begins
  <2>2. mem[m][i] = Loaded(m)[i]
    <3>1. Agree(Loaded(m), mem[m])
      BY <1>3, <1>4 DEF FileOK
    <3>2. i \in 1..Len(Loaded(m)) /\ i <= Len(mem[m])
      BY <1>1, <1>23
    <3> QED
      BY <3>1, <3>2 DEF Agree
  <2> QED
    BY <2>1, <2>2
<1>14. Agree(Loaded(m)', mem[m])
  BY <1>13, <1>12, <1>5 DEF Agree
<1>15. Ahead(m)'
  <2>1. x = Output(o) /\ Output(o)' = Output(o)
    BY <1>1 DEF x, Output
  <2>2. /\ Len(Loaded(m)') = Len(mem'[m]) + 1 /\ Loaded(m)'[Len(mem'[m]) + 1] = Output(o)'
        /\ at'[o] \in {"running", "failed"} /\ Mem[o] = m
    BY <1>1, <1>12, <2>1
  <2> QED
    BY <1>1, <2>2 DEF Ahead
<1>16. AllFit(Loaded(m)', m, Inherited(m), loadable.ops)
  <2> SUFFICES ASSUME NEW i \in 1..Len(Loaded(m)')
               PROVE  Fits(Loaded(m)', i, m, Inherited(m), loadable.ops)
    BY DEF AllFit
  <2>1. CASE i <= Len(mem[m])
    <3>1. /\ i \in 1..Len(mem[m]) /\ Loaded(m)'[i] = mem[m][i]
          /\ mem[m][i].role = "assistant" => i # 1
          /\ i # 1 => Loaded(m)'[i - 1] = mem[m][i - 1]
      <4>1. i \in 1..Len(mem[m]) /\ (i # 1 => i - 1 \in 1..Len(mem[m]))
        BY <1>5, <1>12, <2>1
      <4>2. mem[m][i].role = "assistant" => i # 1
        <5>1. /\ mem[m][i].role = "assistant" =>
                   i = loadable.ops[mem[m][i].op].before + 2 /\ mem[m][i].op \in Dos
          BY <1>3, <4>1, FitUnique DEF TextOK
        <5>2. \A p \in Dos : loadable.ops[p].before \in Nat
          BY <1>3, WrittenOps DEF OpsTyped, Operation
        <5> QED
          BY <5>1, <5>2
      <4> QED
        BY <1>13, <4>1, <4>2
    <3>2. Fits(mem[m], i, m, Inherited(m), loadable.ops)
      BY <1>3, <3>1 DEF TextOK, AllFit
    <3> QED
      BY <3>1, <3>2 DEF Fits
  <2>2. CASE ~(i <= Len(mem[m]))
    <3>1. i = Len(mem[m]) + 1
      BY <1>5, <1>12, <2>2
    <3>2. i = b + 2 /\ i - 1 = b + 1 /\ ~(i <= Inherited(m))
      <4>1. /\ b \in Nat /\ Len(mem[m]) = b + 1 /\ Inherited(m) \in Nat
            /\ Inherited(m) <= Len(mem[m]) /\ i = Len(mem[m]) + 1
        BY <1>3, <1>4, <1>5, <3>1
      <4> HIDE DEF b, m
      <4> QED
        BY <4>1
    <3>3. Loaded(m)'[i] = x /\ Loaded(m)'[b + 1] = Input(o)
      <4>1. b + 1 \in 1..Len(mem[m])
        <5>1. b \in Nat /\ Len(mem[m]) = b + 1
          BY <1>3, <1>4
        <5> QED
          BY <5>1
      <4>2. Loaded(m)'[b + 1] = Input(o)
        BY <1>4, <1>13, <4>1
      <4> QED
        BY <1>12, <3>1, <4>2
    <3> QED
      BY <1>1, <1>2, <1>3, <1>6, <3>2, <3>3 DEF Fits
  <2> QED
    BY <2>1, <2>2
<1>17. \A n \in Memories \ {m} : remembered'[n] = remembered[n]
  BY <1>1, <1>3 DEF TextTyped, Remember
<1>18. \A r \in remembered'[m] : r <= Len(Loaded(m)')
  <2> SUFFICES ASSUME NEW r \in remembered'[m] PROVE r <= Len(mem[m]) + 1
    BY <1>12
  <2>1. r \in remembered[m] \/ r = Len(mem[m]) + 1
    BY <1>1, <1>3 DEF TextTyped, Remember
  <2>2. CASE r \in remembered[m]
    <3>1. m \in files /\ r \in Nat /\ r <= Len(Loaded(m))
      BY <1>1, <1>3, <2>2 DEF TextTyped, FileOK
    <3>2. Len(Loaded(m)) = Len(mem[m]) /\ Len(mem[m]) \in Nat
      BY <1>1, <1>5
    <3> HIDE DEF m
    <3> QED
      BY <3>1, <3>2
  <2> QED
    BY <1>5, <2>1, <2>2
<1>19. Goes(o, "running")
  BY <1>1, <1>2 DEF Goes, ControlInv, JournalInv, JournalTyped
<1>20. KeepsRunning /\ \A p \in Dos : at[p] \in {"answered", "failed"} =>
         at'[p] \in {"answered", "failed"} \/ (Mem[p] = m /\ Len(mem[m]) <= Len(Loaded(m)'))
  BY <1>1 DEF KeepsRunning
<1>21. PlaceIn(o, "running", b, mem[m], m \in files', Loaded(m)')
  <2>1. Len(Loaded(m)) <= Len(Loaded(m)') /\ Len(Loaded(m)') \in Nat
    <3> HIDE DEF m
    <3>1. Len(Loaded(m)) = Len(mem[m]) /\ Len(Loaded(m)') = Len(mem[m]) + 1 /\ Len(mem[m]) \in Nat
      BY <1>1, <1>12, <1>23
    <3> QED
      BY <3>1
  <2> QED
    BY <1>1, <1>3, <1>5, <2>1, PlaceGrows
<1>22. files' = files \cup {m} /\ m \in files'
  BY <1>1, <1>4
<1>24. FilesStep(o)
  <2>1. \A i \in 1..Len(Loaded(m)') :
          \/ i \in 1..Len(mem[m]) /\ Loaded(m)'[i] = mem[m][i]
          \/ o \in Dos /\ Loaded(m)'[i].op = o
    <3> SUFFICES ASSUME NEW i \in 1..Len(Loaded(m)')
                 PROVE  \/ i \in 1..Len(mem[m]) /\ Loaded(m)'[i] = mem[m][i]
                        \/ o \in Dos /\ Loaded(m)'[i].op = o
      OBVIOUS
    <3>1. CASE i \in 1..Len(mem[m])
      BY <1>13, <3>1
    <3>2. CASE i \notin 1..Len(mem[m])
      <4>1. i = Len(mem[m]) + 1
        BY <1>12, <1>23, <3>2
      <4> QED
        BY <1>1, <1>6, <1>12, <4>1
    <3> QED
      BY <3>1, <3>2
  <2>2. UNCHANGED loadable
    BY <1>1 DEF recovery
  <2> QED
    BY <1>1, <1>2, <1>3, <1>11, <1>22, <2>1, <2>2 DEF FilesStep
<1> QED
  BY <1>1, <1>2, <1>3, <1>11, <1>14, <1>15, <1>16, <1>17, <1>18, <1>19, <1>20, <1>21, <1>22, <1>24, FilesData
     DEF Places

-----------------------------------------------------------------------------
\* The inductive invariant.

RecoveryInv == ControlInv /\ DataInv

(* The invariant holds of a run that begins.                                *)
LEMMA InitRecovery == Init => RecoveryInv
<1> SUFFICES ASSUME Init PROVE RecoveryInv
  OBVIOUS
<1>1. JournalInv
  BY InitJournal
<1>2. /\ files = {} /\ records = [m \in Memories |-> <<>>] /\ base = [m \in Derived |-> 0]
      /\ loadable.ops = [o \in Journaled |-> NoOperation] /\ journal = loadable.ops
      /\ up = TRUE /\ at = [o \in Ops |-> "idle"] /\ mem = [m \in Memories |-> <<>>]
      /\ remembered = [m \in Memories |-> {}] /\ stops = 0 /\ attempts = [o \in Ops |-> 0] /\ told = {}
  BY DEF Init, Begun
<1>3. Exclusive
  BY <1>2, ProgramAssumption DEF Exclusive, InFlight
<1>4. Attempts
  <2>1. Adapters \subseteq Ops /\ Adapters \subseteq Journaled /\ \A o \in Journaled : loadable.ops[o].status = "none"
    BY <1>2, KindsOfOps DEF NoOperation
  <2> QED
    BY <1>2, <2>1, ProgramAssumption DEF Attempts
<1>5. \A m \in Memories : mem[m] = <<>> /\ records[m] = <<>> /\ remembered[m] = {} /\ Len(mem[m]) = 0
  BY <1>2
<1>6. TextTyped /\ Based
  BY <1>2 DEF TextTyped, Based
<1>7. Filed
  BY <1>2, <1>5 DEF Filed, FileOK
<1>8. Forked
  <2> SUFFICES ASSUME NEW m \in Derived PROVE ForkOK(m)
    BY DEF Forked
  <2>1. m \in Memories /\ Source(m) \in Memories /\ base[m] = 0
    BY <1>2, SourceOf
  <2> QED
    BY <1>5, <2>1 DEF ForkOK
<1>9. Texts /\ AnswersSaved
  <2>1. \A m \in Memories : \A i \in 1..Len(mem[m]) : FALSE
    BY <1>5
  <2> QED
    BY <1>2, <2>1 DEF Texts, TextOK, AllFit, AnswersSaved, SaveOK
<1>10. Placed
  BY <1>2, WrittenOps DEF Placed, PlaceIn
<1>11. \A o \in Journaled : loadable.ops[o] = [status |-> "none", before |-> 0, result |-> Nothing]
  BY <1>2 DEF NoOperation
<1>12. Results
  BY <1>11, KindsOfOps DEF Results, ResultIn
<1>13. OpsAreTyped
  <2>1. [status |-> "none", before |-> 0, result |-> Nothing] \in Operation
    BY DEF Operation, Statuses
  <2> QED
    BY <1>2, <2>1 DEF OpsAreTyped, OpsTyped, NoOperation
<1> QED
  BY <1>1, <1>3, <1>4, <1>6, <1>7, <1>8, <1>9, <1>10, <1>12, <1>13 DEF RecoveryInv, ControlInv, DataInv

(* Every step keeps what the invariant says of the journal, the locks and   *)
(* the executions.                                                          *)
LEMMA NextControl == ControlInv /\ [Next]_vars => ControlInv'
BY NextJournal, NextExclusive, NextAttempts DEF ControlInv

(* Every step keeps what the invariant says of the messages and the files.  *)
LEMMA NextData == ControlInv /\ DataInv /\ [Next]_vars => DataInv'
<1> SUFFICES ASSUME ControlInv, DataInv, [Next]_vars PROVE DataInv'
  OBVIOUS
<1>1. CASE UNCHANGED vars
  BY <1>1, NothingData DEF vars, stored
<1>2. ASSUME NEW o \in Ops, OpStep(o) PROVE DataInv'
  <2>1. at[o] \in {"ready", "answered"} => o \in Written
    BY DEF ControlInv, JournalInv, PlaceExact, PlaceOK, Written
  <2>2. CASE MaterializeBase(o)
    BY <2>1, <2>2, MaterializeData DEF MaterializeBase
  <2>3. CASE Begin(o)
    BY <2>1, <2>3, BeginData DEF Begin
  <2>4. CASE Save(o)
    BY <2>1, <2>4, SaveData DEF Save
  <2> QED
    BY <1>2, <2>2, <2>3, <2>4, QuietData, CopyData, GrowingData, CheckpointData, WriteFailsData DEF OpStep
<1>3. CASE Cancel
  BY <1>3, NothingData DEF Cancel, recovery
<1>4. CASE EndStep
  <2>1. Down
    BY <1>4 DEF EndStep, EndCompleted, EndFailed, EndInterrupted, EndUnmarked, Crash
  <2>2. loadable'.ops = loadable.ops
    BY <1>4, ProcessRecords DEF ControlInv
  <2> QED
    BY <2>1, <2>2, DownData
<1>5. CASE Resume
  BY <1>5, ResumeData
<1> QED
  BY <1>1, <1>2, <1>3, <1>4, <1>5, NextSteps

(* The invariant is inductive.                                              *)
LEMMA NextRecovery == RecoveryInv /\ [Next]_vars => RecoveryInv'
BY NextControl, NextData DEF RecoveryInv

(* The invariant holds of every run, whatever its program and its crashes.  *)
LEMMA RecoveryKept == Spec => []RecoveryInv
BY InitRecovery, NextRecovery, PTL DEF Spec

-----------------------------------------------------------------------------
\* The durable answers.

\* The file of the memory of an agent.do holds its answer.
AnswerIn(o) ==
  LET i == loadable.ops[o].before + 2
  IN  /\ Mem[o] \in files /\ i <= Len(Loaded(Mem[o]))
      /\ Loaded(Mem[o])[i].op = o /\ Loaded(Mem[o])[i].role = "assistant"

AnswersExact ==
  /\ \A o \in Dos : durableAnswer[o] = IF AnswerIn(o) THEN Loaded(Mem[o])[loadable.ops[o].before + 2]
                                       ELSE Nothing
  /\ \A o \in Adapters : durableAnswer[o] = loadable.ops[o].result
  /\ \A o \in Dos \cup Adapters :
       /\ durableAnswer[o] \in Messages \cup {Nothing}
       /\ loadable.ops[o].status = "completed" =>
            durableAnswer[o] = loadable.ops[o].result /\ durableAnswer[o] # Nothing

(* The durable answer of an agent.do is where its input and it belong.      *)
LEMMA AnswerPlace ==
  ASSUME RecoveryInv, NEW o \in Dos
  PROVE  durableAnswer[o] = IF AnswerIn(o) THEN Loaded(Mem[o])[loadable.ops[o].before + 2]
                            ELSE Nothing
<1> DEFINE m == Mem[o]
           i == loadable.ops[o].before + 2
           answers == {j \in DOMAIN records[m] : records[m][j].op = o /\ records[m][j].role = "assistant"}
<1>1. /\ o \in Written /\ m \in Memories /\ o \notin Adapters /\ TextTyped /\ Based /\ FileOK(m) /\ TextOK(m)
      /\ loadable.ops[o].before \in Nat
  BY WrittenOps DEF RecoveryInv, DataInv, Filed, Texts, OpsAreTyped, OpsTyped, Operation
<1>2. durableAnswer[o] = IF answers = {} THEN Nothing ELSE records[m][CHOOSE j \in answers : TRUE]
  BY <1>1 DEF durableAnswer
<1>3. CASE m \notin files
  <2>1. records[m] = <<>>
    BY <1>1, <1>3 DEF FileOK
  <2>2. answers = {}
    BY <2>1
  <2> QED
    BY <1>2, <1>3, <2>2 DEF AnswerIn
<1>4. CASE m \in files
  <2>1. /\ Loaded(m) \in Seq(Messages) /\ Len(Loaded(m)) \in Nat /\ records[m] \in Seq(Messages)
        /\ Len(records[m]) \in Nat /\ Inherited(m) \in Nat
        /\ Len(Loaded(m)) = Inherited(m) + Len(records[m])
        /\ DOMAIN records[m] = 1..Len(records[m])
    BY <1>1, <1>4, TextKnown
  <2>2. ASSUME NEW j \in 1..Len(records[m])
        PROVE  Inherited(m) + j \in 1..Len(Loaded(m)) /\ Loaded(m)[Inherited(m) + j] = records[m][j]
    <3>1. Inherited(m) + j \in 1..Len(Loaded(m))
      BY <2>1
    <3>2. CASE m \in Derived
      <4>1. /\ Inherited(m) = base[m]
            /\ \A k \in 1..Len(Loaded(m)) :
                 Loaded(m)[k] = IF k <= base[m] THEN records[Source(m)][k] ELSE records[m][k - base[m]]
        BY <1>1, <1>4, <3>2, ShapeOfLoaded DEF LoadedShape
      <4>2. ~(Inherited(m) + j <= base[m]) /\ Inherited(m) + j - base[m] = j
        BY <2>1, <4>1
      <4>3. ASSUME NEW k \in 1..Len(Loaded(m)), k = Inherited(m) + j PROVE Loaded(m)[k] = records[m][j]
        <5>1. ~(k <= base[m]) /\ k - base[m] = j
          BY <2>1, <4>1, <4>2, <4>3
        <5>2. Loaded(m)[k] = records[m][k - base[m]]
          BY <4>1, <5>1
        <5> QED
          BY <5>1, <5>2
      <4> QED
        BY <3>1, <4>3
    <3>3. CASE m \notin Derived
      <4>1. Loaded(m) = records[m] /\ Inherited(m) = 0
        BY <1>1, <1>4, <3>3, ShapeOfLoaded DEF LoadedShape
      <4> QED
        BY <3>1, <4>1
    <3> QED
      BY <3>1, <3>2, <3>3
  <2>3. \A j \in answers : AnswerIn(o) /\ records[m][j] = Loaded(m)[i]
    <3> SUFFICES ASSUME NEW j \in 1..Len(records[m]), records[m][j].op = o,
                        records[m][j].role = "assistant"
                 PROVE  AnswerIn(o) /\ records[m][j] = Loaded(m)[i]
      BY <2>1
    <3>1. /\ Inherited(m) + j \in 1..Len(Loaded(m)) /\ Loaded(m)[Inherited(m) + j] = records[m][j]
      BY <2>2
    <3>2. AllFit(Loaded(m), m, Inherited(m), loadable.ops)
      BY <1>1, <1>4 DEF TextOK
    <3>3. Inherited(m) + j = loadable.ops[o].before + 2
      BY <3>1, <3>2, FitUnique
    <3> QED
      <4>1. i \in 1..Len(Loaded(m)) /\ Loaded(m)[i] = records[m][j]
        BY <3>1, <3>3
      <4>2. i <= Len(Loaded(m)) /\ Loaded(m)[i].op = o /\ Loaded(m)[i].role = "assistant"
        BY <2>1, <4>1
      <4> QED
        BY <1>4, <4>1, <4>2 DEF AnswerIn
  <2>4. AnswerIn(o) => answers # {}
    <3> SUFFICES ASSUME AnswerIn(o) PROVE answers # {}
      OBVIOUS
    <3>1. i \in 1..Len(Loaded(m)) /\ i \in Nat \ {0} /\ Loaded(m)[i].op = o /\ Loaded(m)[i].role = "assistant"
      <4>1. i <= Len(Loaded(m)) /\ Loaded(m)[i].op = o /\ Loaded(m)[i].role = "assistant"
        BY DEF AnswerIn
      <4>2. i \in Nat \ {0} /\ Len(Loaded(m)) \in Nat
        <5>1. loadable.ops[o].before \in Nat
          BY <1>1
        <5>2. Len(Loaded(m)) \in Nat
          BY <2>1
        <5> QED
          BY <5>1, <5>2
      <4> HIDE DEF i, m
      <4> QED
        BY <4>1, <4>2
    <3>2. Fits(Loaded(m), i, m, Inherited(m), loadable.ops)
      BY <1>1, <1>4, <3>1 DEF TextOK, AllFit
    <3>3. i > Inherited(m)
      BY <1>1, <2>1, <3>1, <3>2, OwnMessage
    <3>4. PICK j \in 1..Len(records[m]) : j = i - Inherited(m)
      <4>1. /\ i \in Nat /\ Inherited(m) \in Nat /\ Len(records[m]) \in Nat /\ Inherited(m) < i
            /\ i <= Inherited(m) + Len(records[m])
        BY <1>1, <2>1, <3>1, <3>3
      <4> HIDE DEF i, m
      <4>2. i - Inherited(m) \in 1..Len(records[m])
        BY <4>1
      <4> QED
        BY <4>2
    <3>5. Inherited(m) + j = i
      <4>1. i \in Nat /\ Inherited(m) \in Nat /\ j = i - Inherited(m)
        BY <1>1, <2>1, <3>4
      <4> HIDE DEF i, m
      <4> QED
        BY <4>1
    <3>6. records[m][j] = Loaded(m)[i]
      BY <2>2, <3>5
    <3> QED
      BY <2>1, <3>1, <3>6
  <2> HIDE DEF answers, i
  <2>5. CASE answers = {}
    BY <1>2, <2>4, <2>5
  <2>6. CASE answers # {}
    <3>1. PICK j \in answers : j = CHOOSE k \in answers : TRUE
      BY <2>6
    <3> QED
      BY <1>2, <2>3, <2>6, <3>1 DEF i
  <2> QED
    BY <2>5, <2>6
<1> QED
  BY <1>3, <1>4

(* The durable answer of an agent.do is at its place in its file, and a     *)
(* completed operation has no other.                                        *)
LEMMA AnswersKnown == RecoveryInv => AnswersExact
<1> SUFFICES ASSUME RecoveryInv PROVE AnswersExact
  OBVIOUS
<1>1. \A o \in Dos : durableAnswer[o] = IF AnswerIn(o) THEN Loaded(Mem[o])[loadable.ops[o].before + 2]
                                        ELSE Nothing
  BY AnswerPlace
<1>2. \A o \in Adapters : durableAnswer[o] = loadable.ops[o].result
  BY DEF durableAnswer
<1>3. ASSUME NEW o \in Dos
      PROVE  /\ durableAnswer[o] \in Messages \cup {Nothing}
             /\ loadable.ops[o].status = "completed" =>
                  durableAnswer[o] = loadable.ops[o].result /\ durableAnswer[o] # Nothing
  <2> DEFINE m == Mem[o]
             i == loadable.ops[o].before + 2
  <2>1. /\ m \in Memories /\ TextTyped /\ Based /\ loadable.ops[o].before \in Nat
        /\ ResultIn(o, loadable.ops[o], m \in files, Loaded(m))
    BY WrittenOps DEF RecoveryInv, DataInv, Results, OpsAreTyped, OpsTyped, Operation
  <2>2. AnswerIn(o) => Loaded(m)[i] \in Messages
    <3> SUFFICES ASSUME AnswerIn(o) PROVE Loaded(m)[i] \in Messages
      OBVIOUS
    <3>1. Loaded(m) \in Seq(Messages) /\ i \in 1..Len(Loaded(m))
      BY <2>1, TextKnown DEF AnswerIn
    <3> QED
      BY <3>1
  <2>3. loadable.ops[o].status = "completed" => AnswerIn(o) /\ loadable.ops[o].result = Loaded(m)[i]
    BY <2>1 DEF ResultIn, AnswerIn
  <2> QED
    BY <1>1, <2>2, <2>3, NothingAssumption
<1>4. ASSUME NEW o \in Adapters
      PROVE  /\ durableAnswer[o] \in Messages \cup {Nothing}
             /\ loadable.ops[o].status = "completed" =>
                  durableAnswer[o] = loadable.ops[o].result /\ durableAnswer[o] # Nothing
  <2>1. o \in Journaled /\ OpsTyped(loadable.ops) /\ Results
    BY KindsOfOps DEF RecoveryInv, DataInv, OpsAreTyped
  <2> QED
    BY <1>2, <2>1, NothingAssumption DEF OpsTyped, Operation, Results
<1> QED
  BY <1>1, <1>2, <1>3, <1>4 DEF AnswersExact

(* The same after a step.                                                   *)
LEMMA NextAnswersKnown == RecoveryInv' => AnswersExact'
BY AnswersKnown, PTL

-----------------------------------------------------------------------------
\* Answered once.

(* A file that is written to adds no answer but that of its writer, and     *)
(* loses none.                                                              *)
LEMMA FilesAnswer ==
  ASSUME RecoveryInv, AnswersExact, AnswersExact', RecoveryInv', NEW o \in Ops, OpStep(o), FilesStep(o), NEW p \in Dos
  PROVE  /\ p # o => durableAnswer'[p] = durableAnswer[p]
         /\ durableAnswer[p] # Nothing => durableAnswer'[p] = durableAnswer[p]
<1> DEFINE i == loadable.ops[p].before + 2
<1>1. p \in Written /\ p \in Ops /\ p \notin Adapters /\ Mem[p] \in Memories
  BY WrittenOps
<1>2. CASE UNCHANGED <<files, records>>
  <2>1. durableAnswer'[p] = durableAnswer[p]
    BY <1>1, <1>2 DEF durableAnswer
  <2> QED
    BY <2>1
<1>3. ASSUME NEW m \in Memories,
             UNCHANGED loadable, up, o \in Written, InFlight(o),
             files' = files \cup {m}, \A n \in Memories \ {m} : records'[n] = records[n],
             m \in files => Begins(Loaded(m), Loaded(m)') /\ Mem[o] = m,
             \A j \in 1..Len(Loaded(m)') :
               \/ j \in 1..Len(mem[m]) /\ Loaded(m)'[j] = mem[m][j]
               \/ o \in Dos /\ Loaded(m)'[j].op = o
      PROVE  /\ p # o => durableAnswer'[p] = durableAnswer[p]
             /\ durableAnswer[p] # Nothing => durableAnswer'[p] = durableAnswer[p]
  <2>1. CASE Mem[p] # m
    <3>1. records'[Mem[p]] = records[Mem[p]]
      BY <1>1, <1>3, <2>1
    <3>2. durableAnswer'[p] = durableAnswer[p]
      <4> DEFINE AnswerOf(text) ==
                   LET answers == {j \in DOMAIN text : text[j].op = p /\ text[j].role = "assistant"}
                   IN  IF answers = {} THEN Nothing ELSE text[CHOOSE j \in answers : TRUE]
      <4>1. durableAnswer[p] = AnswerOf(records[Mem[p]])
        BY <1>1 DEF durableAnswer
      <4>2. durableAnswer'[p] = AnswerOf(records'[Mem[p]])
        BY <1>1 DEF durableAnswer
      <4> HIDE DEF AnswerOf
      <4> QED
        BY <3>1, <4>1, <4>2
    <3> QED
      BY <3>2
  <2>2. CASE Mem[p] = m
    <3>1. /\ durableAnswer[p] = IF AnswerIn(p) THEN Loaded(m)[i] ELSE Nothing
          /\ durableAnswer'[p] = IF AnswerIn(p)' THEN Loaded(m)'[i] ELSE Nothing
      BY <1>3, <2>2 DEF AnswersExact
    <3>2. /\ TextTyped /\ Based /\ TextOK(m) /\ SaveOK(m) /\ OpsTyped(loadable.ops)
          /\ i \in Nat \ {0}
          /\ mem[m] \in Seq(Messages) /\ Len(mem[m]) \in Nat /\ Inherited(m) \in Nat
          /\ m \in files => Len(Loaded(m)) \in Nat
      <4>1. TextTyped /\ Based /\ TextOK(m) /\ SaveOK(m) /\ OpsTyped(loadable.ops)
        BY DEF RecoveryInv, DataInv, Texts, AnswersSaved, OpsAreTyped
      <4>2. loadable.ops[p].before \in Nat
        BY <1>1, <4>1 DEF OpsTyped, Operation, Written
      <4>3. i \in Nat \ {0}
        BY <4>2
      <4> QED
        BY <4>1, <4>3, TextKnown
    <3>3. m \in files' /\ Loaded(m)' \in Seq(Messages)
      <4>1. (TextTyped /\ Based)'
        BY DEF RecoveryInv, DataInv
      <4>2. LoadedShape'
        BY <4>1, NextShape
      <4> QED
        BY <1>3, <4>2 DEF LoadedShape
    <3>4. Len(Loaded(m)') \in Nat
      BY <3>3, LenProperties
    <3>5. AnswerIn(p) <=> /\ m \in files /\ i \in 1..Len(Loaded(m)) /\ Loaded(m)[i].op = p
                          /\ Loaded(m)[i].role = "assistant"
      BY <2>2, <3>2 DEF AnswerIn
    <3>6. AnswerIn(p)' <=> /\ m \in files' /\ i \in 1..Len(Loaded(m)') /\ Loaded(m)'[i].op = p
                           /\ Loaded(m)'[i].role = "assistant"
      BY <1>3, <2>2, <3>2, <3>4 DEF AnswerIn
    <3>7. AnswerIn(p) => AnswerIn(p)' /\ Loaded(m)'[i] = Loaded(m)[i]
      BY <1>3, <3>2, <3>3, <3>4, <3>5, <3>6 DEF Begins
    <3>8. ASSUME p # o, AnswerIn(p)' PROVE AnswerIn(p)
      <4>1. i \in 1..Len(mem[m]) /\ Loaded(m)'[i] = mem[m][i]
        BY <1>3, <3>6, <3>8
      <4>2. mem[m][i].op = p /\ mem[m][i].role = "assistant"
        BY <3>6, <3>8, <4>1
      <4>3. Fits(mem[m], i, m, Inherited(m), loadable.ops)
        BY <3>2, <4>1 DEF TextOK, AllFit
      <4>4. i > Inherited(m)
        BY <1>1, <2>2, <3>2, <4>2, <4>3, OwnMessage
      <4>5. m \in files /\ (i <= Len(Loaded(m)) \/ at[p] \in {"answered", "failed"})
        BY <3>2, <4>1, <4>2, <4>4 DEF SaveOK
      <4>6. at[p] \in {"idle", "returned"}
        BY <1>1, <1>3, <2>2, <3>8, <4>5, AtWork DEF RecoveryInv
      <4>7. i \in 1..Len(Loaded(m))
        BY <3>2, <4>5, <4>6
      <4>8. Loaded(m)[i] = Loaded(m)'[i]
        BY <1>3, <4>5, <4>7 DEF Begins
      <4> QED
        BY <3>5, <4>1, <4>2, <4>5, <4>7, <4>8
    <3> QED
      BY <3>1, <3>7, <3>8
  <2> QED
    BY <2>1, <2>2
<1> QED
  BY <1>2, <1>3 DEF FilesStep

(* A step of an operation adds at most its own durable answer, once.        *)
LEMMA OneAnswer ==
  ASSUME RecoveryInv, RecoveryInv', AnswersExact, AnswersExact', NEW o \in Ops, OpStep(o)
  PROVE  \A p \in Dos \cup Adapters :
           /\ p # o => durableAnswer'[p] = durableAnswer[p]
           /\ durableAnswer[p] # Nothing => durableAnswer'[p] = durableAnswer[p]
<1>1. FilesStep(o)
  <2>1. at[o] \in {"ready", "answered"} => o \in Written
    BY DEF RecoveryInv, ControlInv, JournalInv, PlaceExact, PlaceOK, Written
  <2>2. CASE MaterializeBase(o)
    BY <2>1, <2>2, MaterializeData DEF MaterializeBase, RecoveryInv
  <2>3. CASE Begin(o)
    BY <2>1, <2>3, BeginData DEF Begin, RecoveryInv
  <2>4. CASE Save(o)
    BY <2>1, <2>4, SaveData DEF Save, RecoveryInv
  <2>5. CASE Checkpoint(o) \/ WriteFails(o)
    BY <2>5, CheckpointData, WriteFailsData DEF RecoveryInv
  <2>6. CASE \/ Prepare(o) \/ Copy(o) \/ Replay(o) \/ Admit(o) \/ ResumeInput(o) \/ Reconcile(o)
             \/ AppendMessage(o) \/ FindMessage(o) \/ Mismatch(o) \/ BaseMissing(o) \/ Answer(o)
             \/ Complete(o) \/ MarkAmbiguous(o) \/ CallAdapter(o) \/ AdapterReturns(o) \/ FailOp(o)
             \/ JournalFails(o)
    <3>1. UNCHANGED <<files, records>>
      BY <2>6 DEF Prepare, Copy, Replay, Admit, ResumeInput, Reconcile, AppendMessage, FindMessage, Mismatch,
         BaseMissing, Answer, Complete, MarkAmbiguous, CallAdapter, AdapterReturns, FailOp, JournalFails, stored
    <3> QED
      BY <3>1 DEF FilesStep
  <2> QED
    BY <2>2, <2>3, <2>4, <2>5, <2>6 DEF OpStep
<1>2. ASSUME NEW p \in Adapters
      PROVE  /\ p # o => durableAnswer'[p] = durableAnswer[p]
             /\ durableAnswer[p] # Nothing => durableAnswer'[p] = durableAnswer[p]
  <2>1. durableAnswer[p] = loadable.ops[p].result /\ durableAnswer'[p] = loadable'.ops[p].result
    BY DEF AnswersExact
  <2>2. p \in Journaled /\ DOMAIN loadable.ops = Journaled
    BY KindsOfOps DEF RecoveryInv, ControlInv, JournalInv, JournalTyped
  <2>3. Records(o)
    BY WhatItRecords DEF RecoveryInv, ControlInv
  <2>4. p # o => loadable'.ops[p] = loadable.ops[p]
    BY <2>2, <2>3 DEF Records, RecordsOn
  <2>5. durableAnswer[p] # Nothing => loadable.ops[p].status = "completed"
    BY <2>1, <2>2 DEF RecoveryInv, DataInv, Results
  <2>6. Grows(loadable.ops, loadable'.ops)
    BY <2>3, RecordsGrow DEF RecoveryInv, ControlInv
  <2> QED
    BY <2>1, <2>2, <2>4, <2>5, <2>6 DEF Grows
<1> QED
  BY <1>1, <1>2, FilesAnswer

(* The program is told the durable answer.                                  *)
LEMMA ToldAnswer ==
  ASSUME RecoveryInv, RecoveryInv', AnswersExact, AnswersExact', NEW o \in Ops, OpStep(o)
  PROVE  \/ told' = told
         \/ /\ o \in Dos \cup Adapters /\ durableAnswer'[o] # Nothing
            /\ told' = told \cup {<<o, durableAnswer'[o]>>}
<1>1. /\ PlaceOK(o, at[o], journal[o])
      /\ o \in Journaled /\ at[o] # "failed" => loadable.ops[o] = journal[o]
      /\ o \in Journaled => DOMAIN loadable.ops[o] = {"status", "before", "result"}
      /\ Dos \cup Adapters \subseteq Journaled /\ Dos \cap Adapters = {}
      /\ Kind[o] = "do" <=> o \in Dos
      /\ Kind[o] = "adapter" <=> o \in Adapters
  BY KindsOfOps DEF RecoveryInv, ControlInv, JournalInv, JournalTyped, PlaceExact, KnownExact, Dos, Adapters
<1>2. \A p \in Dos \cup Adapters : loadable'.ops[p].status = "completed" =>
        durableAnswer'[p] = loadable'.ops[p].result /\ durableAnswer'[p] # Nothing
  BY DEF AnswersExact
<1>3. CASE Replay(o)
  <2>1. /\ o \in Dos \cup Adapters /\ o \in Journaled /\ loadable.ops[o] = journal[o]
        /\ loadable' = loadable /\ journal[o].status = "completed"
        /\ told' = told \cup {<<o, journal[o].result>>}
    BY <1>1, <1>3 DEF Replay, recovery
  <2> QED
    BY <1>2, <2>1
<1>4. CASE Complete(o)
  <2>1. CASE o \in Dos \cup Adapters
    <3>1. /\ o \in Journaled /\ loadable.ops[o] = journal[o] /\ journal[o].status # "completed"
          /\ Write(Completed(o)) /\ told' = told \cup {<<o, Completed(o).result>>}
      BY <1>1, <1>4, <2>1 DEF Complete, PlaceOK
    <3>2. loadable'.ops[o] = Updated(loadable.ops[o], Completed(o))
      <4>1. loadable'.ops = [loadable.ops EXCEPT ![o] = Updated(@, Completed(o))]
        BY <3>1, RecordShapes, DurableOps DEF Write, RecoveryInv, ControlInv
      <4>2. o \in DOMAIN loadable.ops
        BY <3>1 DEF RecoveryInv, ControlInv, JournalInv, JournalTyped
      <4> QED
        BY <4>1, <4>2
    <3>3. loadable'.ops[o].status = "completed" /\ loadable'.ops[o].result = Completed(o).result
      <4>1. Completed(o).type = "completed" /\ OfOperation(Completed(o))
        BY RecordShapes
      <4>2. DOMAIN loadable.ops[o] = {"status", "before", "result"}
        BY <1>1, <3>1
      <4> QED
        BY <3>2, <4>1, <4>2, UpdatedFields
    <3> QED
      BY <1>2, <2>1, <3>1, <3>3
  <2>2. CASE o \notin Dos \cup Adapters
    BY <1>1, <1>4, <2>2 DEF Complete
  <2> QED
    BY <2>1, <2>2
<1>5. CASE ~Replay(o) /\ ~Complete(o)
  BY <1>5 DEF OpStep, Prepare, Copy, Admit, ResumeInput, Reconcile, AppendMessage, FindMessage, Mismatch,
     MaterializeBase, BaseMissing, Begin, Checkpoint, Answer, Save, MarkAmbiguous, CallAdapter,
     AdapterReturns, FailOp, WriteFails, JournalFails
<1> QED
  BY <1>3, <1>4, <1>5

(* A step of the recovery gives one operation its answer, or tells the      *)
(* program an answer that is durable, or is none of AnswerOnce.             *)
LEMMA NextOnce ==
  ASSUME RecoveryInv, RecoveryInv', AnswersExact, AnswersExact', [Next]_vars
  PROVE  [Once!Next]_<<durableAnswer, told>>
<1>1. /\ durableAnswer = [o \in Dos \cup Adapters |-> durableAnswer[o]]
      /\ durableAnswer' = [o \in Dos \cup Adapters |-> durableAnswer'[o]]
  BY DEF durableAnswer
<1>2. ASSUME NEW o \in Ops, OpStep(o) PROVE [Once!Next]_<<durableAnswer, told>>
  <2>1. \A p \in Dos \cup Adapters :
           /\ p # o => durableAnswer'[p] = durableAnswer[p]
           /\ durableAnswer[p] # Nothing => durableAnswer'[p] = durableAnswer[p]
    BY <1>2, OneAnswer
  <2>2. \/ told' = told
        \/ /\ o \in Dos \cup Adapters /\ durableAnswer'[o] # Nothing
           /\ told' = told \cup {<<o, durableAnswer'[o]>>}
    BY <1>2, ToldAnswer
  <2>3. CASE durableAnswer' = durableAnswer
    BY <2>2, <2>3 DEF Once!Next, Once!Tell
  <2>4. CASE durableAnswer' # durableAnswer
    <3>1. o \in Dos \cup Adapters /\ durableAnswer'[o] # durableAnswer[o]
      BY <1>1, <2>1, <2>4
    <3>2. durableAnswer[o] = Nothing /\ durableAnswer'[o] \in Messages
      BY <2>1, <3>1 DEF AnswersExact
    <3>3. durableAnswer' = [durableAnswer EXCEPT ![o] = durableAnswer'[o]]
      BY <1>1, <2>1, <3>1
    <3>4. Once!Decide(o)
      BY <3>2, <3>3 DEF Once!Decide
    <3> QED
      BY <2>2, <3>1, <3>4 DEF Once!Next, Once!Tell
  <2> QED
    BY <2>3, <2>4
<1>3. ASSUME UNCHANGED <<records, told>>, loadable'.ops = loadable.ops
      PROVE  UNCHANGED <<durableAnswer, told>>
  BY <1>3 DEF durableAnswer
<1>4. CASE Cancel \/ EndStep \/ Resume \/ UNCHANGED vars
  <2>1. UNCHANGED <<records, told>>
    BY <1>4 DEF vars, Cancel, Resume, stored, EndStep, EndCompleted, EndFailed, EndInterrupted, EndUnmarked,
       Crash, Down
  <2>2. loadable'.ops = loadable.ops
    BY <1>4, ProcessRecords DEF vars, RecoveryInv, ControlInv
  <2> QED
    BY <1>3, <2>1, <2>2
<1> QED
  BY <1>2, <1>4, NextSteps

(* An agent that is executed has no answer yet.                             *)
LEMMA NextNeverRepeated ==
  ASSUME RecoveryInv, RecoveryInv', AnswersExact, [Next]_vars
  PROVE  [/\ \A o \in Dos : durableAnswer[o] # Nothing => attempts'[o] = attempts[o]
          /\ \A o \in Adapters : attempts'[o] <= 1]_vars
<1>1. \A o \in Adapters : attempts'[o] <= 1
  BY DEF RecoveryInv, ControlInv, Attempts
<1>2. ASSUME NEW o \in Ops, OpStep(o), NEW p \in Dos, durableAnswer[p] # Nothing
      PROVE  attempts'[p] = attempts[p]
  <2>1. p \in Written /\ p \in Ops /\ p \notin Adapters /\ Mem[p] \in Memories /\ attempts \in [Ops -> Nat]
        /\ p \in Journaled
    BY WrittenOps DEF RecoveryInv, ControlInv, Attempts
  <2>2. CASE Begin(o)
    <3>1. p # o
      <4> SUFFICES ASSUME p = o PROVE FALSE
        OBVIOUS
      <4>1. /\ PlaceIn(o, "ready", loadable.ops[o].before, mem[Mem[o]], Mem[o] \in files, Loaded(Mem[o]))
            /\ loadable.ops[o].before \in Nat
        BY <2>1, <2>2, AtWork DEF Begin, InFlight, RecoveryInv
      <4>2. Mem[o] \in files => Len(Loaded(Mem[o])) <= Len(mem[Mem[o]])
        BY <2>1, <2>2, NotAhead DEF Begin, InFlight, RecoveryInv
      <4>3. AnswerIn(o)
        BY <1>2 DEF AnswersExact
      <4>4. Mem[o] \in files => Len(Loaded(Mem[o])) \in Nat
        BY <2>1, TextKnown DEF RecoveryInv, DataInv
      <4> QED
        BY <4>1, <4>2, <4>3, <4>4 DEF PlaceIn, AnswerIn
    <3> QED
      BY <2>1, <2>2, <3>1 DEF Begin
  <2>3. CASE CallAdapter(o)
    BY <2>1, <2>3 DEF CallAdapter
  <2>4. CASE ~Begin(o) /\ ~CallAdapter(o)
    BY <1>2, <2>4 DEF OpStep, Prepare, Copy, Replay, Admit, ResumeInput, Reconcile, AppendMessage, FindMessage,
       Mismatch, MaterializeBase, BaseMissing, Checkpoint, Answer, Save, Complete, MarkAmbiguous,
       AdapterReturns, FailOp, WriteFails, JournalFails
  <2> QED
    BY <2>2, <2>3, <2>4
<1>3. CASE Cancel \/ EndStep \/ Resume \/ UNCHANGED vars
  BY <1>1, <1>3 DEF vars, Cancel, Resume, EndStep, EndCompleted, EndFailed, EndInterrupted, EndUnmarked,
     Crash, Down
<1> QED
  BY <1>1, <1>2, <1>3, NextSteps

-----------------------------------------------------------------------------
(* An agent whose answer is durable is not executed again, and no adapter   *)
(* is called twice (agent.do and the adapter calls of src/src/vm.ts), for   *)
(* every program and any number of processes that stop.                     *)
THEOREM ExecutedUntilAnswered == Spec => NeverRepeated
<1>1. RecoveryInv /\ RecoveryInv' /\ AnswersExact /\ [Next]_vars =>
        [/\ \A o \in Dos : durableAnswer[o] # Nothing => attempts'[o] = attempts[o]
         /\ \A o \in Adapters : attempts'[o] <= 1]_vars
  BY NextNeverRepeated
<1> QED
  BY <1>1, RecoveryKept, AnswersKnown, PTL DEF Spec, NeverRepeated

(* The recovery implements AnswerOnce: however often the program is         *)
(* executed, each agent.do and each call of an adapter has one durable      *)
(* answer, and the program is told that one (src/src/vm.ts,                 *)
(* src/src/recovery.ts).                                                    *)
THEOREM EveryOperationAnsweredOnce == Spec => AnsweredOnce
<1>1. Init => Once!Init
  <2> SUFFICES ASSUME Init PROVE Once!Init
    OBVIOUS
  <2>1. told = {} /\ records = [m \in Memories |-> <<>>] /\ loadable.ops = [o \in Journaled |-> NoOperation]
    BY DEF Init, Begun
  <2>2. ASSUME NEW o \in Dos \cup Adapters PROVE durableAnswer[o] = Nothing
    <3>1. CASE o \in Adapters
      BY <2>1, <3>1, KindsOfOps DEF durableAnswer, NoOperation
    <3>2. CASE o \in Dos /\ o \notin Adapters
      <4>1. Mem[o] \in Memories
        BY <3>2, WrittenOps
      <4>2. records[Mem[o]] = <<>>
        BY <2>1, <4>1
      <4>3. {i \in DOMAIN records[Mem[o]] : /\ records[Mem[o]][i].op = o
                                            /\ records[Mem[o]][i].role = "assistant"} = {}
        BY <4>2
      <4> QED
        BY <3>2, <4>3 DEF durableAnswer
    <3> QED
      BY <3>1, <3>2
  <2>3. durableAnswer = [o \in Dos \cup Adapters |-> durableAnswer[o]]
    BY DEF durableAnswer
  <2> QED
    BY <2>1, <2>2, <2>3 DEF Once!Init
<1>2. RecoveryInv /\ RecoveryInv' /\ AnswersExact /\ AnswersExact' /\ [Next]_vars =>
        [Once!Next]_<<durableAnswer, told>>
  BY NextOnce
<1> QED
  BY <1>1, <1>2, RecoveryKept, AnswersKnown, PTL DEF Spec, AnsweredOnce, Once!Spec

-----------------------------------------------------------------------------
\* Operations in order.

\* The values that the run's own fields take.
RunTyped ==
  /\ loadable.status \in {"running", "interrupted", "completed", "failed"}
  /\ status \in {"running", "interrupted", "completed", "failed"}
  /\ sick \subseteq {"journal", "memory"}
  /\ failing \in {"no", "recoverable", "fatal"}

(* The fields of a run that begins have their types.                        *)
LEMMA InitRunTyped == Init => RunTyped
BY DEF Init, Begun, RunTyped

(* Every step keeps the types of the run's own fields.                      *)
LEMMA NextRunTyped == ControlInv /\ RunTyped /\ [Next]_vars => RunTyped'
<1> SUFFICES ASSUME ControlInv, RunTyped, [Next]_vars PROVE RunTyped'
  OBVIOUS
<1>1. CASE UNCHANGED vars
  BY <1>1 DEF vars, RunTyped
<1>2. /\ DOMAIN loadable = {"valid", "status", "attempt", "ops"}
      /\ DOMAIN loadable.ops = Journaled
      /\ up => loadable.status = "running"
  BY DEF ControlInv, JournalInv, JournalTyped, KnownExact
<1>3. ASSUME NEW r, Durable(r), r.type \in {"prepared", "interrupted", "ambiguous", "completed"}
      PROVE  loadable'.status = loadable.status
  BY <1>2, <1>3 DEF Durable, Applied
<1>4. ASSUME NEW end, Durable(Marked(end)) PROVE loadable'.status = end
  BY <1>2, <1>4 DEF Durable, Applied, Marked
<1>5. ASSUME NEW o \in Ops, OpStep(o) PROVE RunTyped'
  <2>1. UNCHANGED status
    BY <1>5 DEF OpStep, Prepare, Copy, Replay, Admit, ResumeInput, Reconcile, AppendMessage, FindMessage,
       Mismatch, MaterializeBase, BaseMissing, Begin, Checkpoint, Answer, Save, Complete, MarkAmbiguous,
       CallAdapter, AdapterReturns, FailOp, WriteFails, JournalFails, recovery
  <2>2. sick' \subseteq {"journal", "memory"}
    BY <1>5 DEF OpStep, Prepare, Copy, Replay, Admit, ResumeInput, Reconcile, AppendMessage, FindMessage,
       Mismatch, MaterializeBase, BaseMissing, Begin, Checkpoint, Answer, Save, Complete, MarkAmbiguous,
       CallAdapter, AdapterReturns, FailOp, WriteFails, JournalFails, RunTyped
  <2>3. failing' \in {"no", "recoverable", "fatal"}
    BY <1>5 DEF OpStep, Prepare, Copy, Replay, Admit, ResumeInput, Reconcile, AppendMessage, FindMessage,
       Mismatch, MaterializeBase, BaseMissing, Begin, Checkpoint, Answer, Save, Complete, MarkAmbiguous,
       CallAdapter, AdapterReturns, FailOp, WriteFails, JournalFails, RunTyped, Fails
  <2>4. loadable'.status = loadable.status
    <3>1. CASE loadable' = loadable
      BY <3>1
    <3>2. CASE loadable' # loadable
      <4>1. \/ Durable(Prepared(o)) \/ Durable(Completed(o)) \/ Durable(Interrupted(o))
            \/ Durable(Ambiguous(o))
        BY <1>5, <3>2 DEF OpStep, Prepare, Copy, Replay, Admit, ResumeInput, Reconcile, AppendMessage,
           FindMessage, Mismatch, MaterializeBase, BaseMissing, Begin, Checkpoint, Answer, Save, Complete,
           MarkAmbiguous, CallAdapter, AdapterReturns, FailOp, WriteFails, JournalFails, recovery, Write, Torn
      <4> QED
        BY <1>3, <4>1, RecordShapes
    <3> QED
      BY <3>1, <3>2
  <2> QED
    BY <2>1, <2>2, <2>3, <2>4 DEF RunTyped
<1>6. CASE Cancel
  BY <1>6 DEF Cancel, RunTyped, recovery
<1>7. CASE EndStep
  <2>1. /\ sick' = {} /\ failing' = "no" /\ status' = loadable'.status
    BY <1>7 DEF EndStep, EndCompleted, EndFailed, EndInterrupted, EndUnmarked, Crash, Down
  <2>2. \/ loadable' = loadable
        \/ \E end \in {"interrupted", "completed", "failed"} : Durable(Marked(end))
    BY <1>7 DEF EndStep, EndCompleted, EndFailed, EndInterrupted, EndUnmarked, Crash, Torn, End
  <2>3. loadable'.status \in {"running", "interrupted", "completed", "failed"}
    BY <1>4, <2>2 DEF RunTyped
  <2> QED
    BY <2>1, <2>3 DEF RunTyped
<1>8. CASE Resume
  <2>1. loadable'.status = "running"
    BY <1>2, <1>8 DEF Resume, Durable, Applied, Resumed
  <2> QED
    BY <1>8, <2>1 DEF Resume, RunTyped
<1> QED
  BY <1>1, <1>5, <1>6, <1>7, <1>8, NextSteps

(* The run's own fields have their types in every state.                    *)
LEMMA RunTypedKept == Spec => []RunTyped
<1>1. ControlInv /\ RunTyped /\ [Next]_vars => RunTyped'
  BY NextRunTyped
<1>2. RecoveryInv => ControlInv
  BY DEF RecoveryInv
<1> QED
  BY <1>1, <1>2, InitRunTyped, RecoveryKept, PTL DEF Spec

-----------------------------------------------------------------------------
\* An operation begins after those it waits for, in its memory too; and in a
\* memory that is no copy it begins where one of them has ended.
BeginsAfter(o, ops) ==
  ops[o].status # "none" =>
    /\ \A p \in After[o] \cap Written :
         /\ ops[p].status = "completed"
         /\ Mem[p] = Mem[o] => ops[p].before + Leaves(p) <= ops[o].before
    /\ Mem[o] \notin Derived /\ ops[o].before > 0 =>
         \E p \in After[o] \cap Written :
           Mem[p] = Mem[o] /\ ops[p].before + Leaves(p) = ops[o].before
InOrder == \A o \in Written : BeginsAfter(o, loadable.ops)

(* An operation that has begun stays where it is among the others.          *)
LEMMA BeginsAfterGrows ==
  ASSUME NEW ops, NEW next, Grows(ops, next), NEW o \in Written, BeginsAfter(o, ops),
         ops[o].status # "none"
  PROVE  BeginsAfter(o, next)
<1>1. next[o].before = ops[o].before
  BY DEF Grows, Written
<1>2. \A p \in After[o] \cap Written : ops[p].status = "completed" /\ next[p] = ops[p]
  BY DEF BeginsAfter, Grows, Written
<1> QED
  BY <1>1, <1>2 DEF BeginsAfter

(* Where a message is says whose it is.                                     *)
LEMMA MessageOf ==
  ASSUME RecoveryInv, NEW m \in Memories \ Derived, NEW i \in 1..Len(mem[m])
  PROVE  LET q == mem[m][i].op
         IN  /\ q \in Written /\ Mem[q] = m /\ loadable.ops[q].status # "none"
             /\ loadable.ops[q].before \in Nat
             /\ i > loadable.ops[q].before /\ i <= loadable.ops[q].before + Leaves(q)
             /\ i = loadable.ops[q].before + 1 => mem[m][i] = Input(q)
             /\ i = loadable.ops[q].before + 2 => mem[m][i].role = "assistant"
<1> DEFINE q == mem[m][i].op
<1>1. Fits(mem[m], i, m, Inherited(m), loadable.ops) /\ Inherited(m) = 0 /\ OpsTyped(loadable.ops)
  BY DEF RecoveryInv, DataInv, Texts, TextOK, AllFit, Inherited, OpsAreTyped
<1>2. Len(mem[m]) \in Nat
  BY TextKnown DEF RecoveryInv, DataInv
<1>3. /\ q \in Written /\ Mem[q] = m /\ loadable.ops[q].status # "none"
      /\ \/ mem[m][i] = Input(q) /\ i = loadable.ops[q].before + 1
         \/ q \in Dos /\ mem[m][i].role = "assistant" /\ i = loadable.ops[q].before + 2
  BY <1>1, <1>2 DEF Fits
<1>4. loadable.ops[q].before \in Nat
  BY <1>1, <1>3, WrittenOps DEF OpsTyped, Operation
<1> QED
  BY <1>3, <1>4 DEF Leaves

(* What o has waited for, it finds in its memory.                           *)
LEMMA ReturnedBefore ==
  ASSUME RecoveryInv, NEW p \in Written, at[p] = "returned"
  PROVE  /\ loadable.ops[p].status = "completed" /\ loadable.ops[p].before \in Nat
         /\ loadable.ops[p].before + Leaves(p) <= Len(mem[Mem[p]])
<1>1. p \in Journaled /\ p \in Ops
  BY WrittenOps
<1>2. PlaceOK(p, "returned", journal[p]) /\ loadable.ops[p] = journal[p]
  BY <1>1 DEF RecoveryInv, ControlInv, JournalInv, PlaceExact, KnownExact
<1>3. PlaceIn(p, "returned", loadable.ops[p].before, mem[Mem[p]], Mem[p] \in files, Loaded(Mem[p]))
  BY DEF RecoveryInv, DataInv, Placed
<1>4. loadable.ops[p].before \in Nat
  BY <1>1 DEF RecoveryInv, DataInv, OpsAreTyped, OpsTyped, Operation
<1> QED
  BY <1>1, <1>2, <1>3, <1>4 DEF PlaceOK, PlaceIn

(* An operation begins where one that it has waited for has ended.          *)
LEMMA BeginsInOrder ==
  ASSUME Ordered, RecoveryInv, InOrder, NEW o \in Written, Launch(o), loadable.ops[o].status = "none",
         NEW next, next = [loadable.ops EXCEPT ![o] = Updated(@, Prepared(o))]
  PROVE  BeginsAfter(o, next)
<1> DEFINE m == Mem[o]
           n == Len(mem[m])
<1>1. /\ o \in Journaled /\ o \in Ops /\ o \notin Adapters /\ m \in Memories
      /\ DOMAIN loadable.ops = Journaled
  BY WrittenOps DEF RecoveryInv, ControlInv, JournalInv, JournalTyped
<1>2. n \in Nat
  BY <1>1, TextKnown DEF RecoveryInv, DataInv
<1>3. next[o].before = n /\ \A p \in Written \ {o} : next[p] = loadable.ops[p]
  BY <1>1 DEF Updated, Prepared, Revision, Written
<1>4. \A p \in After[o] \cap Written :
        /\ p # o /\ loadable.ops[p].status = "completed" /\ loadable.ops[p].before \in Nat
        /\ Mem[p] = m => loadable.ops[p].before + Leaves(p) <= n
  BY ReturnedBefore DEF Launch
<1>5. ASSUME m \notin Derived, n > 0
      PROVE  \E p \in After[o] \cap Written : Mem[p] = m /\ loadable.ops[p].before + Leaves(p) = n
  <2> DEFINE q == mem[m][n].op
  <2>1. n \in 1..Len(mem[m]) /\ m \in Memories \ Derived
    BY <1>1, <1>2, <1>5
  <2>2. /\ q \in Written /\ Mem[q] = m /\ loadable.ops[q].status # "none"
        /\ loadable.ops[q].before \in Nat /\ n <= loadable.ops[q].before + Leaves(q)
    BY <2>1, MessageOf
  <2>3. q # o
    BY <2>2
  <2>4. o \notin After[q]
    BY <2>2 DEF InOrder, BeginsAfter
  <2>5. q \in After[o]
    BY <1>5, <2>2, <2>3, <2>4 DEF Ordered, Written
  <2>6. loadable.ops[q].before + Leaves(q) <= n /\ Leaves(q) \in Nat
    BY <1>4, <2>2, <2>5 DEF Leaves
  <2>7. loadable.ops[q].before + Leaves(q) = n
    <3>1. /\ n \in Nat /\ loadable.ops[q].before \in Nat /\ Leaves(q) \in Nat
          /\ n <= loadable.ops[q].before + Leaves(q) /\ loadable.ops[q].before + Leaves(q) <= n
      BY <1>2, <2>2, <2>6
    <3> HIDE DEF n, q
    <3> QED
      BY <3>1
  <2> QED
    BY <2>2, <2>5, <2>7
<1>6. \A p \in After[o] \cap Written : next[p] = loadable.ops[p]
  BY <1>3, <1>4
<1> HIDE DEF n
<1> QED
  BY <1>3, <1>4, <1>5, <1>6 DEF BeginsAfter

(* Every step lets the operations of a memory that is no copy follow one    *)
(* another without a gap.                                                   *)
LEMMA NextInOrder ==
  ASSUME Ordered, RecoveryInv, InOrder, [Next]_vars
  PROVE  InOrder'
<1> SUFFICES ASSUME NEW o \in Written PROVE BeginsAfter(o, loadable'.ops)
  BY DEF InOrder
<1>1. BeginsAfter(o, loadable.ops) /\ o \in Journaled /\ o \in Ops
  BY WrittenOps DEF InOrder
<1>2. CASE loadable.ops[o].status # "none"
  BY <1>1, <1>2, NextGrows, BeginsAfterGrows DEF RecoveryInv, ControlInv
<1>3. CASE loadable.ops[o].status = "none"
  <2>1. CASE loadable'.ops[o] = loadable.ops[o]
    BY <1>3, <2>1 DEF BeginsAfter
  <2>2. CASE loadable'.ops[o] # loadable.ops[o]
    <3>1. PICK p \in Ops : OpStep(p)
      BY <2>2, NextSteps, ProcessRecords DEF vars, RecoveryInv, ControlInv
    <3>2. Records(p)
      BY <3>1, WhatItRecords DEF RecoveryInv, ControlInv
    <3>3. PICK r : RecordsOn(p, r)
      BY <2>2, <3>2 DEF Records
    <3>4. p = o /\ loadable'.ops = [loadable.ops EXCEPT ![o] = Updated(@, r)]
      BY <1>1, <2>2, <3>3 DEF RecordsOn, RecoveryInv, ControlInv, JournalInv, JournalTyped
    <3>5. r = Prepared(o) /\ Launch(o)
      BY <1>3, <3>3, <3>4, RecordShapes DEF RecordsOn, Follows
    <3> QED
      BY <1>3, <3>4, <3>5, BeginsInOrder
  <2> QED
    BY <2>1, <2>2
<1> QED
  BY <1>2, <1>3

(* No operation has begun when the run begins.                              *)
LEMMA InitInOrder == Init => InOrder
BY WrittenOps DEF Init, Begun, NoOperation, InOrder, BeginsAfter

-----------------------------------------------------------------------------
\* The transcript.

(* An operation on a memory that is no copy finds the memory where it, or   *)
(* the operation before it, has left it.                                    *)
LEMMA FindsItsOwn ==
  ASSUME Ordered, RecoveryInv, InOrder, NEW o \in Ops \ Adapters, Mismatched(o)
  PROVE  Mem[o] \in Derived
<1> SUFFICES ASSUME Mem[o] \notin Derived PROVE FALSE
  OBVIOUS
<1> DEFINE m == Mem[o]
           b == loadable.ops[o].before
           n == Len(mem[m])
<1>1. /\ up /\ at[o] = "prepared" /\ InFlight(o) /\ Kind[o] \in {"do", "append"}
      /\ Revision(o) # Before(o)
      /\ Kind[o] = "do" => /\ journal[o].status # "completed" /\ ~HasOutput(o)
                           /\ ~(HasInput(o) /\ Revision(o) = Before(o) + 1)
      /\ Kind[o] = "append" => ~HasInput(o)
  BY DEF Mismatched, Open, InFlight
<1>2. o \in Written /\ (o \in Dos <=> Kind[o] = "do")
  BY <1>1 DEF Written, Journaled, Copies, Dos
<1>3. /\ m \in Memories \ Derived /\ b \in Nat /\ Before(o) = b /\ loadable.ops[o] = journal[o]
      /\ loadable.ops[o].status # "none" /\ o \in Journaled
  BY <1>1, <1>2, AtWork DEF RecoveryInv
<1>4. n \in Nat /\ Revision(o) = n /\ mem[m] \in Seq(Messages)
  BY <1>3, TextKnown DEF RecoveryInv, DataInv, Revision
<1>5. \A p \in After[o] : at[p] = "returned"
  BY <1>1, <1>2, WrittenOps DEF RecoveryInv, ControlInv, Exclusive
<1>6. BeginsAfter(o, loadable.ops) /\ \A p \in Written : BeginsAfter(p, loadable.ops)
  BY <1>2 DEF InOrder
<1>7. n > b
  <2>1. n >= b
    <3>1. CASE b = 0
      BY <1>4, <3>1
    <3>2. CASE b > 0
      <4>1. PICK p \in After[o] \cap Written : Mem[p] = m /\ loadable.ops[p].before + Leaves(p) = b
        BY <1>3, <1>6, <3>2 DEF BeginsAfter
      <4>2. b <= Len(mem[Mem[p]])
        BY <1>5, <4>1, ReturnedBefore
      <4> QED
        BY <1>3, <1>4, <4>1, <4>2
    <3> QED
      BY <1>3, <3>1, <3>2
  <2> QED
    BY <1>1, <1>3, <1>4, <2>1
<1>8. ASSUME NEW i \in 1..n, i > b
      PROVE  \/ mem[m][i].op = o
             \/ loadable.ops[o].status = "completed" /\ i > b + Leaves(o)
  <2> DEFINE q == mem[m][i].op
  <2>1. /\ q \in Written /\ Mem[q] = m /\ loadable.ops[q].status # "none"
        /\ loadable.ops[q].before \in Nat
        /\ i > loadable.ops[q].before /\ i <= loadable.ops[q].before + Leaves(q)
    BY <1>3, MessageOf
  <2>2. CASE q = o
    BY <2>2
  <2>3. CASE q # o /\ q \in After[o]
    <3>1. loadable.ops[q].before + Leaves(q) <= b
      BY <1>3, <1>6, <2>1, <2>3 DEF BeginsAfter
    <3>2. Leaves(q) \in Nat
      BY DEF Leaves
    <3> QED
      BY <1>3, <1>4, <1>8, <2>1, <3>1, <3>2
  <2>4. CASE q # o /\ o \in After[q]
    <3>1. /\ loadable.ops[o].status = "completed"
          /\ b + Leaves(o) <= loadable.ops[q].before
      BY <1>2, <1>6, <2>1, <2>4 DEF BeginsAfter
    <3>2. Leaves(o) \in Nat
      BY DEF Leaves
    <3>3. i > b + Leaves(o)
      <4> HIDE DEF q
      <4> QED
        BY <1>3, <1>4, <2>1, <3>1, <3>2
    <3> QED
      BY <3>1, <3>3
  <2> QED
    BY <1>2, <1>3, <2>1, <2>2, <2>3, <2>4 DEF Ordered, Written
<1>9. mem[m][b + 1] = Input(o)
  <2>1. b + 1 \in 1..n /\ b + 1 > b
    BY <1>3, <1>4, <1>7
  <2>2. ~(b + 1 > b + Leaves(o))
    BY <1>3 DEF Leaves
  <2>3. mem[m][b + 1].op = o
    BY <1>8, <2>1, <2>2
  <2> QED
    BY <1>3, <2>1, <2>3, MessageOf
<1>10. HasInput(o)
  BY <1>3, <1>4, <1>7, <1>9 DEF HasInput
<1>11. /\ Kind[o] = "do" /\ o \in Dos /\ loadable.ops[o].status # "completed" /\ ~HasOutput(o)
       /\ n # b + 1
  BY <1>1, <1>2, <1>3, <1>4, <1>10
<1>12. mem[m][b + 2].role = "assistant"
  <2>1. b + 2 \in 1..n /\ b + 2 > b
    BY <1>3, <1>4, <1>7, <1>11
  <2>2. mem[m][b + 2].op = o
    BY <1>8, <1>11, <2>1
  <2> QED
    BY <1>3, <2>1, <2>2, MessageOf
<1>13. n # b + 2
  BY <1>3, <1>4, <1>10, <1>11, <1>12 DEF HasOutput
<1>14. b + 3 \in 1..n /\ b + 3 > b
  BY <1>3, <1>4, <1>7, <1>11, <1>13
<1>15. mem[m][b + 3].op = o
  BY <1>8, <1>11, <1>14
<1>16. b + 3 <= b + Leaves(o)
  BY <1>3, <1>14, <1>15, MessageOf
<1> QED
  BY <1>3, <1>11, <1>16 DEF Leaves

(* The conjuncts of the transcript that the data gives.                     *)
LEMMA TypesExact ==
  ASSUME RecoveryInv, RunTyped
  PROVE  TypeOK
<1>1. TextTyped /\ Based /\ OpsTyped(journal) /\ told \subseteq Ops \X Messages
  BY DEF RecoveryInv, DataInv, OpsAreTyped
<1>2. journal \in [Journaled -> [status : Statuses, before : Nat, result : Messages \cup {Nothing}]]
  BY <1>1 DEF OpsTyped, Operation
<1>3. at \in [Ops -> Places] /\ up \in BOOLEAN /\ stops \in Nat
  BY DEF RecoveryInv, ControlInv, JournalInv, JournalTyped
<1>4. /\ stops <= MaxStops + 1 /\ attempts \in [Ops -> Nat] /\ MaxStops \in Nat
      /\ \A o \in Ops : attempts[o] <= MaxStops + 1
  BY ProgramAssumption DEF RecoveryInv, ControlInv, Attempts
<1>5. stops \in 0..(MaxStops + 1)
  BY <1>3, <1>4
<1>6. attempts \in [Ops -> 0..(MaxStops + 1)]
  <2>1. \A o \in Ops : attempts[o] \in 0..(MaxStops + 1)
    BY <1>4
  <2> QED
    BY <1>4, <2>1
<1>7. \A m \in files \cap Derived : Source(m) \in files /\ base[m] <= Len(records[Source(m)])
  BY <1>1 DEF Based
<1> QED
  BY <1>1, <1>2, <1>3, <1>5, <1>6, <1>7 DEF TypeOK, TextTyped, RunTyped, Places

(* A file is the beginning of its memory, or one answer ahead of it.        *)
LEMMA FileIsPrefix ==
  ASSUME RecoveryInv, NEW m \in Memories, up, m \in files
  PROVE  \/ IsPrefix(Loaded(m), mem[m])
         \/ \E o \in Dos : Loaded(m) = Append(mem[m], Output(o))
<1>1. /\ Agree(Loaded(m), mem[m])
      /\ Len(Loaded(m)) <= Len(mem[m]) \/ Ahead(m)
  BY DEF RecoveryInv, DataInv, Filed, FileOK
<1>2. /\ mem[m] \in Seq(Messages) /\ Len(mem[m]) \in Nat
      /\ Loaded(m) \in Seq(Messages) /\ Len(Loaded(m)) \in Nat
  BY TextKnown DEF RecoveryInv, DataInv
<1>3. CASE Len(Loaded(m)) <= Len(mem[m])
  <2>1. Begins(Loaded(m), mem[m])
    BY <1>1, <1>2, <1>3 DEF Begins, Agree
  <2> QED
    BY <1>2, <2>1, PrefixBegins
<1>4. CASE Ahead(m)
  <2>1. PICK o \in Dos : Loaded(m)[Len(mem[m]) + 1] = Output(o)
    BY <1>4 DEF Ahead
  <2>2. Len(Loaded(m)) = Len(mem[m]) + 1
    BY <1>4 DEF Ahead
  <2>3. Output(o) \in Messages
    BY InputShape, WrittenOps, ProgramAssumption DEF RecoveryInv, ControlInv, Attempts
  <2> DEFINE x == Output(o)
             text == Append(mem[m], x)
  <2>4. /\ text \in Seq(Messages) /\ Len(text) = Len(mem[m]) + 1
        /\ \A i \in 1..Len(mem[m]) : text[i] = mem[m][i]
        /\ text[Len(mem[m]) + 1] = x
    BY <1>2, <2>3, Appended
  <2> HIDE DEF text, x
  <2>5. ASSUME NEW i \in 1..Len(Loaded(m)) PROVE Loaded(m)[i] = text[i]
    <3>1. CASE i \in 1..Len(mem[m])
      <4>1. mem[m][i] = Loaded(m)[i]
        BY <1>1, <1>2, <3>1 DEF Agree
      <4> QED
        BY <2>4, <3>1, <4>1
    <3>2. CASE i \notin 1..Len(mem[m])
      <4>1. i = Len(mem[m]) + 1
        BY <1>2, <2>2, <3>2
      <4> QED
        BY <2>1, <2>4, <4>1 DEF x
    <3> QED
      BY <3>1, <3>2
  <2>6. Loaded(m) = text
    BY <1>2, <2>2, <2>4, <2>5, SeqEqual
  <2> QED
    BY <2>6 DEF text, x
<1> QED
  BY <1>1, <1>3, <1>4

(* What the invariant says of the transcript.                               *)
LEMMA MessagesKnown == RecoveryInv => MessagesExact
<1> SUFFICES ASSUME RecoveryInv PROVE MessagesExact
  OBVIOUS
<1>1. ASSUME NEW m \in Memories
      PROVE  /\ DOMAIN Loaded(m) \subseteq Nat
             /\ \A i, j \in DOMAIN Loaded(m) : Loaded(m)[i] = Loaded(m)[j] => i = j
             /\ \A i \in DOMAIN Loaded(m) :
                  Loaded(m)[i].role = "assistant" =>
                    i > 1 /\ Loaded(m)[i - 1] = Input(Loaded(m)[i].op)
  <2>1. CASE m \in files
    <3>1. /\ Loaded(m) \in Seq(Messages) /\ DOMAIN Loaded(m) = 1..Len(Loaded(m))
      BY <2>1, TextKnown DEF RecoveryInv, DataInv
    <3>2. AllFit(Loaded(m), m, Inherited(m), loadable.ops)
      BY <2>1 DEF RecoveryInv, DataInv, Texts, TextOK
    <3>3. \A o \in Dos : loadable.ops[o].before \in Nat
      BY WrittenOps DEF RecoveryInv, DataInv, OpsAreTyped, OpsTyped, Operation
    <3>4. \A i, j \in 1..Len(Loaded(m)) : Loaded(m)[i] = Loaded(m)[j] => i = j
      BY <3>2, FitUnique
    <3>5. \A i \in 1..Len(Loaded(m)) : Loaded(m)[i].role = "assistant" =>
              /\ Loaded(m)[i].op \in Dos /\ i = loadable.ops[Loaded(m)[i].op].before + 2
              /\ Loaded(m)[i - 1] = Input(Loaded(m)[i].op)
      BY <3>2, FitUnique
    <3>6. \A i \in 1..Len(Loaded(m)) : Loaded(m)[i].role = "assistant" =>
            i > 1 /\ Loaded(m)[i - 1] = Input(Loaded(m)[i].op)
      BY <3>3, <3>5
    <3> QED
      BY <3>1, <3>4, <3>6
  <2>2. CASE m \notin files
    <3>1. Loaded(m) = <<>>
      BY <2>2 DEF Loaded, RecoveryInv, DataInv, Filed, FileOK
    <3>2. DOMAIN Loaded(m) = {}
      BY <3>1
    <3> QED
      BY <3>2
  <2> QED
    BY <2>1, <2>2
<1>2. ASSUME NEW o \in Journaled \ Adapters, at[o] = "returned"
      PROVE  Holds(Mem[o], Input(o))
  <2>1. o \in Written /\ Mem[o] \in Memories
    BY WrittenOps DEF Written
  <2>2. /\ PlaceIn(o, "returned", loadable.ops[o].before, mem[Mem[o]], Mem[o] \in files, Loaded(Mem[o]))
        /\ loadable.ops[o].before \in Nat
    BY <1>2, <2>1 DEF RecoveryInv, DataInv, Placed, OpsAreTyped, OpsTyped, Operation
  <2>3. mem[Mem[o]] \in Seq(Messages) /\ Len(mem[Mem[o]]) \in Nat
    BY <2>1, TextKnown DEF RecoveryInv, DataInv
  <2>4. loadable.ops[o].before + 1 \in 1..Len(mem[Mem[o]])
    BY <2>2, <2>3 DEF PlaceIn
  <2> QED
    BY <2>2, <2>3, <2>4 DEF PlaceIn, Holds
<1>3. \A m \in Memories : up /\ m \in files =>
        \/ IsPrefix(Loaded(m), mem[m])
        \/ \E o \in Dos : Loaded(m) = Append(mem[m], Output(o))
  BY FileIsPrefix
<1> QED
  BY <1>1, <1>2, <1>3 DEF MessagesExact

-----------------------------------------------------------------------------
(* The files are exact whatever the order of the program, and through any   *)
(* crashes: no message is there twice, every answer follows its input, and  *)
(* what an operation that has returned wrote is there (src/src/memory-      *)
(* store.ts, src/src/vm.ts).                                                *)
THEOREM MessagesStayExact == Spec => [](TypeOK /\ MessagesExact)
<1>1. RecoveryInv /\ RunTyped => TypeOK
  BY TypesExact
<1> QED
  BY <1>1, MessagesKnown, RecoveryKept, RunTypedKept, PTL

(* If the program also orders what works on a memory that is no copy, as    *)
(* src/src/dependencies.ts does within a block, no operation ever finds     *)
(* such a memory as it cannot have left it: only a copy makes a resumed run *)
(* fail for good.                                                           *)
THEOREM TranscriptStaysExact ==
  ASSUME Ordered
  PROVE  Spec => []TranscriptExact
<1>1. RecoveryInv /\ InOrder /\ [Next]_vars => InOrder'
  BY NextInOrder
<1>2. RecoveryInv /\ InOrder => OnlyCopiesMismatch
  BY FindsItsOwn DEF OnlyCopiesMismatch
<1>3. TypeOK /\ MessagesExact /\ OnlyCopiesMismatch => TranscriptExact
  BY DEF TranscriptExact
<1> QED
  BY <1>1, <1>2, <1>3, InitInOrder, RecoveryKept, MessagesStayExact, PTL DEF Spec
=============================================================================
