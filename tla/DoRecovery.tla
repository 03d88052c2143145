------------------------------ MODULE DoRecovery ------------------------------
(***************************************************************************)
(* Durable execution: the operations agent.do, memory.append, memory.copy  *)
(* and the calls of adapters of one run (src/src/vm.ts), the recovery      *)
(* journal (src/src/recovery.ts) and the memory files                      *)
(* (src/src/memory-store.ts).                                              *)
(*                                                                         *)
(* A process executes the program from its entry.  It can crash, or end    *)
(* interrupted, and a later process resumes the run: it restores what the  *)
(* files hold and executes the program again, replaying what the journal   *)
(* has as completed.  A message is known by its operation, its role and,   *)
(* for an answer, the attempt that gave it.  A crash loses no write that   *)
(* has returned, and keeps any prefix of the records of one that has not.  *)
(***************************************************************************)
EXTENDS Naturals, Sequences, FiniteSets, SequencesExt

CONSTANTS Ops,       \* the operations of the program
          Kind,      \* Kind[o]: "do", "append", "copy" or "adapter"
          Mem,       \* Mem[o]: the memory o works on, if it is no adapter's; the source of a copy
          Dest,      \* Dest[c]: the memory that copy c creates
          After,     \* After[o]: the operations o waits for, directly or not
          Memories,
          Nothing,   \* not an answer
          MaxStops   \* bounds the processes that stop before the run has ended

Copies == {o \in Ops : Kind[o] = "copy"}
Dos == {o \in Ops : Kind[o] = "do"}
Adapters == {o \in Ops : Kind[o] = "adapter"}
Journaled == Ops \ Copies

ASSUME ProgramAssumption ==
  /\ Kind \in [Ops -> {"do", "append", "copy", "adapter"}]
  /\ Mem \in [Ops \ Adapters -> Memories] /\ Dest \in [Copies -> Memories]
  /\ After \in [Ops -> SUBSET Ops]
  /\ MaxStops \in Nat
\* Copies are made of memories that are not copies, each into one of its own.
ASSUME CopyAssumption ==
  \A c, d \in Copies : Mem[c] # Dest[d] /\ (Dest[c] = Dest[d] => c = d)
\* What works on a copy names it, and waits for the memory.copy.
ASSUME NameAssumption ==
  \A c \in Copies, o \in Ops \ Adapters : Mem[o] = Dest[c] => c \in After[o]

VARIABLES files,       \* durable: the memories that have a file
          records,     \* durable: the messages in each file, without those of its base
          base,        \* the revision of its source a copy starts from; durable with its file
          loadable,    \* durable: what loadRecoveryRun() makes of the recovery journal
          journal,     \* status, revision before, and result of each operation, and
          status,      \* the run's status: what this process, or else the next one,
                       \* has of the journal
          up,          \* a process executes the run
          at,          \* volatile: where each operation is
          mem,         \* volatile: the messages of each memory handle
          remembered,  \* volatile: the revisions of each file that a base can name
          sick,        \* volatile: which of journal and memory refuse to write any more
          failing,     \* volatile: "no", or how the first failure ends the run
          stops,       \* processes that stopped before the run had ended
          attempts,    \* history: executions of each agent.do, calls of each adapter
          told         \* history: the answers the program has been given

stored == <<files, records, base>>
recovery == <<loadable, journal, status>>
vars == <<files, records, base, loadable, journal, status, up, at, mem, remembered, sick, failing,
          stops, attempts, told>>

-----------------------------------------------------------------------------
Input(o) == [op |-> o, role |-> IF Kind[o] = "do" THEN "input" ELSE "appended", try |-> 0]
Output(o) == [op |-> o, role |-> IF o \in Adapters THEN "adapter" ELSE "assistant",
              try |-> attempts[o]]
Messages == [op : Ops, role : {"input", "appended", "assistant", "adapter"}, try : 0..(MaxStops + 1)]
ASSUME NothingAssumption == Nothing \notin Messages

Derived == {Dest[c] : c \in Copies}
Source(m) == Mem[CHOOSE c \in Copies : Dest[c] = m]

\* What works on a memory that is no copy is chained in the order of the text,
\* for as long as one block names that memory, and by one name.
Ordered ==
  \A o, p \in Journaled \ Adapters :
    o # p /\ Mem[o] = Mem[p] /\ Mem[o] \notin Derived => o \in After[p] \/ p \in After[o]

\* The messages that a file stands for: a copy's are those of its source, up
\* to its base revision, and then its own.
Loaded(m) == IF m \in files \cap Derived
             THEN SubSeq(records[Source(m)], 1, base[m]) \o records[m]
             ELSE records[m]
Inherited(m) == IF m \in Derived THEN base[m] ELSE 0

Revision(o) == Len(mem[Mem[o]])
Before(o) == journal[o].before
InFlight(o) == at[o] \notin {"idle", "returned", "failed"}
Writes(part) == up /\ part \notin sick

-----------------------------------------------------------------------------
Prepared(o) == [type |-> "prepared", op |-> o, before |-> IF o \in Adapters THEN 0 ELSE Revision(o)]
Completed(o) == [type |-> "completed", op |-> o,
                 result |-> CASE Kind[o] = "do" -> mem[Mem[o]][Before(o) + 2]
                              [] Kind[o] = "adapter" -> Output(o)
                              [] OTHER -> Nothing]
Interrupted(o) == [type |-> "interrupted", op |-> o]
Ambiguous(o) == [type |-> "ambiguous", op |-> o]
Marked(end) == [type |-> "run", to |-> end]
Resumed(attempt) == [type |-> "resume", attempt |-> attempt]

NoOperation == [status |-> "none", before |-> 0, result |-> Nothing]
Begun == [valid |-> TRUE, status |-> "running", attempt |-> 0,
          ops |-> [o \in Journaled |-> NoOperation]]

\* A record that does not make loadRecoveryRun() throw.
Accepted(run, r) ==
  CASE r.type = "resume" -> run.status \in {"running", "interrupted"}
                            /\ r.attempt = run.attempt + 1
    [] r.type = "run" -> run.status = "running"
    [] r.type = "prepared" -> run.status = "running" /\ run.ops[r.op].status = "none"
    [] r.type \in {"interrupted", "ambiguous"} ->
         run.status = "running" /\ run.ops[r.op].status \notin {"none", "completed"}
    [] r.type = "completed" -> /\ run.status = "running"
                               /\ run.ops[r.op].status \notin {"none", "ambiguous"}
                               /\ run.ops[r.op].status = "completed"
                                    => run.ops[r.op].result = r.result

\* What an operation's record, written or loaded, changes.
Updated(operation, r) ==
  CASE r.type = "prepared" -> [status |-> "prepared", before |-> r.before, result |-> Nothing]
    [] r.type \in {"interrupted", "ambiguous"} -> [operation EXCEPT !.status = r.type]
    [] r.type = "completed" -> [operation EXCEPT !.status = "completed", !.result = r.result]

Applied(run, r) ==
  CASE r.type = "resume" -> [run EXCEPT !.status = "running", !.attempt = r.attempt]
    [] r.type = "run" -> [run EXCEPT !.status = r.to]
    [] OTHER -> [run EXCEPT !.ops[r.op] = Updated(@, r)]

\* A record is appended to the file.
Durable(r) == loadable' = [Applied(loadable, r) EXCEPT !.valid = @ /\ Accepted(loadable, r)]

\* append(): the record is durable, and then the process knows it too.
Write(r) == /\ Durable(r)
            /\ journal' = [journal EXCEPT ![r.op] = Updated(@, r)]

-----------------------------------------------------------------------------
Init == /\ files = {} /\ records = [m \in Memories |-> <<>>]
        /\ base = [m \in Derived |-> 0]
        /\ loadable = Begun /\ journal = Begun.ops
        /\ status = "running" /\ up = TRUE
        /\ at = [o \in Ops |-> "idle"]
        /\ mem = [m \in Memories |-> <<>>]
        /\ remembered = [m \in Memories |-> {}]
        /\ sick = {} /\ failing = "no"
        /\ stops = 0
        /\ attempts = [o \in Ops |-> 0]
        /\ told = {}

\* The flow reaches o, and o gets the lock of its memory, if it has one.
Launch(o) == /\ up /\ at[o] = "idle" /\ failing = "no"
             /\ \A p \in After[o] : at[p] = "returned"
             /\ o \notin Adapters => \A p \in Ops \ Adapters : InFlight(p) => Mem[p] # Mem[o]
Goes(o, place) == at' = [at EXCEPT ![o] = place]
Fails(o, how) == /\ Goes(o, "failed")
                 /\ failing' = IF failing = "no" THEN how ELSE failing

-----------------------------------------------------------------------------
\* prepareOperation: the first time it records the revision of the memory.
Prepare(o) ==
  /\ Launch(o) /\ o \in Journaled /\ Writes("journal")
  /\ IF journal[o].status = "none" THEN Write(Prepared(o)) ELSE UNCHANGED <<loadable, journal>>
  /\ Goes(o, IF o \in Adapters /\ journal[o].status # "none" THEN "existing" ELSE "prepared")
  /\ UNCHANGED <<stored, status, up, mem, remembered, sick, failing, stops, attempts, told>>

\* A restored memory keeps what its file says, any other starts from what it is
\* given.
claim(m, initializer, requestedBase) ==
  IF m \in files THEN UNCHANGED <<mem, base>>
  ELSE /\ mem' = [mem EXCEPT ![m] = initializer]
       /\ base' = [base EXCEPT ![m] = requestedBase]

\* memory.copy leaves nothing in the journal: it takes what the source holds now.
Copy(c) ==
  /\ Launch(c) /\ c \in Copies
  /\ claim(Dest[c], mem[Mem[c]], Revision(c))
  /\ Goes(c, "returned")
  /\ UNCHANGED <<files, records, recovery, up, remembered, sick, failing, stops,
                 attempts, told>>

\* agent.do or the adapter's call is completed: its result is replayed.
Replay(o) ==
  /\ up /\ Kind[o] \in {"do", "adapter"} /\ at[o] \in {"prepared", "existing"}
  /\ journal[o].status = "completed"
  /\ Goes(o, "returned")
  /\ told' = told \cup {<<o, journal[o].result>>}
  /\ UNCHANGED <<stored, recovery, up, mem, remembered, sick, failing, stops, attempts>>

\* agent.do has to be executed, or was being executed when a process stopped.
Open(o) == up /\ at[o] = "prepared" /\ Kind[o] = "do" /\ journal[o].status # "completed"

HasInput(o) == Revision(o) > Before(o) /\ mem[Mem[o]][Before(o) + 1] = Input(o)
HasOutput(o) == /\ HasInput(o) /\ Revision(o) = Before(o) + 2
                /\ mem[Mem[o]][Before(o) + 2].role = "assistant"

\* Defect: the input is appended without a look at what is durable.
Admit_Blind(o) ==
  /\ Open(o)
  /\ mem' = [mem EXCEPT ![Mem[o]] = Append(@, Input(o))]
  /\ Goes(o, "ready")
  /\ UNCHANGED <<stored, recovery, up, remembered, sick, failing, stops, attempts, told>>

\* The memory is where the operation found it first: the input is appended.
Admit(o) ==
  /\ Open(o) /\ Revision(o) = Before(o)
  /\ mem' = [mem EXCEPT ![Mem[o]] = Append(@, Input(o))]
  /\ Goes(o, "ready")
  /\ UNCHANGED <<stored, recovery, up, remembered, sick, failing, stops, attempts, told>>

\* The input is durable already: the interrupted attempt is resumed.
ResumeInput(o) ==
  /\ Open(o) /\ HasInput(o) /\ Revision(o) = Before(o) + 1
  /\ Goes(o, "ready")
  /\ UNCHANGED <<stored, recovery, up, mem, remembered, sick, failing, stops, attempts, told>>

\* The answer is durable already: all that is left to do is to complete.
Reconcile(o) ==
  /\ Open(o) /\ HasOutput(o)
  /\ Goes(o, "saved")
  /\ UNCHANGED <<stored, recovery, up, mem, remembered, sick, failing, stops, attempts, told>>

\* memory.append: a memory that has a file must be saved, any other is only
\* changed in the process.
AppendMessage(o) ==
  /\ up /\ at[o] = "prepared" /\ Kind[o] = "append" /\ Revision(o) = Before(o)
  /\ mem' = [mem EXCEPT ![Mem[o]] = Append(@, Input(o))]
  /\ Goes(o, IF Mem[o] \in files THEN "answered" ELSE "saved")
  /\ UNCHANGED <<stored, recovery, up, remembered, sick, failing, stops, attempts, told>>

\* The appended message is durable already.
FindMessage(o) ==
  /\ up /\ at[o] = "prepared" /\ Kind[o] = "append" /\ HasInput(o)
  /\ Goes(o, "saved")
  /\ UNCHANGED <<stored, recovery, up, mem, remembered, sick, failing, stops, attempts, told>>

\* The memory is not what the prepared operation can have left.
Mismatched(o) ==
  \/ /\ Open(o) /\ Revision(o) # Before(o) /\ ~HasOutput(o)
     /\ ~(HasInput(o) /\ Revision(o) = Before(o) + 1)
  \/ up /\ at[o] = "prepared" /\ Kind[o] = "append" /\ Revision(o) # Before(o) /\ ~HasInput(o)

\* RECOVERY_STATE_INVALID, which ends the run for good.
Mismatch(o) ==
  /\ Mismatched(o) /\ Fails(o, "fatal")
  /\ UNCHANGED <<stored, recovery, up, mem, remembered, sick, stops, attempts, told>>

-----------------------------------------------------------------------------
\* Defect: an adapter that an earlier process may have called is called again.
MarkAmbiguous_CallsAgain(o) ==
  /\ at[o] = "existing" /\ journal[o].status # "completed"
  /\ Goes(o, "prepared")
  /\ UNCHANGED <<stored, recovery, up, mem, remembered, sick, failing, stops, attempts, told>>

\* An earlier process may have called the adapter: nobody knows, and
\* RECOVERY_OPERATION_AMBIGUOUS ends this one.
MarkAmbiguous(o) ==
  /\ at[o] = "existing" /\ journal[o].status # "completed"
  /\ IF journal[o].status = "ambiguous" THEN UNCHANGED <<loadable, journal>>
                                        ELSE Writes("journal") /\ Write(Ambiguous(o))
  /\ Fails(o, "recoverable")
  /\ UNCHANGED <<stored, status, up, mem, remembered, sick, stops, attempts, told>>

\* The adapter is called, and whatever it does outside the run begins.
CallAdapter(o) ==
  /\ at[o] = "prepared" /\ o \in Adapters
  /\ attempts' = [attempts EXCEPT ![o] = @ + 1]
  /\ Goes(o, "running")
  /\ UNCHANGED <<stored, recovery, up, mem, remembered, sick, failing, stops, told>>

\* The adapter returns.
AdapterReturns(o) ==
  /\ at[o] = "running" /\ o \in Adapters /\ Goes(o, "saved")
  /\ UNCHANGED <<stored, recovery, up, mem, remembered, sick, failing, stops, attempts, told>>

-----------------------------------------------------------------------------
\* The first write to a memory creates its file, which names the base.
ensureMemoryFile(m) == files' = files \cup {m}
Put(m, revision) ==
  /\ ensureMemoryFile(m)
  /\ records' = [records EXCEPT ![m] = SubSeq(mem[m], Inherited(m) + 1, revision)]
\* An agent.do ends with what the memory has and its file lacks; the file may
\* have more already.
endMemoryDo(m) ==
  IF IsPrefix(Loaded(m), mem[m]) THEN Put(m, Len(mem[m]))
  ELSE IsPrefix(mem[m], Loaded(m)) /\ UNCHANGED <<files, records>>
Remember(m, revision) == remembered' = [remembered EXCEPT ![m] = @ \cup {revision}]

NeedsBase(o) == Mem[o] \in Derived \ files
BaseReady(o) == NeedsBase(o) => /\ Source(Mem[o]) \in files
                                /\ base[Mem[o]] \in remembered[Source(Mem[o])]

\* ensureBaseReference: a source without a file gets one that ends where the
\* copy was made.
MaterializeBase(o) ==
  LET source == Source(Mem[o])
  IN  /\ at[o] = "ready" /\ NeedsBase(o) /\ source \notin files /\ Writes("memory")
      /\ Put(source, base[Mem[o]]) /\ Remember(source, base[Mem[o]])
      /\ UNCHANGED <<base, recovery, up, at, mem, sick, failing, stops, attempts, told>>

\* MEMORY_STATE_INVALID: the store knows the source, but only at other revisions.
BaseMissing(o) ==
  /\ at[o] = "ready" /\ NeedsBase(o) /\ Source(Mem[o]) \in files /\ ~BaseReady(o)
  /\ Writes("memory") /\ sick' = sick \cup {"memory"} /\ Fails(o, "fatal")
  /\ UNCHANGED <<stored, recovery, up, mem, remembered, stops, attempts, told>>

\* beginAgentAttempt: everything up to the input is durable, and the executor
\* starts.
Begin(o) ==
  /\ at[o] = "ready" /\ BaseReady(o) /\ Writes("memory")
  /\ Put(Mem[o], Revision(o)) /\ Remember(Mem[o], Revision(o))
  /\ attempts' = [attempts EXCEPT ![o] = @ + 1]
  /\ Goes(o, "running")
  /\ UNCHANGED <<base, recovery, up, mem, sick, failing, stops, told>>

\* appendContinuation: the executor journals its final message before it returns.
Checkpoint(o) ==
  /\ at[o] = "running" /\ Kind[o] = "do" /\ Writes("memory") /\ Len(Loaded(Mem[o])) = Revision(o)
  /\ records' = [records EXCEPT ![Mem[o]] = Append(@, Output(o))]
  /\ Remember(Mem[o], Revision(o) + 1)
  /\ UNCHANGED <<files, base, recovery, up, at, mem, sick, failing, stops, attempts, told>>

\* Defect: the operation is completed before its answer is saved.
Answer_Unsaved(o) ==
  /\ at[o] = "running" /\ Kind[o] = "do"
  /\ mem' = [mem EXCEPT ![Mem[o]] = Append(@, Output(o))]
  /\ Goes(o, "saved")
  /\ UNCHANGED <<stored, recovery, up, remembered, sick, failing, stops, attempts, told>>

\* The executor returns.
Answer(o) ==
  /\ at[o] = "running" /\ Kind[o] = "do"
  /\ mem' = [mem EXCEPT ![Mem[o]] = Append(@, Output(o))]
  /\ Goes(o, "answered")
  /\ UNCHANGED <<stored, recovery, up, remembered, sick, failing, stops, attempts, told>>

\* persistMemory: what the file lacks of the memory is written to it.
Save(o) ==
  /\ at[o] = "answered" /\ Writes("memory")
  /\ IF Kind[o] = "do" THEN endMemoryDo(Mem[o]) ELSE Put(Mem[o], Revision(o))
  /\ Remember(Mem[o], Revision(o))
  /\ Goes(o, "saved")
  /\ UNCHANGED <<base, recovery, up, mem, sick, failing, stops, attempts, told>>

\* completeOperation, and the program goes on.
Complete(o) ==
  /\ at[o] = "saved" /\ Writes("journal")
  /\ IF journal[o].status = "completed" THEN UNCHANGED <<loadable, journal>>
                                        ELSE Write(Completed(o))
  /\ Goes(o, "returned")
  /\ told' = IF Kind[o] \in {"do", "adapter"} THEN told \cup {<<o, Completed(o).result>>} ELSE told
  /\ UNCHANGED <<stored, status, up, mem, remembered, sick, failing, stops, attempts>>

-----------------------------------------------------------------------------
\* A fault can stop this process: the bound leaves room for another one.
CanStop == up /\ stops < MaxStops

\* The executor fails, or o learns that the run is being aborted.  An agent.do
\* whose executor was stopped is journaled as interrupted.
FailOp(o) ==
  /\ CanStop \/ failing # "no"
  /\ InFlight(o) /\ Fails(o, "recoverable")
  /\ \/ UNCHANGED <<loadable, journal>>
     \/ at[o] = "running" /\ Kind[o] = "do" /\ Writes("journal") /\ Write(Interrupted(o))
  /\ UNCHANGED <<stored, status, up, mem, remembered, sick, stops, attempts, told>>

\* A write to a memory file fails: none, some or all of its records are there,
\* and nothing else is written.
WriteFails(o) ==
  LET m == IF NeedsBase(o) /\ Source(Mem[o]) \notin files THEN Source(Mem[o]) ELSE Mem[o]
      target == IF m = Mem[o] THEN Revision(o) ELSE base[Mem[o]]
      present == IF m \in files THEN Len(Loaded(m)) ELSE Inherited(m)
  IN  /\ CanStop /\ Writes("memory")
      /\ at[o] \in {"ready", "answered"} /\ (m = Mem[o] => BaseReady(o))
      /\ \/ UNCHANGED <<files, records>>
         \/ \E revision \in present..target : Put(m, revision)
      /\ sick' = sick \cup {"memory"} /\ Fails(o, "recoverable")
      /\ UNCHANGED <<base, recovery, up, mem, remembered, stops, attempts, told>>

\* A write to the journal fails, with its record there or not.
Torn(r) == UNCHANGED loadable \/ Durable(r)

JournalFails(o) ==
  /\ CanStop /\ Writes("journal")
  /\ \/ Launch(o) /\ o \in Journaled /\ journal[o].status = "none" /\ Torn(Prepared(o))
     \/ at[o] = "saved" /\ journal[o].status # "completed" /\ Torn(Completed(o))
     \/ /\ at[o] = "existing" /\ journal[o].status \notin {"completed", "ambiguous"}
        /\ Torn(Ambiguous(o))
  /\ sick' = sick \cup {"journal"} /\ Fails(o, "recoverable")
  /\ UNCHANGED <<stored, journal, status, up, mem, remembered, stops, attempts, told>>

\* The caller's signal fires, or opening the memories fails: the operations in
\* flight learn of it when they next look.
Cancel ==
  /\ CanStop /\ failing = "no" /\ failing' = "recoverable"
  /\ UNCHANGED <<stored, recovery, up, at, mem, remembered, sick, stops, attempts, told>>

\* The process is gone, and with it all that is not in a file.
Down ==
  /\ up' = FALSE
  /\ at' = [o \in Ops |-> "idle"] /\ mem' = [m \in Memories |-> <<>>]
  /\ base' = [m \in Derived |-> IF m \in files THEN base[m] ELSE 0]
  /\ remembered' = [m \in Memories |-> {}]
  /\ sick' = {} /\ failing' = "no"
  /\ journal' = loadable'.ops /\ status' = loadable'.status
  /\ UNCHANGED <<files, records, attempts, told>>

Settled == up /\ \A o \in Ops : ~InFlight(o)
Succeeded == Settled /\ failing = "no" /\ \A o \in Ops : at[o] = "returned"

\* How run() would mark its end: a run that throws can be resumed, or not.
End == IF Succeeded THEN "completed"
       ELSE IF failing = "fatal" THEN "failed" ELSE "interrupted"

\* run() returns its output.
EndCompleted == Succeeded /\ Durable(Marked("completed")) /\ stops' = stops /\ Down

\* run() throws, and the run cannot be resumed.
EndFailed == /\ Settled /\ failing = "fatal" /\ "journal" \notin sick
             /\ Durable(Marked("failed")) /\ stops' = stops /\ Down

\* Defect: the run is marked while its operations are in flight.
EndInterrupted_Early ==
  /\ up /\ failing = "recoverable" /\ "journal" \notin sick
  /\ Durable(Marked("interrupted"))
  /\ UNCHANGED <<stored, journal, status, up, at, mem, remembered, sick, failing, stops,
                 attempts, told>>

\* Defect: the run ends only when each of its operations has returned.
EndInterrupted_Nobody ==
  /\ Settled /\ failing = "recoverable" /\ (\A o \in Ops : at[o] = "returned") /\ Durable(Marked("interrupted"))
  /\ stops' = stops + 1 /\ Down

\* run() throws, and the run can be resumed: it is marked as interrupted if
\* the journal can still be written.
EndInterrupted ==
  /\ Settled
  /\ \/ /\ failing = "recoverable" /\ "journal" \notin sick
        /\ Durable(Marked("interrupted"))
     \/ failing # "no" /\ "journal" \in sick /\ UNCHANGED loadable
  /\ stops' = stops + 1 /\ Down

\* The end of the run, whichever it is, fails to be written to the journal.
EndUnmarked == /\ CanStop /\ Settled /\ (failing # "no" \/ Succeeded)
               /\ "journal" \notin sick /\ Torn(Marked(End))
               /\ stops' = stops + 1 /\ Down

Crash == CanStop /\ UNCHANGED loadable /\ stops' = stops + 1 /\ Down

\* loadRun: what the files hold, of which every revision can be named.
Restored == [m \in Memories |-> IF m \in files THEN Loaded(m) ELSE <<>>]
Known == [m \in Memories |-> IF m \in files THEN Inherited(m)..Len(Loaded(m)) ELSE {}]

\* A process resumes the run.  An ambiguous operation stops it again, and the
\* bound leaves room for that once.
Resume ==
  /\ ~up /\ stops <= MaxStops /\ status \in {"running", "interrupted"}
  /\ Durable(Resumed(loadable.attempt + 1))
  /\ up' = TRUE /\ status' = "running"
  /\ mem' = Restored /\ remembered' = Known
  /\ UNCHANGED <<stored, journal, at, sick, failing, stops, attempts, told>>

\* Steps of the program and of the VM.
Advance ==
  \/ \E o \in Ops : \/ Prepare(o) \/ Copy(o) \/ Replay(o) \/ Admit(o) \/ ResumeInput(o)
                    \/ Reconcile(o) \/ AppendMessage(o) \/ FindMessage(o) \/ Mismatch(o)
                    \/ MaterializeBase(o) \/ BaseMissing(o) \/ Begin(o) \/ Checkpoint(o)
                    \/ Answer(o) \/ Save(o) \/ Complete(o)
                    \/ MarkAmbiguous(o) \/ CallAdapter(o) \/ AdapterReturns(o)
                    \/ failing # "no" /\ FailOp(o)
  \/ EndCompleted \/ EndFailed \/ EndInterrupted \/ Resume

Next == \/ Advance
        \/ \E o \in Ops : FailOp(o) \/ WriteFails(o) \/ JournalFails(o)
        \/ Cancel \/ EndUnmarked \/ Crash

Spec == Init /\ [][Next]_vars

\* The process runs on, an operation of an aborted run ends, and somebody
\* resumes the run for as long as it can be resumed.  Faults need not happen.
FairSpec == Spec /\ WF_vars(Advance)

-----------------------------------------------------------------------------
Statuses == {"none", "prepared", "interrupted", "ambiguous", "completed"}

(* Types; and a copy has a file only with a file of its source that holds    *)
(* the base revision.                                                        *)
TypeOK ==
  /\ files \subseteq Memories
  /\ records \in [Memories -> Seq(Messages)]
  /\ base \in [Derived -> Nat]
  /\ journal \in [Journaled -> [status : Statuses, before : Nat,
                                result : Messages \cup {Nothing}]]
  /\ status \in {"running", "interrupted", "completed", "failed"}
  /\ up \in BOOLEAN
  /\ at \in [Ops -> {"idle", "existing", "prepared", "ready", "running", "answered", "saved",
                     "returned", "failed"}]
  /\ mem \in [Memories -> Seq(Messages)]
  /\ remembered \in [Memories -> SUBSET Nat]
  /\ sick \subseteq {"journal", "memory"}
  /\ failing \in {"no", "recoverable", "fatal"}
  /\ stops \in 0..(MaxStops + 1)
  /\ attempts \in [Ops -> 0..(MaxStops + 1)]
  /\ told \subseteq Ops \X Messages
  /\ \A m \in files \cap Derived : /\ Source(m) \in files
                                   /\ base[m] <= Len(records[Source(m)])

Holds(m, message) == \E i \in DOMAIN mem[m] : mem[m][i] = message

(* The file of a memory is what the process knows or the beginning of it,    *)
(* but for an answer that the executor has journaled and not yet returned;   *)
(* no message is there twice; every answer follows its own input; and what   *)
(* an operation that has returned wrote is there.                            *)
MessagesExact == \A m \in Memories :
  /\ up /\ m \in files =>
       \/ IsPrefix(Loaded(m), mem[m])
       \/ \E o \in Dos : Loaded(m) = Append(mem[m], Output(o))
  /\ \A i, j \in DOMAIN Loaded(m) : Loaded(m)[i] = Loaded(m)[j] => i = j
  /\ \A i \in DOMAIN Loaded(m) :
       Loaded(m)[i].role = "assistant" =>
         i > 1 /\ Loaded(m)[i - 1] = Input(Loaded(m)[i].op)
  /\ \A o \in Journaled \ Adapters : Mem[o] = m /\ at[o] = "returned" => Holds(m, Input(o))

(* A memory that is not a copy is always where one of its operations can     *)
(* have left it, so that a resumed run can fail for good only because of a   *)
(* memory that is a copy.                                                    *)
OnlyCopiesMismatch == \A o \in Ops \ Adapters : Mismatched(o) => Mem[o] \in Derived

(* The transcript is exact, through crashes, torn writes and resumption.     *)
TranscriptExact == TypeOK /\ MessagesExact /\ OnlyCopiesMismatch

(* The journal can be loaded whatever the order in which operations write   *)
(* to it, stop, fail to write and end: no record follows the one that ends   *)
(* the run, none repeats or contradicts another, and resumptions are         *)
(* counted.  A process that can still write has exactly what another one     *)
(* would load, and a completed run lacks the result of no operation.         *)
JournalLoads ==
  /\ loadable.valid
  /\ "journal" \notin sick => loadable.ops = journal /\ loadable.status = status
  /\ loadable.status = "completed" =>
       \A o \in Journaled : loadable.ops[o].status = "completed"
  /\ up => loadable.attempt = stops

(* A run that is resumed whenever it stops ends: completed or, which         *)
(* TranscriptExact restricts, failed.  Only a call of an adapter that a      *)
(* process began and no process completed keeps it from ending, and then     *)
(* each process that resumes the run still ends.                             *)
RunEnds ==
  <>(\/ status \in {"completed", "failed"}
     \/ ~up /\ \E o \in Adapters : loadable.ops[o].status = "ambiguous")

-----------------------------------------------------------------------------
\* The answer of o that its memory file holds, or the journal for an adapter.
durableAnswer == [o \in Dos \cup Adapters |->
  IF o \in Adapters THEN loadable.ops[o].result ELSE
  LET answers == {i \in DOMAIN records[Mem[o]] : /\ records[Mem[o]][i].op = o
                                                 /\ records[Mem[o]][i].role = "assistant"}
  IN  IF answers = {} THEN Nothing ELSE records[Mem[o]][CHOOSE i \in answers : TRUE]]

Once == INSTANCE AnswerOnce WITH Ops <- Dos \cup Adapters, Answers <- Messages, NoAnswer <- Nothing,
                                 answer <- durableAnswer

(* Every agent.do and every call of an adapter is answered once: an answer   *)
(* that is durable never changes, and the program is told that one, however  *)
(* often it is executed again.                                               *)
AnsweredOnce == Once!Spec

(* An agent whose answer is durable is not executed again; and an adapter is *)
(* not called twice, whether its answer is durable or was lost.              *)
NeverRepeated ==
  [][/\ \A o \in Dos : durableAnswer[o] # Nothing => attempts'[o] = attempts[o]
     /\ \A o \in Adapters : attempts'[o] <= 1]_vars

-----------------------------------------------------------------------------
(* What src/docs/spec/memory.md:102 promises: a message added to the source  *)
(* after the copy was made is not in the copy.                               *)
CopyIsSnapshot ==
  \A c \in Copies, o \in Journaled \ Adapters :
    c \in After[o] /\ Mem[o] = Mem[c] => ~Holds(Dest[c], Input(o))

(* What src/docs/spec/memory.md:227 promises: the file of a copy can name    *)
(* the revision of its source as its base, whenever the copy is first used.  *)
BaseIsAvailable ==
  \A o \in Ops : at[o] = "ready" /\ NeedsBase(o) /\ Source(Mem[o]) \in files => BaseReady(o)
=============================================================================
