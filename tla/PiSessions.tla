------------------------------ MODULE PiSessions ------------------------------
(***************************************************************************)
(* Native executor sessions: what the VM keeps of them in agents and       *)
(* memories (src/src/vm.ts), the Pi executor that owns them                *)
(* (src/src/pi-agent-executor.ts), and the continuation that the memory    *)
(* files keep so that they can be rebuilt (src/src/memory-store.ts).       *)
(*                                                                         *)
(* A session holds the transcript that the model sees.  The AFL Memory of  *)
(* its agent goes on while the session does not: by memory.append, by      *)
(* copies given to other agents, in another process.  Each activation      *)
(* brings the two together again, by a fork of the live session, by the    *)
(* import of the exported one, or by what is pending in the Memory.        *)
(*                                                                         *)
(* A message is <<kind, number>>: "in" for the input of agent.do, "out"    *)
(* for its answer, "app" for an appended one, "text" for the final text of *)
(* a formatted agent.do that has submitted no output.  Sessions also hold  *)
(* "mid" (tool turns), "again" (the prompt of a recovered activation),     *)
(* "fin" (the closing words after a formatted output was submitted) and    *)
(* "tools" (a change of the active tools).                                 *)
(***************************************************************************)
EXTENDS Naturals, Sequences, FiniteSets, SequencesExt

CONSTANTS Agents, Memories,
          First, Main,    \* the agent that exists at the start, and its memory
          Prompts,        \* the system prompts a program sets
          None,
          Formats,        \* the inputs whose agent.do asks for a formatted output
          ToolChanges,    \* the inputs whose activation makes the harness, a library,
                          \* record that its active tools are changed and restored
          MaxNumber,      \* bounds the inputs and appended messages
          MaxSessions,    \* bounds the sessions opened in all processes
          MaxPrompts,     \* bounds the uses of agent.system_prompt
          MaxCrashes      \* bounds the crashes

ASSUME HandleAssumption == First \in Agents /\ Main \in Memories /\ Prompts # {}
ASSUME FormatAssumption == Formats \subseteq Nat /\ ToolChanges \subseteq Nat
ASSUME BoundAssumption == {MaxNumber, MaxSessions, MaxPrompts, MaxCrashes} \subseteq Nat

Messages == {"in", "out", "app", "text"} \X Nat
Entries == {"in", "out", "app", "text", "mid", "again", "fin", "tools"} \X Nat

\* The records of the VM, the executor and the store.
AgentState == [memory : Memories \cup {None}, prompt : Prompts \cup {None},
               session : (1..MaxSessions) \cup {None}, leaf : Nat, revision : Nat]
CheckpointState == [session : (1..MaxSessions) \cup {None}, leaf : Nat, records : Seq(Entries),
                    revision : Nat, prompt : Prompts \cup {None}]
MemoryState == [messages : Seq(Messages), checkpoint : CheckpointState \cup {None}]
Activation == [at : {"idle", "input", "restored", "begun", "prompting"}, op : Nat, resuming : BOOLEAN,
               session : (1..MaxSessions) \cup {None},
               turn : {"none", "prompt", "work", "closing", "submitted", "answered", "unaccepted"}]
SessionState == [prompt : Prompts \cup {None}, entries : Seq(Entries), durable : Seq(Entries), synced : Nat]
SlotState == [messages : Seq(Messages), records : Seq(Entries), revision : Nat]

ASSUME NoneAssumption == None \notin Nat \cup Memories \cup Prompts \cup CheckpointState \cup MemoryState
                                          \cup SessionState \cup SlotState

VARIABLES agent,    \* agent handles: memory, system prompt, session and its synchronized revision
          memory,   \* memory handles: messages and checkpoint, None when not allocated
          act,      \* what runAgent is doing for each agent
          retired,  \* the session that an agent.system_prompt still has to close
          failing,  \* an activation has failed: the run starts nothing any more
          session,  \* the executor's live sessions
          opened,   \* sessions opened so far; each gets a number of its own
          overlooked, \* history: a session went on over entries that no event had recorded
          slot,     \* durable: messages and continuation of each memory that has a file
          refused,  \* history: the errors that none of these steps should meet
          number, prompted, crashes

vm == <<agent, memory, act, retired, failing>>
executor == <<session, opened, overlooked>>
bounds == <<number, prompted, crashes>>
vars == <<vm, executor, slot, refused, bounds>>

-----------------------------------------------------------------------------
noAgent == [memory |-> None, prompt |-> None, session |-> None, leaf |-> 0, revision |-> 0]
noMemory == [messages |-> <<>>, checkpoint |-> None]
noAct == [at |-> "idle", op |-> 0, resuming |-> FALSE, session |-> None, turn |-> "none"]

Init == /\ agent = [a \in Agents |-> IF a = First THEN [noAgent EXCEPT !.memory = Main,
                                                                        !.prompt = CHOOSE p \in Prompts : TRUE]
                                     ELSE noAgent]
        /\ memory = [m \in Memories |-> IF m = Main THEN noMemory ELSE None]
        /\ act = [a \in Agents |-> noAct] /\ retired = [a \in Agents |-> None] /\ failing = FALSE
        /\ session = [s \in 1..MaxSessions |-> None] /\ opened = 0 /\ overlooked = FALSE
        /\ slot = [m \in Memories |-> None] /\ refused = {}
        /\ number = 0 /\ prompted = 0 /\ crashes = 0

Exists(a) == agent[a].memory # None
Mem(a) == agent[a].memory
Said(a) == memory[Mem(a)].messages
Checkpoint(a) == memory[Mem(a)].checkpoint
Owned(m) == \E a \in Agents : agent[a].memory = m

\* A resumed program executes first the agent.do that was interrupted.
Interrupted(m) == memory[m].messages # <<>> /\ Last(memory[m].messages)[1] = "in"

\* The handle locks: an instruction finds the memory free, and its agent too.
Unlocked(m) == memory[m] # None /\ \A a \in Agents : Mem(a) = m => act[a].at = "idle"
Usable(m) == Unlocked(m) /\ ~Interrupted(m) /\ ~failing
Ready(a) == Exists(a) /\ act[a].at = "idle" /\ retired[a] = None /\ ~failing

\* The elements of a sequence at some of its positions, in their order.
Chosen(s, positions) ==
  LET upTo[i \in 0..Len(s)] == IF i = 0 THEN <<>>
                               ELSE IF i \in positions THEN Append(upTo[i - 1], s[i]) ELSE upTo[i - 1]
  IN  upTo[Len(s)]
OfKind(s, kinds) == Chosen(s, {i \in DOMAIN s : s[i][1] \in kinds})

Goes(a, place) == act' = [act EXCEPT ![a].at = place]

\* A session of this executor, under the next number.
Opens(prompt, entries, records) ==
  /\ opened < MaxSessions /\ opened' = opened + 1
  /\ session' = [session EXCEPT ![opened + 1] =
       [prompt |-> prompt, entries |-> entries, durable |-> records, synced |-> Len(records)]]

\* Messages of a file that its continuation does not have yet.
Behind(file) == SubSeq(file.messages, file.revision + 1, Len(file.messages))

\* What the store makes of a file: all of its records and messages are part of
\* the continuation, in their order.
Loaded(m) == slot[m].records \o Behind(slot[m])

\* The session is aborted and deleted.
Closed(ended) == [s \in DOMAIN session |-> IF s \in ended THEN None ELSE session[s]]

\* The continuation that a memory handle hands to the store.
persistedRecords(m) == IF memory[m].checkpoint = None THEN <<>> ELSE memory[m].checkpoint.records
persistedRevision(m) == IF memory[m].checkpoint = None THEN 0 ELSE memory[m].checkpoint.revision

-----------------------------------------------------------------------------
\* runAgent's catch: the session is closed and nothing refers to it any more.
invalidateAgentSession(a) ==
  LET ended == {act[a].session, agent[a].session} \ {None}
  IN  /\ session' = Closed(ended)
      /\ agent' = [agent EXCEPT ![a].session = None, ![a].leaf = 0, ![a].revision = 0]
      /\ memory' = [memory EXCEPT ![Mem(a)].checkpoint = None]
      /\ act' = [act EXCEPT ![a] = noAct]
      /\ failing' = TRUE
Fails(a, why) ==
  /\ invalidateAgentSession(a) /\ refused' = refused \cup why
  /\ UNCHANGED <<retired, opened, overlooked, slot, bounds>>

\* Anything that can go wrong: a policy, a signal, the model, a failed write.
ActivationFails(a) == act[a].at # "idle" /\ Fails(a, {})

\* agent.do: the input is appended, or, when the run was resumed, it is there.
Do(a) ==
  /\ Ready(a) /\ Unlocked(Mem(a))
  /\ LET fresh == ~Interrupted(Mem(a))
         op == IF fresh THEN number + 1 ELSE Last(Said(a))[2]
     IN  /\ act' = [act EXCEPT ![a] = [noAct EXCEPT !.at = "input", !.op = op,
                                                            !.resuming = ~fresh]]
         /\ IF fresh
            THEN /\ number < MaxNumber /\ number' = op
                 /\ memory' = [memory EXCEPT ![Mem(a)].messages = Append(@, <<"in", op>>)]
            ELSE UNCHANGED <<number, memory>>
  /\ UNCHANGED <<agent, retired, failing, executor, slot, refused, prompted, crashes>>

-----------------------------------------------------------------------------
\* The checkpoint of the memory names a session that suits the agent.
canForkLive(a) == Checkpoint(a).session # None /\ Checkpoint(a).prompt = agent[a].prompt

Restores(a, leaf) ==
  /\ agent' = [agent EXCEPT ![a].session = opened + 1, ![a].leaf = leaf,
                            ![a].revision = Checkpoint(a).revision]
  /\ Goes(a, "restored")
  /\ UNCHANGED <<memory, retired, failing, slot, refused, bounds>>

NeedsSession(a) == act[a].at = "input" /\ agent[a].session = None /\ Checkpoint(a) # None

\* restoreAgentSession has nothing to do.
Restored(a) ==
  /\ act[a].at = "input" /\ (agent[a].session # None \/ Checkpoint(a) = None)
  /\ Goes(a, "restored")
  /\ UNCHANGED <<agent, memory, retired, failing, executor, slot, refused, bounds>>

\* Defect: the live session is used as it is.
ForkLive_Shares(a) ==
  /\ NeedsSession(a) /\ canForkLive(a)
  /\ session[Checkpoint(a).session] # None
  /\ agent' = [agent EXCEPT ![a].session = Checkpoint(a).session, ![a].leaf = Checkpoint(a).leaf,
                            ![a].revision = Checkpoint(a).revision]
  /\ Goes(a, "restored")
  /\ UNCHANGED <<memory, retired, failing, executor, slot, refused, bounds>>

\* The executor forks the live session at the checkpoint: the entries up to its
\* leaf, and as many records, made from them anew.  What these lose, the mark of
\* closing words and the type of appended messages, is in the file, which keeps
\* the records it was given: those that had been exported, which may be fewer.
ForkLive(a) ==
  /\ NeedsSession(a) /\ canForkLive(a)
  /\ LET source == session[Checkpoint(a).session]
         entries == SubSeq(source.entries, 1, Checkpoint(a).leaf)
     IN  /\ source # None
         /\ Opens(source.prompt, entries, entries)
         /\ overlooked' = (overlooked \/ Len(entries) # Len(Checkpoint(a).records))
         /\ Restores(a, Len(entries))

\* The session of the checkpoint has been closed: AGENT_SESSION_INVALID.
ForkMissing(a) ==
  /\ NeedsSession(a) /\ canForkLive(a) /\ session[Checkpoint(a).session] = None
  /\ Fails(a, IF failing THEN {} ELSE {"session"})

\* The executor builds a session from exported records, one entry for each.
importSession(prompt, records) == Opens(prompt, records, records)

\* importAgentSession: the continuation of the memory, under the agent's prompt.
ImportSession(a) ==
  /\ NeedsSession(a) /\ ~canForkLive(a)
  /\ importSession(agent[a].prompt, Checkpoint(a).records)
  /\ Restores(a, Len(Checkpoint(a).records))
  /\ UNCHANGED overlooked

-----------------------------------------------------------------------------
\* synchronizeCanonicalContinuation: messages that are not in the continuation
\* yet, but for the input, which the executor will report itself.
Target(a) == IF act[a].resuming THEN Len(Said(a)) ELSE Len(Said(a)) - 1
Unsynchronized(a) == SubSeq(Said(a), persistedRevision(Mem(a)) + 1, Target(a))

\* newContinuationRecords: what is to be written must extend what the file has.
AppendOnly(previous, next) == IsPrefix(previous, next)

\* beginAgentAttempt: messages and continuation are durable; "is not append-only"
\* otherwise (MEMORY_STATE_INVALID).  The first file of a copy begins with the
\* continuation the copy has; what its base has, and where that is written, is
\* left to DoRecovery.
Begin(a) ==
  /\ act[a].at = "restored"
  /\ LET m == Mem(a)
         records == persistedRecords(m) \o Unsynchronized(a)
     IN  IF slot[m] # None /\ ~AppendOnly(slot[m].records, records)
         THEN Fails(a, {"append-only"})
         ELSE /\ slot' = [slot EXCEPT ![m] =
                   [messages |-> Said(a), records |-> records,
                    revision |-> IF Unsynchronized(a) = <<>> THEN persistedRevision(m)
                                 ELSE Target(a)]]
              /\ Goes(a, "begun")
              /\ UNCHANGED <<agent, memory, retired, failing, executor, refused, bounds>>

\* The messages that the session does not have.
Missing(a) == SubSeq(Said(a), agent[a].revision + 1, Len(Said(a)))
resumeNativeSession(a) == act[a].resuming /\ agent[a].session # None /\ Missing(a) = <<>>
\* Those of them that are not the prompt.
Imports(a) == IF resumeNativeSession(a) THEN <<>> ELSE Front(Missing(a))

\* What setTools and setActiveTools add to a session, before the prompt and when
\* the activation ends: no durability event comes with it.
ToolEntry(op) == IF op \in ToolChanges THEN <<<<"tools", op>>>> ELSE <<>>

\* execute() with no session: a new one, to which importMessages brings what the
\* memory has before the prompt.
ExecuteNew(a) ==
  /\ act[a].at = "begun" /\ agent[a].session = None
  /\ Opens(agent[a].prompt, Imports(a) \o ToolEntry(act[a].op), Imports(a))
  /\ act' = [act EXCEPT ![a].at = "prompting", ![a].session = opened + 1, ![a].turn = "prompt"]
  /\ UNCHANGED <<agent, memory, retired, failing, overlooked, slot, refused, bounds>>

Suits(a) == /\ session[agent[a].session] # None
            /\ session[agent[a].session].prompt = agent[a].prompt
            /\ resumeNativeSession(a) \/ Missing(a) # <<>>

\* The entries that a durability event would find new.
Unrecorded(s) == SubSeq(s.entries, s.synced + 1, Len(s.entries))

\* A session after importMessages and configureActivationTools: each import counts
\* one more entry as recorded, also when entries before it are not.
Taught(s, messages, op) == [s EXCEPT !.entries = @ \o messages \o ToolEntry(op),
                                     !.durable = @ \o messages, !.synced = @ + Len(messages)]

\* execute() with the agent's session, which learns what it does not have.
\* requireSession, the revision check or a session with nothing to do refuses.
ExecuteSession(a) ==
  /\ act[a].at = "begun" /\ agent[a].session # None
  /\ IF ~Suits(a) THEN Fails(a, {"unsuited"})
     ELSE /\ session' = [session EXCEPT ![agent[a].session] = Taught(@, Imports(a), act[a].op)]
          /\ overlooked' = (overlooked \/ (Imports(a) # <<>> /\ Unrecorded(session[agent[a].session]) # <<>>))
          /\ act' = [act EXCEPT ![a].at = "prompting", ![a].session = agent[a].session,
                                ![a].turn = "prompt"]
          /\ UNCHANGED <<agent, memory, retired, failing, opened, slot, refused, bounds>>

-----------------------------------------------------------------------------
\* The prompt; that of a resumed attempt is in the memory already, and marked.
Prompt(a) == <<IF resumeNativeSession(a) THEN "again" ELSE "in", act[a].op>>

\* The final text of an activation that has submitted no output.
FinalText(a) == <<IF act[a].op \in Formats THEN "text" ELSE "out", act[a].op>>

\* The entry that the harness adds to the session next: the prompt, any tool
\* turn, the answer.
NextEntries(a) ==
  CASE act[a].turn = "prompt" -> {Prompt(a)}
    [] act[a].turn = "work" -> {<<"mid", act[a].op>>, FinalText(a)}
    [] act[a].turn = "closing" -> {FinalText(a)}
    [] act[a].turn = "submitted" -> {<<"fin", act[a].op>>}
    [] OTHER -> {}

\* What may follow: a tool turn may have been that in which the host accepted a
\* formatted output; without one the final text is not an answer.
After(a, entry) ==
  CASE entry[1] \in {"in", "again"} -> {"work"}
    [] entry[1] = "mid" -> {"closing"} \cup IF act[a].op \in Formats THEN {"submitted"} ELSE {}
    [] entry[1] = "text" -> {"unaccepted"}
    [] OTHER -> {"answered"}

Canonical(records) == OfKind(records, {"out", "text"})

\* Defect: closing words are not marked as non-canonical.
Projected_Unmarked(messages, records) ==
  messages \o OfKind([i \in DOMAIN records |-> <<IF records[i][1] = "fin" THEN "out" ELSE records[i][1],
                                                 records[i][2]>>], {"out", "text"})
\* projectCanonicalRecord: a final text, of which an event brings at most one, is
\* a message of the memory, unless it is the last one already or was marked as
\* non-canonical because a formatted output has been accepted.
Projected(messages, records) ==
  IF messages # <<>> /\ Canonical(records) = <<Last(messages)>> THEN messages
  ELSE messages \o Canonical(records)

\* applyJournalDelta: a delta is one on so many records (MEMORY_STATE_INVALID).
Applies(m, baseRecordCount) == baseRecordCount = Len(slot[m].records)

\* The records are durable, and what they project to is part of the messages.
Continued(file, records) == [file EXCEPT !.records = @ \o records,
                                         !.messages = Projected(@, records),
                                         !.revision = Len(Projected(file.messages, records))]
appendContinuation(m, records) == slot' = [slot EXCEPT ![m] = Continued(@, records)]

\* A session whose new entries have become durable.
Persisted(s, entries, records) == [s EXCEPT !.entries = entries, !.durable = @ \o records,
                                            !.synced = Len(entries)]

\* A durability event: the new entries are persisted, as a delta on the records
\* that the executor thinks are durable, and then counted.
Turn(a) ==
  /\ act[a].at = "prompting"
  /\ \E entry \in NextEntries(a) : \E turn \in After(a, entry) :
       LET s == session[act[a].session]
           m == Mem(a)
           entries == Append(s.entries, entry)
           records == Unrecorded([s EXCEPT !.entries = entries])
       IN  IF ~Applies(m, Len(s.durable)) THEN Fails(a, {"delta"})
           ELSE /\ appendContinuation(m, records)
                /\ session' = [session EXCEPT ![act[a].session] = Persisted(@, entries, records)]
                /\ act' = [act EXCEPT ![a].turn = turn]
                /\ UNCHANGED <<agent, memory, retired, failing, opened, overlooked, refused, bounds>>

\* Defect: the session is checkpointed before the answer is appended.
Return_Early(a) ==
  /\ act[a].at = "prompting" /\ act[a].turn = "answered"
  /\ LET s == session[act[a].session]
         m == Mem(a)
         messages == Append(Said(a), <<"out", act[a].op>>)
     IN  /\ agent' = [agent EXCEPT ![a] = [@ EXCEPT !.session = act[a].session,
                                              !.leaf = Len(s.entries), !.revision = Len(Said(a))]]
         /\ memory' = [memory EXCEPT ![m] =
              [messages |-> messages,
               checkpoint |-> [session |-> act[a].session, leaf |-> Len(s.entries),
                               records |-> s.durable, revision |-> Len(Said(a)),
                               prompt |-> agent[a].prompt]]]
         /\ slot' = [slot EXCEPT ![m] = [messages |-> messages, records |-> s.durable,
                                         revision |-> Len(Said(a))]]
  /\ act' = [act EXCEPT ![a] = noAct]
  /\ UNCHANGED <<retired, failing, executor, refused, bounds>>

\* What an executor exports of a session: the records that events have persisted.
exportSession(s) == session[s].durable

\* The executor completes, an answer having been accepted: the tools are restored,
\* the answer is appended, the session is checkpointed and exported, the memory
\* is saved, and the activation ends.
Return(a) ==
  /\ act[a].at = "prompting" /\ act[a].turn = "answered"
  /\ LET entries == session[act[a].session].entries \o ToolEntry(act[a].op)
         m == Mem(a)
         messages == Append(Said(a), <<"out", act[a].op>>)
     IN  /\ session' = [session EXCEPT ![act[a].session].entries = entries]
         /\ agent' = [agent EXCEPT ![a] = [@ EXCEPT !.session = act[a].session,
                                              !.leaf = Len(entries), !.revision = Len(messages)]]
         /\ memory' = [memory EXCEPT ![m] =
              [messages |-> messages,
               checkpoint |-> [session |-> act[a].session, leaf |-> Len(entries),
                               records |-> exportSession(act[a].session),
                               revision |-> Len(messages),
                               prompt |-> agent[a].prompt]]]
         /\ slot' = [slot EXCEPT ![m] = [messages |-> messages,
                                         records |-> exportSession(act[a].session),
                                         revision |-> Len(messages)]]
  /\ act' = [act EXCEPT ![a] = noAct]
  /\ UNCHANGED <<retired, failing, opened, overlooked, refused, bounds>>

-----------------------------------------------------------------------------
\* memory.append: durable at once when the memory has a file.
AppendMessage(m) ==
  /\ memory[m] # None /\ Usable(m) /\ number < MaxNumber /\ number' = number + 1
  /\ LET messages == Append(memory[m].messages, <<"app", number + 1>>)
     IN  /\ memory' = [memory EXCEPT ![m].messages = messages]
         /\ slot' = [slot EXCEPT ![m] =
              IF @ = None THEN None
              ELSE [@ EXCEPT !.messages = messages, !.records = persistedRecords(m),
                             !.revision = persistedRevision(m)]]
  /\ UNCHANGED <<agent, act, retired, failing, executor, refused, prompted, crashes>>

\* memory.copy: messages and checkpoint, the reference to the live session included.
Copy(m, n) ==
  /\ memory[m] # None /\ Usable(m) /\ memory[n] = None
  /\ memory' = [memory EXCEPT ![n] = memory[m]]
  /\ UNCHANGED <<agent, act, retired, failing, executor, slot, refused, bounds>>

Takes(a, b, n) == agent' = [agent EXCEPT ![b] = [noAgent EXCEPT !.memory = n,
                                                                !.prompt = agent[a].prompt]]

\* agent.with_memory: another agent, configured as a is, on a memory nobody has.
WithMemory(a, b, n) ==
  /\ Ready(a) /\ ~Exists(b)
  /\ memory[n] # None /\ ~Owned(n)
  /\ Takes(a, b, n)
  /\ UNCHANGED <<memory, act, retired, failing, executor, slot, refused, bounds>>

\* fork: a copy of a's memory, an agent on it, and its first activation.
Fork(a, b, n) ==
  /\ Ready(a) /\ Usable(Mem(a)) /\ ~Exists(b) /\ memory[n] = None
  /\ number < MaxNumber /\ number' = number + 1
  /\ Takes(a, b, n)
  /\ memory' = [memory EXCEPT ![n] = [messages |-> Append(Said(a), <<"in", number + 1>>),
                                      checkpoint |-> Checkpoint(a)]]
  /\ act' = [act EXCEPT ![b] = [noAct EXCEPT !.at = "input", !.op = number + 1]]
  /\ UNCHANGED <<retired, failing, executor, slot, refused, prompted, crashes>>

\* agent.system_prompt: the agent lets go of its session under the locks, and
\* its memory keeps what has been exported ...
SystemPrompt(a, prompt) ==
  /\ Ready(a) /\ Usable(Mem(a))
  /\ prompted < MaxPrompts /\ prompted' = prompted + 1
  /\ agent' = [agent EXCEPT ![a] = [@ EXCEPT !.prompt = prompt, !.session = None,
                                             !.leaf = 0, !.revision = 0]]
  /\ memory' = [memory EXCEPT ![Mem(a)].checkpoint =
       IF @ = None THEN None ELSE [@ EXCEPT !.session = None, !.leaf = 0, !.prompt = prompt]]
  /\ retired' = [retired EXCEPT ![a] = agent[a].session]
  /\ UNCHANGED <<act, failing, executor, slot, refused, number, crashes>>

\* ... and the session is closed when the locks have been released.
CloseRetired(a) ==
  /\ retired[a] # None
  /\ session' = Closed({retired[a]})
  /\ retired' = [retired EXCEPT ![a] = None]
  /\ UNCHANGED <<agent, memory, act, failing, opened, overlooked, slot, refused, bounds>>

\* The process stops, and another one executes the program again: memories that
\* have a file are what the store loads, and those that are copies are made again.
Crash ==
  /\ crashes < MaxCrashes /\ ~failing /\ crashes' = crashes + 1
  /\ session' = [s \in DOMAIN session |-> None]
  /\ act' = [a \in Agents |-> noAct] /\ retired' = [a \in Agents |-> None]
  /\ memory' = [m \in Memories |->
       IF slot[m] # None
       THEN [messages |-> slot[m].messages,
             checkpoint |-> [session |-> None, leaf |-> 0, prompt |-> None,
                             records |-> Loaded(m), revision |-> Len(slot[m].messages)]]
       ELSE IF m = Main /\ memory[m] # None THEN [memory[m] EXCEPT
              !.messages = OfKind(@, {"app"})] ELSE None]
  /\ agent' = [a \in Agents |->
       IF Exists(a) /\ (slot[Mem(a)] # None \/ Mem(a) = Main)
       THEN [agent[a] EXCEPT !.session = None, !.leaf = 0, !.revision = 0]
       ELSE noAgent]
  /\ UNCHANGED <<failing, opened, overlooked, slot, refused, number, prompted>>

Step(a) == \/ Restored(a) \/ ForkLive(a) \/ ForkMissing(a) \/ ImportSession(a)
           \/ Begin(a) \/ ExecuteNew(a) \/ ExecuteSession(a)
           \/ Turn(a) \/ Return(a) \/ CloseRetired(a)

Next == \/ \E a \in Agents : Do(a) \/ Step(a) \/ ActivationFails(a)
        \/ \E a \in Agents, prompt \in Prompts : SystemPrompt(a, prompt)
        \/ \E a, b \in Agents, n \in Memories : WithMemory(a, b, n) \/ Fork(a, b, n)
        \/ \E m, n \in Memories : Copy(m, n)
        \/ \E m \in Memories : AppendMessage(m)
        \/ Crash

Spec == Init /\ [][Next]_vars

-----------------------------------------------------------------------------
InPrompt(a) == act[a].at = "prompting" /\ act[a].turn # "prompt"
Native(a) == session[act[a].session]

\* The messages that the entries of a session stand for, but for the answer to
\* op.  The closing words after a formatted output stand for it; an activation
\* that was resumed may have said them twice, or have ended with another text.
Stated(entry) == IF entry[1] = "fin" THEN <<"out", entry[2]>> ELSE entry
Counts(entries, i, op) ==
  /\ entries[i][1] \in {"in", "app", "out", "text", "fin"}
  /\ entries[i] \notin {"out", "text", "fin"} \X {op}
  /\ entries[i][1] = "fin" => \A j \in DOMAIN entries :
       /\ entries[j] # <<"text", entries[i][2]>>
       /\ entries[j] = entries[i] => j >= i
Conversation(entries, op) == Chosen([i \in DOMAIN entries |-> Stated(entries[i])],
                                    {i \in DOMAIN entries : Counts(entries, i, op)})

(* Whatever happened to the agent and its memory before, the model that is   *)
(* prompted sees the messages of the AFL Memory, each of them once and in    *)
(* order, under the system prompt that the program has set.  A session that  *)
(* has gone on over unrecorded entries counts some of its records twice: it  *)
(* is not promised for a run after that.                                     *)
ContextExact ==
  \A a \in Agents : InPrompt(a) /\ ~overlooked =>
    /\ Native(a).prompt = agent[a].prompt
    /\ Conversation(Native(a).entries, act[a].op) = Said(a)

\* What the memory file has of the answer that the model has given: a final text
\* is there before agent.do has it, a formatted output is not, and the text that
\* came instead of one is.
Given(a) == IF act[a].turn = "unaccepted" \/ (act[a].turn = "answered" /\ act[a].op \notin Formats)
            THEN <<FinalText(a)>> ELSE <<>>

(* The file can replace the session at any moment: what the store would load *)
(* is entry for entry what the executor has, and the messages are those of   *)
(* the memory with the final text the model has given, as soon as and only   *)
(* when it has, and no delta is refused for its count.  It holds until a     *)
(* session is forked, or is given messages, with a change of tools at its    *)
(* end that no event has recorded: then the executor counts a record that    *)
(* the file does not have, and its next delta may be refused or repeat a     *)
(* message.  No write is ever refused as not append-only.                    *)
JournalExact ==
  /\ "append-only" \notin refused
  /\ "delta" \in refused => overlooked
  /\ \A a \in Agents : InPrompt(a) /\ ~overlooked =>
       /\ Loaded(Mem(a)) = Native(a).entries
       /\ slot[Mem(a)].messages = Said(a) \o Given(a)

Holders(s) == {<<a, "agent">> : a \in {b \in Agents : agent[b].session = s}} \cup
              {<<a, "retired">> : a \in {b \in Agents : retired[b] = s}} \cup
              {<<a, "agent">> : a \in {b \in Agents : act[b].session = s}}

(* No session is shared, left behind or closed under its agent: the live     *)
(* sessions are those that one agent uses or is closing, and no activation   *)
(* finds its own session closed or of another prompt.  Only a checkpoint may *)
(* name a session that is no more, and then a system prompt has been set.    *)
SessionsOwned ==
  /\ \A s \in DOMAIN session : Cardinality(Holders(s)) = IF session[s] = None THEN 0 ELSE 1
  /\ "unsuited" \notin refused
  /\ "session" \in refused => prompted > 0
=============================================================================
