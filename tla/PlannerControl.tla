---------------------------- MODULE PlannerControl ----------------------------
(***************************************************************************)
(* The planner of agent.route and agent.flow (src/src/vm.ts,               *)
(* src/src/freedom.ts).  Its executor calls control tools and asks the     *)
(* human; each call is an operation of the recovery journal, nested in the *)
(* one of the planner.  The effect of a control call on the activation's   *)
(* scope is journaled as a snapshot of it, and delivered in order once the *)
(* executor has made the result durable.  A process can stop anywhere; the *)
(* next one restores the last delivered snapshot and runs the planner      *)
(* again, which repeats the calls it has no result of, or makes others.    *)
(***************************************************************************)
EXTENDS Naturals, Sequences, FiniteSets

CONSTANTS Requests,    \* 1..n: the ids the executor gives its calls
          Calls,       \* Calls[m]: the calls a planner makes in mode m: <<tool, input>>
          Denied,      \* the calls that the policy denies
          MinRoutes, MaxRoutes, MaxControl, MaxIr,  \* the limits of the activation
          Together, OverlapIn,  \* bound the calls that overlap to these ids, in the processes
                       \* of these numbers, and to calls of the same kind
          MaxResumes,  \* bounds the processes that resume the run
          None         \* no call

ASSUME LimitAssumption ==
  /\ {MinRoutes, MaxRoutes, MaxControl, MaxIr, MaxResumes} \subseteq Nat
  /\ MinRoutes <= MaxRoutes /\ MaxRoutes > 0 /\ MaxControl > 0 /\ MaxIr > 0
Modes == {"route", "flow"}
AllCalls == UNION {Calls[m] : m \in Modes}
\* What is put to the human: an input, or a transaction to approve.
IsAsk(c) == c[1] \in {"ask", "approve"}
\* The control tools of a mode.
Tools(m) == IF m = "route" THEN {"look", "route"} ELSE {"look", "node", "validate", "execute"}

ASSUME CallAssumption ==
  /\ Requests \subseteq Nat \ {0} /\ Together \subseteq Requests /\ Denied \subseteq AllCalls
  /\ \A m \in Modes : \A c \in Calls[m] : IsAsk(c) \/ c[1] \in Tools(m)

\* A registered route, by the operation of the call, and a scope or its snapshot.
Registered == [order : Nat, op : Requests \cup {0}]
Scopes == [control : Nat, routes : Nat, order : Nat, queued : SUBSET Registered,
           validations : Nat, executions : Nat, results : Nat]

\* None is no scope, and not the answer of an operation.
ASSUME NoneAssumption == None \notin Scopes \cup (Nat \X BOOLEAN)

VARIABLES mode,       \* "route" or "flow"
          ops,        \* durable: the nested operations, by the request that created them
          delivered,  \* durable: how many control results the planner has incorporated
          final,      \* durable: the scope the planner completed with, or None
          told,       \* durable, with the executor: the results in its continuation
          phase,      \* "down", "planning", "returned", "planned", "launched", "failed"
          scope,      \* volatile: counters, registered routes and results
          call,       \* volatile: what each request is doing
          queue,      \* volatile: appends to the journal that are not on disk yet
          aborted,    \* volatile: cancelled by the caller or by the timeout
          resumes,    \* processes that have resumed the run
          overlapped, \* history: control calls have been in progress together
          attempts,   \* history: executions of each operation
          children,   \* history: what the planner ran: the number in the path, the operation,
                      \* and, in the operation's last execution, the number of the route or 0
          asked,      \* history: the processes that presented each question
          started     \* history: the sets of routes started after the planner

durable == <<ops, delivered, final>>
history == <<overlapped, attempts, children, asked, started>>
vars == <<mode, ops, delivered, final, told, phase, scope, call, queue, aborted, resumes,
          overlapped, attempts, children, asked, started>>

-----------------------------------------------------------------------------
emptyScope == [control |-> 0, routes |-> 0, order |-> 0, queued |-> {},
               validations |-> 0, executions |-> 0, results |-> 0]
noCall == [at |-> "idle", c |-> None, op |-> 0, seen |-> 0, waits |-> 0,
           index |-> 0, order |-> 0, path |-> 0, ok |-> FALSE, try |-> 0, snap |-> emptyScope]
noOp == [status |-> "none", c |-> None, index |-> 0, ok |-> FALSE, try |-> 0,
         snap |-> emptyScope]

Known == {o \in Requests : ops[o].status # "none"}
Controls == {o \in Known : ~IsAsk(ops[o].c)}
Asks == Known \ Controls
Completed(o) == ops[o].status = "completed"

\* The calls bound to an operation of the journal in this process: `current`.
Bound == {call[r].op : r \in {q \in Requests :
            call[q].at \notin {"idle", "preparing", "prepared", "done"}}}
InCall(r) == call[r].at \notin {"idle", "done", "threw"}
Settled == queue = <<>> /\ \A r \in Requests : ~InCall(r)

\* restoreFreedomSnapshot refuses a snapshot with a counter above its limit.
Restorable(s) == /\ s.control <= MaxControl /\ s.routes <= MaxRoutes
                 /\ s.validations <= MaxIr /\ s.executions <= MaxIr

\* Defect: registered routes are not part of what is restored.
Restored_NoRoutes(s) == [s EXCEPT !.queued = {}]
\* Defect: the number of control calls is not part of what is restored.
Restored_NoCount(s) == [s EXCEPT !.control = 0]
\* All counters, the routes and the results are replaced by those of the snapshot.
Restored(s) == s

\* Defect: what an interrupted process left is ignored.
Pending_Ignored == {}
\* Control operations that the planner has still to be told of.
Pending == {o \in Controls \ Bound : Completed(o) => ops[o].index > delivered}
\* Defect: a result that has not been delivered is no reason to refuse the output.
Unsettled_Open == {o \in Known : ~Completed(o)}
\* Operations without a result that the planner has durably.
Unsettled == {o \in Known : ~Completed(o) \/ (o \in Controls /\ ops[o].index > delivered)}

-----------------------------------------------------------------------------
Init == /\ mode \in Modes
        /\ ops = [r \in Requests |-> noOp] /\ delivered = 0 /\ final = None /\ told = {}
        /\ phase = "planning" /\ scope = emptyScope
        /\ call = [r \in Requests |-> noCall] /\ queue = <<>> /\ aborted = FALSE
        /\ resumes = 0 /\ overlapped = FALSE
        /\ attempts = [r \in Requests |-> 0] /\ children = {}
        /\ asked = [c \in AllCalls |-> {}] /\ started = {}

Goes(r, place) == call' = [call EXCEPT ![r].at = place]
Ends(r, how) == call' = [call EXCEPT ![r] = [noCall EXCEPT !.at = how, !.c = call[r].c,
                                                                  !.op = call[r].op]]
Throws(r) == Ends(r, "threw")
Enqueues(kind, r, o) == queue' = Append(queue, [kind |-> kind, req |-> r, op |-> o])
Binds(r, c, o, place) ==
  call' = [call EXCEPT ![r] = [noCall EXCEPT !.at = place, !.c = c, !.op = o,
                                 !.seen = delivered, !.index = scope.control + 1]]

\* The executor makes a call: under a new id, or, in another process, again.
MayCall(r, c) ==
  /\ phase = "planning" /\ ~aborted /\ call[r].at = "idle"
  /\ r \in Together \/ ~overlapped
  /\ \A q \in Requests :
       InCall(q) => /\ resumes \in OverlapIn /\ {q, r} \subseteq Together
                    /\ IsAsk(c) <=> IsAsk(call[q].c)
  /\ IF r \in Known THEN c = ops[r].c
     ELSE \A q \in Requests : q < r => q \in Known \/ call[q].at # "idle"
Overlaps == overlapped' = (overlapped \/ \E q \in Requests : InCall(q) /\ ~IsAsk(call[q].c))

-----------------------------------------------------------------------------
\* executeAgentControlEffect finds the operation of the call: its own, ...
CallAgain(r, c) ==
  /\ MayCall(r, c) /\ ~IsAsk(c) /\ r \in Known
  /\ Binds(r, c, r, "prepared") /\ Overlaps
  /\ UNCHANGED <<mode, durable, told, phase, scope, queue, aborted, resumes, attempts,
                 children, asked, started>>

\* ... the one that an interrupted process left with the same tool and input, ...
Matching(c) == {o \in Pending : ops[o].c = c}

CallRebound(r, c) ==
  /\ MayCall(r, c) /\ ~IsAsk(c) /\ r \notin Known /\ Cardinality(Matching(c)) = 1
  /\ \E o \in Matching(c) : Binds(r, c, o, "prepared")
  /\ Overlaps
  /\ UNCHANGED <<mode, durable, told, phase, scope, queue, aborted, resumes, attempts,
                 children, asked, started>>

\* RECOVERY_OPERATION_AMBIGUOUS: no one of those that are left.
CallUnmatched(r, c) ==
  /\ MayCall(r, c) /\ ~IsAsk(c) /\ r \notin Known
  /\ Pending # {} /\ Cardinality(Matching(c)) # 1
  /\ Throws(r) /\ Overlaps
  /\ UNCHANGED <<mode, durable, told, phase, scope, queue, aborted, resumes, attempts,
                 children, asked, started>>

\* ... or a new one, whose index is read from the scope before it is prepared.
CallNew(r, c) ==
  /\ MayCall(r, c) /\ ~IsAsk(c) /\ r \notin Known /\ Pending = {}
  /\ Binds(r, c, r, "preparing") /\ Enqueues("prepare", r, r) /\ Overlaps
  /\ UNCHANGED <<mode, durable, told, phase, scope, aborted, resumes, attempts, children,
                 asked, started>>

-----------------------------------------------------------------------------
\* The operation is durable, and was so before the call perhaps.
Execution(r) == call[r].at = "prepared" /\ ~IsAsk(call[r].c)

BeginAmbiguous(r) ==
  /\ Execution(r) /\ ops[call[r].op].status = "ambiguous"
  /\ call' = [call EXCEPT ![r] = [noCall EXCEPT !.at = "threw"]]
  /\ UNCHANGED <<mode, durable, told, phase, scope, queue, aborted, resumes, history>>

\* The operation has a result already.  Its scope is restored if it is the next
\* to be delivered; one that has been delivered must not be called again.
BeginReplay(r) ==
  LET o == call[r].op
      next == ops[o].index = call[r].seen + 1
      good == ops[o].index > call[r].seen /\ (next => Restorable(ops[o].snap))
  IN  /\ Execution(r) /\ Completed(o)
      /\ scope' = IF good /\ next THEN Restored(ops[o].snap) ELSE scope
      /\ call' = [call EXCEPT ![r] = [@ EXCEPT !.at = IF good THEN "result" ELSE "threw",
                     !.ok = ops[o].ok, !.try = ops[o].try]]
      /\ UNCHANGED <<mode, durable, told, phase, queue, aborted, resumes, history>>

\* Capacity for one more Node, to be run or registered.
Room == scope.routes < MaxRoutes
\* The limits of the tool itself.
Within(tool) == CASE tool = "look" -> TRUE
                  [] tool \in {"route", "node"} -> Room
                  [] tool = "validate" -> scope.validations < MaxIr
                  [] tool = "execute" -> scope.executions < MaxIr

\* What an earlier execution of an operation ran has no route of its own any more.
Superseded(o) == {IF p[2] = o THEN <<p[1], o, 0>> ELSE p : p \in children}

\* executeFreedomTool, up to the question to the policy: a call counts even if
\* it is refused, and so do a validation and an execution.
BeginExecute(r) ==
  LET o == call[r].op
      tool == call[r].c[1]
      counts == scope.control < MaxControl
      within == Within(tool)
      used(t) == IF counts /\ tool = t THEN 1 ELSE 0
      place == IF ~counts \/ ~within \/ tool \in {"look", "validate"} THEN "executed" ELSE "policy"
  IN  /\ Execution(r) /\ ops[o].status = "prepared" /\ ~aborted
      /\ scope' = [scope EXCEPT !.control = @ + 1,
                               !.validations = @ + used("validate"),
                               !.executions = @ + used("execute"),
                               !.order = @ + (IF within THEN used("route") ELSE 0)]
      /\ attempts' = [attempts EXCEPT ![o] = @ + 1]
      /\ children' = Superseded(o)
      /\ call' = [call EXCEPT ![r] = [@ EXCEPT !.at = place, !.order = scope.order,
                     !.ok = counts /\ within, !.try = attempts[o] + 1]]
      /\ UNCHANGED <<mode, durable, told, phase, queue, aborted, resumes, overlapped,
                     asked, started>>

Refuses(r) == call' = [call EXCEPT ![r] = [@ EXCEPT !.at = "executed", !.ok = FALSE]]

\* The number in the activation path of what a control call runs.
PathNumber == scope.control

\* The policy answers.  A route is reserved and registered, a Node call is
\* reserved and starts, and a generated program starts: under the number of
\* control calls made by now.
Policy(r) ==
  LET tool == call[r].c[1]
      reserves == tool \in {"route", "node"}
      number == IF tool = "node" THEN scope.routes + 1 ELSE 0
  IN  /\ call[r].at = "policy" /\ ~aborted
      /\ IF call[r].c \in Denied \/ (reserves /\ ~Room)
         THEN Refuses(r) /\ UNCHANGED <<scope, children>>
         ELSE /\ call' = [call EXCEPT ![r] = [@ EXCEPT !.path = PathNumber,
                   !.at = CASE tool = "route" -> "executed" [] tool = "node" -> "child"
                            [] tool = "execute" -> "generated"]]
              /\ scope' = [scope EXCEPT !.routes = @ + (IF reserves THEN 1 ELSE 0),
                   !.queued = @ \cup (IF tool = "route"
                                      THEN {[order |-> call[r].order, op |-> call[r].op]} ELSE {})]
              /\ children' = children \cup (IF tool = "route" THEN {}
                                             ELSE {<<PathNumber, call[r].op, number>>})
      /\ UNCHANGED <<mode, durable, told, phase, queue, aborted, resumes, overlapped,
                     attempts, asked, started>>

\* Generated code calls an allowed Node, or dispatches several: they need capacity
\* as well, all of it at once, and run under the path of the program.
GeneratedCall(r) ==
  /\ call[r].at = "generated" /\ ~aborted
  /\ \E nodes \in 1..(MaxRoutes + 1) :
       IF scope.routes + nodes <= MaxRoutes
       THEN /\ scope' = [scope EXCEPT !.routes = @ + nodes]
            /\ children' = children \cup {<<call[r].path, call[r].op, n>> :
                                            n \in (scope.routes + 1)..(scope.routes + nodes)}
            /\ Goes(r, "child")
       ELSE Refuses(r) /\ UNCHANGED <<scope, children>>
  /\ UNCHANGED <<mode, durable, told, phase, queue, aborted, resumes, overlapped, attempts,
                 asked, started>>

\* The tool has run its Node or program: its result gets a reference, or it fails.
Returns(r) == \/ Goes(r, "executed") /\ scope' = [scope EXCEPT !.results = @ + 1]
              \/ Refuses(r) /\ UNCHANGED scope

\* The program ends, having called any number of Nodes.
GeneratedEnds(r) ==
  /\ call[r].at = "generated" /\ ~aborted /\ Returns(r)
  /\ UNCHANGED <<mode, durable, told, phase, queue, aborted, resumes, history>>

\* The Node ends: its program goes on, and fails if it has failed.
ChildEnds(r) ==
  /\ call[r].at = "child" /\ ~aborted
  /\ IF call[r].c[1] = "node" THEN Returns(r)
     ELSE (Goes(r, "generated") \/ Refuses(r)) /\ UNCHANGED scope
  /\ UNCHANGED <<mode, durable, told, phase, queue, aborted, resumes, history>>

\* Defect: who waits for an earlier delivery is not told of the abort.
Listening_Deaf == {"policy", "generated", "child"}
Listening == {"policy", "generated", "child", "waiting"}

\* An aborted activation throws from wherever the call waits.
CallAborted(r) ==
  /\ aborted /\ \/ call[r].at \in Listening
                \/ Execution(r) /\ ops[call[r].op].status = "prepared"
  /\ Throws(r)
  /\ UNCHANGED <<mode, durable, told, phase, scope, queue, aborted, resumes, history>>

\* freedomSnapshot: counters, routes and results as they are by now.
freedomSnapshot == scope

\* The result is journaled with the snapshot.
Record(r) ==
  /\ call[r].at = "executed"
  /\ IF scope.control < ops[call[r].op].index
     THEN Throws(r) /\ UNCHANGED queue
     ELSE /\ call' = [call EXCEPT ![r] = [@ EXCEPT !.at = "recording", !.snap = freedomSnapshot]]
          /\ Enqueues("complete", r, call[r].op)
  /\ UNCHANGED <<mode, durable, told, phase, scope, aborted, resumes, history>>

-----------------------------------------------------------------------------
\* prepareAgentNestedOperation compares a question with those of its kind.
AsksLike(c) == {o \in Asks : ops[o].c[1] = c[1]}
Same(c) == {o \in AsksLike(c) : ops[o].c = c}

\* A question that was asked under this id, or one of the same text that has its
\* answer, is not asked again, ...
AskAgain(r, c) ==
  /\ MayCall(r, c) /\ IsAsk(c)
  /\ \E o \in Asks : /\ r = o \/ (r \notin Known /\ Same(c) = {o} /\ Completed(o))
                     /\ Binds(r, c, o, "found")
  /\ UNCHANGED <<mode, durable, told, phase, scope, queue, aborted, resumes, history>>

\* ... and none is asked while another one of its kind has no answer, ...
AskBlocked(r, c) ==
  /\ MayCall(r, c) /\ IsAsk(c) /\ r \notin Known
  /\ ~\E o \in AsksLike(c) : Same(c) = {o} /\ Completed(o)
  /\ IF \A o \in AsksLike(c) : Completed(o)
     THEN Cardinality(Same(c)) > 1 /\ Throws(r) /\ UNCHANGED queue
     ELSE \E o \in AsksLike(c) : /\ ~Completed(o) /\ Binds(r, c, o, "marking")
                                  /\ Enqueues("ambiguous", r, o)
  /\ UNCHANGED <<mode, durable, told, phase, scope, aborted, resumes, history>>

\* ... else it is prepared, and then put to the human.
AskNew(r, c) ==
  /\ MayCall(r, c) /\ IsAsk(c) /\ r \notin Known
  /\ \A o \in AsksLike(c) : Completed(o) /\ ops[o].c # c
  /\ Binds(r, c, r, "preparing") /\ Enqueues("prepare", r, r)
  /\ UNCHANGED <<mode, durable, told, phase, scope, aborted, resumes, history>>

\* The answer in the journal is reused.  A question without one may have been
\* put to the human before.
AskFound(r) ==
  /\ call[r].at = "found"
  /\ IF Completed(call[r].op)
     THEN /\ call' = [call EXCEPT ![r] = [@ EXCEPT !.at = "result",
                        !.ok = ops[call[r].op].ok, !.try = ops[call[r].op].try]]
          /\ UNCHANGED queue
     ELSE Goes(r, "marking") /\ Enqueues("ambiguous", r, call[r].op)
  /\ UNCHANGED <<mode, durable, told, phase, scope, aborted, resumes, history>>

Present(r) ==
  /\ call[r].at = "prepared" /\ IsAsk(call[r].c)
  /\ attempts' = [attempts EXCEPT ![call[r].op] = @ + 1]
  /\ call' = [call EXCEPT ![r] = [@ EXCEPT !.at = "asking", !.ok = TRUE,
                                          !.try = attempts[call[r].op] + 1]]
  /\ asked' = [asked EXCEPT ![call[r].c] = @ \cup {resumes}]
  /\ UNCHANGED <<mode, durable, told, phase, scope, queue, aborted, resumes, overlapped,
                 children, started>>

\* The human answers an input, and approves or denies a transaction, ...
Answered(r) ==
  /\ call[r].at = "asking"
  /\ \E ok \in IF call[r].c[1] = "approve" THEN BOOLEAN ELSE {TRUE} :
       call' = [call EXCEPT ![r] = [@ EXCEPT !.at = "recording", !.ok = ok]]
  /\ Enqueues("complete", r, call[r].op)
  /\ UNCHANGED <<mode, durable, told, phase, scope, aborted, resumes, history>>

\* ... or the host fails, as it does when it is cancelled.
AskFails(r) ==
  /\ call[r].at = "asking"
  /\ Goes(r, "marking") /\ Enqueues("ambiguous", r, call[r].op)
  /\ UNCHANGED <<mode, durable, told, phase, scope, aborted, resumes, history>>

-----------------------------------------------------------------------------
\* The first append of the queue is on disk, and the call goes on.
Prepared(r, o) ==
  /\ ops' = [ops EXCEPT ![o] = [noOp EXCEPT !.status = "prepared", !.c = call[r].c,
                                           !.index = call[r].index]]
  /\ call' = [call EXCEPT ![r] = [@ EXCEPT !.at = "prepared", !.index = 0]]
  /\ UNCHANGED <<delivered, final, phase>>

\* completeOperation: the first result stays, and an ambiguous operation gets none.
Done(r, o) ==
  /\ IF ops[o].status = "prepared"
     THEN /\ ops' = [ops EXCEPT ![o] = [@ EXCEPT !.status = "completed", !.ok = call[r].ok,
                                               !.try = call[r].try, !.snap = call[r].snap]]
          /\ call' = [call EXCEPT ![r] = [@ EXCEPT !.at = "result", !.snap = emptyScope]]
     ELSE UNCHANGED ops /\ Throws(r)
  /\ UNCHANGED <<delivered, final, phase>>

Marked(r, o) ==
  /\ ops' = [ops EXCEPT ![o].status = IF @ = "completed" THEN @ ELSE "ambiguous"]
  /\ Throws(r) /\ UNCHANGED <<delivered, final, phase>>

Progress(r, o) ==
  /\ delivered' = ops[o].index
  /\ Ends(r, "done") /\ UNCHANGED <<ops, final, phase>>

Planned == /\ final' = scope /\ phase' = "planned"
           /\ UNCHANGED <<ops, delivered, call>>

Append1 ==
  /\ queue # <<>> /\ queue' = Tail(queue)
  /\ LET w == Head(queue)
     IN  \/ w.kind = "prepare" /\ Prepared(w.req, w.op)
         \/ w.kind = "complete" /\ Done(w.req, w.op)
         \/ w.kind = "ambiguous" /\ Marked(w.req, w.op)
         \/ w.kind = "progress" /\ Progress(w.req, w.op)
         \/ w.kind = "planner" /\ Planned
  /\ UNCHANGED <<mode, told, scope, aborted, resumes, history>>

-----------------------------------------------------------------------------
\* Defect: the executor gets the result before the journal has it.
Incorporate_Early(r) ==
  /\ call[r].at = "recording"
  /\ told' = told \cup {<<call[r].op, <<call[r].try, call[r].ok>>>>}
  /\ UNCHANGED <<mode, durable, phase, scope, call, queue, aborted, resumes, history>>

\* The executor makes the result durable in its continuation.
Incorporate(r) ==
  /\ call[r].at = "result"
  /\ told' = told \cup {<<call[r].op, <<call[r].try, call[r].ok>>>>}
  /\ IF IsAsk(call[r].c) THEN Ends(r, "done") ELSE Ends(r, "told")
  /\ UNCHANGED <<mode, durable, phase, scope, queue, aborted, resumes, history>>

\* completeAgentControlEffect: results are delivered in the order of their
\* indexes, each once.  The scope becomes the snapshot of the result.
Delivers(r) ==
  LET snap == ops[call[r].op].snap
  IN  IF Restorable(snap)
      THEN /\ scope' = Restored(snap) /\ Goes(r, "delivering")
           /\ Enqueues("progress", r, call[r].op)
      ELSE Throws(r) /\ UNCHANGED <<scope, queue>>
WaitsFor(r) == /\ call' = [call EXCEPT ![r] = [@ EXCEPT !.at = "waiting", !.waits = delivered + 1]]
               /\ UNCHANGED <<scope, queue>>

Complete(r) ==
  LET index == ops[call[r].op].index
  IN  /\ call[r].at = "told"
      /\ \/ index <= delivered /\ Throws(r) /\ UNCHANGED <<scope, queue>>
         \/ index > delivered + 1 /\ WaitsFor(r)
         \/ index = delivered + 1 /\ Delivers(r)
      /\ UNCHANGED <<mode, durable, told, phase, aborted, resumes, history>>

\* The waiter is resolved: what it finds now can be any index up to its own.
Woken(r) ==
  /\ call[r].at = "waiting" /\ delivered >= call[r].waits
  /\ IF ops[call[r].op].index > delivered + 1 THEN WaitsFor(r) ELSE Delivers(r)
  /\ UNCHANGED <<mode, durable, told, phase, aborted, resumes, history>>

-----------------------------------------------------------------------------
\* The planner returns its output, and its own operation is completed.
PlannerReturns ==
  /\ phase = "planning" /\ Settled /\ ~aborted /\ Unsettled = {}
  /\ phase' = "returned" /\ Enqueues("planner", 0, 0)
  /\ UNCHANGED <<mode, durable, told, scope, call, aborted, resumes, history>>

Down == /\ scope' = emptyScope /\ call' = [r \in Requests |-> noCall] /\ queue' = <<>>
        /\ aborted' = FALSE

\* The registered routes start, or there are fewer than min_routes.
Launch ==
  /\ phase = "planned"
  /\ IF scope.routes < MinRoutes THEN phase' = "failed" /\ UNCHANGED started
     ELSE phase' = "launched" /\ started' = started \cup {scope.queued}
  /\ Down
  /\ UNCHANGED <<mode, durable, told, resumes, overlapped,
                 attempts, children, asked>>

\* finalizeAgentNestedEffects finds an operation without a delivered result:
\* the run is interrupted.
PlannerRefused ==
  /\ phase = "planning" /\ Settled /\ ~aborted
  /\ \E o \in Unsettled :
       ops' = [ops EXCEPT ![o].status = IF @ = "completed" THEN @ ELSE "ambiguous"]
  /\ phase' = "down" /\ Down
  /\ UNCHANGED <<mode, delivered, final, told, resumes, history>>

\* The executor fails with a call that threw, and the run with it.
Fail == /\ phase = "planning" /\ Settled /\ \E r \in Requests : call[r].at = "threw"
        /\ phase' = "failed" /\ Down
        /\ UNCHANGED <<mode, durable, told, resumes, history>>

\* The caller aborts the run, or timeout_ms is over.
Abort == /\ phase = "planning" /\ ~Settled /\ ~aborted /\ aborted' = TRUE
         /\ UNCHANGED <<mode, durable, told, phase, scope, call, queue, resumes, history>>

\* The process crashes, or the run is interrupted.
Stop == /\ phase \in {"planning", "returned", "planned", "launched"}
        /\ phase' = "down" /\ Down
        /\ UNCHANGED <<mode, durable, told, resumes, history>>

\* restoreAgentControlProgress: every delivered index has one result.
Delivered(k) == {o \in Controls : Completed(o) /\ ops[o].index = k}
Acceptable == \/ delivered = 0
              \/ /\ \A o, p \in Controls : Completed(o) /\ Completed(p) /\ o # p
                                          => ops[o].index # ops[p].index
                 /\ \A k \in 1..delivered : Delivered(k) # {}
                 /\ \A o \in Delivered(delivered) : Restorable(ops[o].snap)

\* Another process: a completed planner is not run again.
Resume ==
  /\ phase = "down" /\ resumes < MaxResumes
  /\ resumes' = resumes + 1
  /\ \/ /\ final # None /\ Restorable(final)
        /\ scope' = Restored(final) /\ phase' = "planned"
     \/ /\ final = None /\ Acceptable
        /\ scope' = IF delivered = 0 THEN emptyScope
                    ELSE Restored(ops[CHOOSE o \in Delivered(delivered) : TRUE].snap)
        /\ phase' = "planning"
     \/ /\ IF final # None THEN ~Restorable(final) ELSE ~Acceptable
        /\ phase' = "failed" /\ UNCHANGED scope
  /\ UNCHANGED <<mode, durable, told, call, queue, aborted, history>>

-----------------------------------------------------------------------------
Issue(r) == \E c \in Calls[mode] :
              \/ CallAgain(r, c) \/ CallRebound(r, c) \/ CallUnmatched(r, c) \/ CallNew(r, c)
              \/ AskAgain(r, c) \/ AskBlocked(r, c) \/ AskNew(r, c)
Proceed(r) == \/ BeginAmbiguous(r) \/ BeginReplay(r) \/ BeginExecute(r) \/ Policy(r)
              \/ GeneratedCall(r) \/ GeneratedEnds(r) \/ ChildEnds(r) \/ CallAborted(r) \/ Record(r)
              \/ AskFound(r) \/ Present(r) \/ Answered(r) \/ AskFails(r)
              \/ Incorporate(r) \/ Complete(r) \/ Woken(r)
Next == \/ \E r \in Requests : Issue(r) \/ Proceed(r)
        \/ Append1 \/ PlannerReturns \/ Launch \/ PlannerRefused \/ Fail
        \/ Abort \/ Stop \/ Resume

\* What the process does by itself, the executor with a result, the human with
\* a question, and the timer of the activation.
Fairness == /\ \A r \in Requests : WF_vars(Proceed(r))
            /\ WF_vars(Append1) /\ WF_vars(Abort)
Spec == Init /\ [][Next]_vars /\ Fairness

-----------------------------------------------------------------------------
\* A run whose control calls came one after the other, none of them refused for a
\* limit that its snapshot then exceeds (vm.ts:3281, 3184).
Regular == ~overlapped /\ \A o \in Controls : Completed(o) => Restorable(ops[o].snap)

\* The journal can always be resumed from: as long as a planner's control calls
\* do not overlap, the indexes of their results are distinct, without a gap
\* where a result has been delivered, and each delivered snapshot is within the
\* limits of the activation (vm.ts, restoreAgentControlProgress).
JournalAccepted ==
  Regular => /\ Acceptable /\ (final # None => Restorable(final))
             /\ \A o, p \in Controls : Completed(o) /\ Completed(p) /\ o # p
                                       => ops[o].index # ops[p].index

\* The routes that start after the planner, in the first process or in another
\* one, are those of which its continuation says that they were registered.  This
\* is for Regular runs too: while another call is under way, a delivery replaces
\* the routes by those of its own snapshot (vm.ts:2282).
RoutesAreWhatWasTold ==
  Regular => \A routes \in started :
    {q.op : q \in routes} = {t[1] : t \in {u \in told : ops[u[1]].c[1] = "route" /\ u[2][2]}}

\* max_routes bounds the Nodes that a planner and its generated programs run, and
\* the routes that start after it, also when it is resumed in between: an operation
\* that is executed again does not spend twice.  It runs under the path of the
\* first time, where it finds the operations that are completed there, and no
\* other operation shares that path (vm.ts, executeFreedomNode, executeFreedomIrTool).
\* For Regular runs only: the counters are replaced with the routes.
Spent == {<<p[2], p[3]>> : p \in {q \in children : q[3] > 0}}
BudgetKept ==
  Regular =>
    /\ Cardinality(Spent \cup {<<q.op, 0>> : q \in UNION started}) <= MaxRoutes
    /\ \A p, q \in children : p[1] = q[1] <=> p[2] = q[2]

\* No planner completes over an operation that has no delivered result, whatever
\* its calls did at the same time (vm.ts, finalizeAgentNestedEffects).  And a
\* question is put to the human by one process: another one reuses the answer, or
\* reports that it may have been asked.
NothingUnsettled ==
  /\ final # None => \A o \in Known : Completed(o) /\ (o \in Controls => ops[o].index <= delivered)
  /\ \A c \in AllCalls : Cardinality(asked[c]) <= 1

\* Every operation has one result, and it is all that the planner is ever told.
Answers == INSTANCE AnswerOnce WITH
  Ops <- Requests, Answers <- Nat \X BOOLEAN, NoAnswer <- None,
  answer <- [o \in Requests |-> IF Completed(o) THEN <<ops[o].try, ops[o].ok>> ELSE None],
  told <- told
AnsweredOnce == Answers!Spec

\* Every call ends: with a result, with an error, or with the process.  A process
\* makes each call once, so this is that again and again no call is under way.
EveryCallEnds == []<>(\A r \in Requests : ~InCall(r))
=============================================================================
