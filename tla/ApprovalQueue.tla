----------------------------- MODULE ApprovalQueue -----------------------------
(***************************************************************************)
(* The queue of human requests: class FifoAgentApprovalQueue of            *)
(* src/src/approval-queue.ts.                                              *)
(*                                                                         *)
(* One presenter talks to one human, so the queue presents one request at  *)
(* a time.  present() is an asynchronous function: the request's signal    *)
(* can fire, and the queue can be closed, at each of its awaits.  What a   *)
(* request's promise settles to is decided exactly once, by whichever of   *)
(* present() and cancel() comes first.                                     *)
(***************************************************************************)
EXTENDS Naturals, SequencesExt

CONSTANTS MaxCalls,    \* bounds the calls of enqueue()
          maxPending   \* capacity: waiting requests plus the active one

ASSUME CallsAssumption == MaxCalls \in Nat
ASSUME CapacityAssumption == maxPending \in Nat \ {0}

\* A request is known by the position of its call among the calls of enqueue().
Requests == 1..MaxCalls
Nobody == 0

VARIABLES pending,    \* waiting requests, oldest first
          active,     \* the request that occupies the presenter
          at,         \* where present() is in each request
          settled,    \* PendingApproval.settled
          answer,     \* what the presenter returned
          outcome,    \* what the promise of enqueue() settled to
          noted,      \* requests whose observer has seen "queued"
          retracting, \* cancelled requests whose "cancelled" event is due
          events,     \* events each observer has been given
          closed,     \* the queue has been closed
          closeEnded  \* close() has returned

vars == <<pending, active, at, settled, answer, outcome, noted, retracting,
          events, closed, closeEnded>>

Decision == {"approved", "denied"}

-----------------------------------------------------------------------------
Init == /\ pending = <<>>
        /\ active = Nobody
        /\ at = [r \in Requests |-> "none"]
        /\ settled = {}
        /\ answer = [r \in Requests |-> "none"]
        /\ outcome = [r \in Requests |-> "none"]
        /\ noted = {}
        /\ retracting = {}
        /\ events = [r \in Requests |-> <<>>]
        /\ closed = FALSE
        /\ closeEnded = FALSE

\* drain() with this queue, when nothing is active: the first request starts
\* present().  No waiting request is settled (SlotExact), so the loop that
\* skips those never turns.
Drain(queue, places) ==
  IF closed \/ queue = <<>>
  THEN pending' = queue /\ active' = Nobody /\ at' = places
  ELSE /\ pending' = Tail(queue)
       /\ active' = Head(queue)
       /\ at' = [places EXCEPT ![Head(queue)] = "noting"]

Slots == Len(pending) + (IF active = Nobody THEN 0 ELSE 1)

\* Defect: cancel() does not look at settled.
Reject_Again(S) ==
  /\ settled' = settled \cup S
  /\ outcome' = [r \in Requests |-> IF r \in S THEN "cancelled" ELSE outcome[r]]
  /\ retracting' = retracting \cup S

\* The requests in S that are not settled are: their promises are rejected,
\* and their observers will be told.
Reject(S) ==
  LET open == S \ settled
  IN  /\ settled' = settled \cup open
      /\ outcome' = [r \in Requests |-> IF r \in open THEN "cancelled" ELSE outcome[r]]
      /\ retracting' = retracting \cup open

\* cancel(): a request that is not settled also leaves the queue.
Cancel(r) == /\ Reject({r})
             /\ pending' = IF r \in settled THEN pending ELSE RemoveFirst(pending, r)

-----------------------------------------------------------------------------
Called(r) == outcome[r] # "none" \/ events[r] # <<>>
NextCall(r) == ~Called(r) /\ \A q \in 1..(r - 1) : Called(q)

\* enqueue() refuses: the queue is closed or full, or the caller passes a
\* signal (signalAborted) that has fired already.
Refuse(r, signalAborted) ==
  /\ NextCall(r)
  /\ closed \/ signalAborted \/ Slots >= maxPending
  /\ outcome' = [outcome EXCEPT ![r] = "refused"]
  /\ UNCHANGED <<pending, active, at, settled, answer, noted, retracting, events,
                 closed, closeEnded>>

\* enqueue() accepts, emits "queued" and drains.
Enqueue(r) ==
  /\ NextCall(r)
  /\ ~closed /\ Slots < maxPending
  /\ events' = [events EXCEPT ![r] = <<"queued">>]
  /\ IF active = Nobody
     THEN Drain(Append(pending, r), at)
     ELSE pending' = Append(pending, r) /\ UNCHANGED <<active, at>>
  /\ UNCHANGED <<settled, answer, outcome, noted, retracting, closed, closeEnded>>

\* The observer is done with "queued".
Note(r) ==
  /\ events[r] # <<>> /\ r \notin noted
  /\ noted' = noted \cup {r}
  /\ UNCHANGED <<pending, active, at, settled, answer, outcome, retracting, events,
                 closed, closeEnded>>

\* present() resumes after queuedEvent and emits "presenting", without a look
\* at settled.
Announce(r) ==
  /\ at[r] = "noting" /\ r \in noted
  /\ events' = [events EXCEPT ![r] = Append(@, "presenting")]
  /\ at' = [at EXCEPT ![r] = "announcing"]
  /\ UNCHANGED <<pending, active, settled, answer, outcome, noted, retracting,
                 closed, closeEnded>>

\* The observer is done with "presenting": a request cancelled meanwhile is not
\* shown to the human.
Ask(r) ==
  /\ at[r] = "announcing"
  /\ at' = [at EXCEPT ![r] = IF r \in settled THEN "leaving" ELSE "asking"]
  /\ UNCHANGED <<pending, active, settled, answer, outcome, noted, retracting, events,
                 closed, closeEnded>>

\* Defect: the answer counts although the request was cancelled meanwhile.
Answer_Late(r, decision) ==
  /\ at[r] = "asking"
  /\ answer' = [answer EXCEPT ![r] = decision]
  /\ at' = [at EXCEPT ![r] = "resolving"]
  /\ settled' = settled \cup {r}
  /\ events' = [events EXCEPT ![r] = Append(@, "resolved")]
  /\ UNCHANGED <<pending, active, outcome, noted, retracting, closed,
                 closeEnded>>

\* The presenter returns a decision; it counts unless the request was
\* cancelled while the human was thinking.
Answer(r, decision) ==
  /\ at[r] = "asking"
  /\ answer' = [answer EXCEPT ![r] = decision]
  /\ IF r \in settled
     THEN /\ at' = [at EXCEPT ![r] = "leaving"]
          /\ UNCHANGED <<settled, events>>
     ELSE /\ at' = [at EXCEPT ![r] = "resolving"]
          /\ settled' = settled \cup {r}
          /\ events' = [events EXCEPT ![r] = Append(@, "resolved")]
  /\ UNCHANGED <<pending, active, outcome, noted, retracting, closed,
                 closeEnded>>

\* The presenter throws or returns rubbish: present() cancels its request.
PresenterFails(r) ==
  /\ at[r] = "asking"
  /\ answer' = [answer EXCEPT ![r] = "failed"]
  /\ at' = [at EXCEPT ![r] = "leaving"]
  /\ Cancel(r)
  /\ UNCHANGED <<active, noted, events, closed, closeEnded>>

\* The observer is done with "resolved": the promise is resolved.
Resolve(r) ==
  /\ at[r] = "resolving"
  /\ outcome' = [outcome EXCEPT ![r] = answer[r]]
  /\ at' = [at EXCEPT ![r] = "leaving"]
  /\ UNCHANGED <<pending, active, settled, answer, noted, retracting, events,
                 closed, closeEnded>>

\* Defect: the slot is not given back.
Leave_KeepsSlot(r) ==
  /\ at[r] = "leaving"
  /\ at' = [at EXCEPT ![r] = "none"]
  /\ UNCHANGED <<pending, active, settled, answer, outcome, noted, retracting, events,
                 closed, closeEnded>>

\* The finally callback of present(): the slot is free and the queue drains.
Leave(r) ==
  /\ at[r] = "leaving"
  /\ IF active = r
     THEN Drain(pending, [at EXCEPT ![r] = "none"])
     ELSE at' = [at EXCEPT ![r] = "none"] /\ UNCHANGED <<pending, active>>
  /\ UNCHANGED <<settled, answer, outcome, noted, retracting, events, closed,
                 closeEnded>>

\* The "cancelled" event, after "queued" has been seen.  present() waits for
\* the same promise and registered first, so its "presenting" comes before.
Retract(r) ==
  /\ r \in retracting /\ r \in noted /\ at[r] # "noting"
  /\ retracting' = retracting \ {r}
  /\ events' = [events EXCEPT ![r] = Append(@, "cancelled")]
  /\ UNCHANGED <<pending, active, at, settled, answer, outcome, noted, closed,
                 closeEnded>>

\* Defect: an aborted request frees the slot while the presenter is still busy.
Abort_FreesSlot(r) ==
  /\ events[r] # <<>> /\ r \notin settled
  /\ Cancel(r)
  /\ active' = IF active = r THEN Nobody ELSE active
  /\ UNCHANGED <<at, answer, noted, events, closed, closeEnded>>

\* The signal of r fires; onAbort is a listener from enqueue() until r settles,
\* and nothing looks at the signal after that.
Abort(r) ==
  /\ events[r] # <<>> /\ r \notin settled
  /\ Cancel(r)
  /\ UNCHANGED <<active, at, answer, noted, events, closed, closeEnded>>

\* close() empties the queue and cancels everything that waited and the active
\* request.
Close == /\ ~closed
         /\ closed' = TRUE
         /\ Reject({pending[i] : i \in DOMAIN pending} \cup ({active} \ {Nobody}))
         /\ pending' = <<>>
         /\ UNCHANGED <<active, at, answer, noted, events, closeEnded>>

\* close() returns once present() has left.
CloseEnds == /\ closed /\ active = Nobody /\ ~closeEnded
             /\ closeEnded' = TRUE
             /\ UNCHANGED <<pending, active, at, settled, answer, outcome, noted, retracting,
                            events, closed>>

Next == \/ \E r \in Requests :
             \/ \E signalAborted \in BOOLEAN : Refuse(r, signalAborted)
             \/ Enqueue(r) \/ Note(r) \/ Announce(r) \/ Ask(r)
             \/ \E decision \in Decision : Answer(r, decision)
             \/ PresenterFails(r) \/ Resolve(r) \/ Leave(r) \/ Retract(r) \/ Abort(r)
        \/ Close \/ CloseEnds

Spec == Init /\ [][Next]_vars

\* Observers and the presenter settle; continuations run.
Progress(r) == \/ Note(r) \/ Announce(r) \/ Ask(r) \/ PresenterFails(r)
               \/ \E decision \in Decision : Answer(r, decision)
               \/ Resolve(r) \/ Leave(r) \/ Retract(r)

FairSpec == Spec /\ \A r \in Requests : WF_vars(Progress(r))

-----------------------------------------------------------------------------
TypeOK ==
  /\ pending \in Seq(Requests)
  /\ active \in Requests \cup {Nobody}
  /\ at \in [Requests -> {"none", "noting", "announcing", "asking", "resolving", "leaving"}]
  /\ settled \in SUBSET Requests
  /\ answer \in [Requests -> Decision \cup {"none", "failed"}]
  /\ outcome \in [Requests -> Decision \cup {"none", "refused", "cancelled"}]
  /\ noted \in SUBSET Requests
  /\ retracting \in SUBSET Requests
  /\ events \in [Requests -> Seq({"queued", "presenting", "resolved", "cancelled"})]
  /\ closed \in BOOLEAN /\ closeEnded \in BOOLEAN

(* The slot is exact: the human sees one request at a time, a cancelled       *)
(* request keeps the slot until the presenter has let go of it, and requests  *)
(* wait only behind the one in the slot (no lost wakeup), none of them        *)
(* settled or left in a closed queue.                                         *)
SlotExact ==
  /\ \A r \in Requests : at[r] # "none" <=> r = active
  /\ pending # <<>> => active # Nobody /\ ~closed
  /\ \A i \in DOMAIN pending : pending[i] \notin settled
  /\ TypeOK

Story == {<<"queued">>, <<"queued", "presenting">>, <<"queued", "cancelled">>,
          <<"queued", "presenting", "resolved">>, <<"queued", "presenting", "cancelled">>}

(* A tool call is approved only by an answer to that very request that was   *)
(* given before the request was cancelled, aborted or closed; its events     *)
(* tell that in order, with one ending that agrees with what the caller got. *)
ApprovedByAnswer ==
  \A r \in Requests :
    /\ outcome[r] \in Decision =>
         /\ answer[r] = outcome[r]
         /\ r \notin retracting
         /\ \A i \in DOMAIN events[r] : events[r][i] # "cancelled"
    /\ events[r] # <<>> =>
         /\ events[r] \in Story
         /\ events[r][Len(events[r])] = "cancelled" => outcome[r] = "cancelled"

SettlesOnce ==
  /\ \A r \in Requests : outcome[r] # "none" => outcome'[r] = outcome[r]
  /\ closeEnded => \A r \in Requests : /\ at[r] = "none" /\ at'[r] = "none"
                                       /\ events[r] # <<>> => outcome[r] # "none"
  /\ \A r, q \in Requests :
       q < r /\ at[r] = "none" /\ at'[r] # "none" /\ events[q] # <<>>
       => q \in settled \/ at[q] # "none"

(* A promise settles once: no later cancel, abort or answer changes it.      *)
(* After close() has returned all have settled, and nobody is asked.  First  *)
(* come, first served: a request is presented only when every earlier one    *)
(* has been presented or cancelled.                                          *)
SettledOnce == [][SettlesOnce]_vars

(* Every accepted request settles, if presenter and observers do: of the     *)
(* MaxCalls requests, in the end none that was queued is without an outcome. *)
EveryRequestSettles == <>[](\A r \in Requests : events[r] # <<>> => outcome[r] # "none")
=============================================================================
