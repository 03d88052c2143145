------------------------------ MODULE AnswerOnce ------------------------------
(***************************************************************************)
(* What durable execution promises to a program: an operation is answered  *)
(* once, and whoever waits for it, in the first process of the run or in   *)
(* one that resumes it, is told that answer.  DoRecovery implements it.    *)
(***************************************************************************)
CONSTANTS Ops,      \* the operations of the program
          Answers,  \* what an operation can be answered with
          NoAnswer  \* not an answer

VARIABLES answer,   \* the durable answer of each operation, or NoAnswer
          told      \* the answers that the program has been given

Init == /\ answer = [o \in Ops |-> NoAnswer]
        /\ told = {}

\* An operation gets its one answer.
Decide(o) == /\ answer[o] = NoAnswer /\ answer'[o] \in Answers
             /\ answer' = [answer EXCEPT ![o] = answer'[o]]

\* The program is given the answer of an operation, perhaps again.
Tell(o) == answer'[o] # NoAnswer /\ told' = told \cup {<<o, answer'[o]>>}

\* An operation may be answered and the program be told of it in one step.
Next == \E o \in Ops : \/ Decide(o) /\ UNCHANGED told
                       \/ Decide(o) /\ Tell(o)
                       \/ UNCHANGED answer /\ Tell(o)

Spec == Init /\ [][Next]_<<answer, told>>
=============================================================================
