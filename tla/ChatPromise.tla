----------------------------- MODULE ChatPromise -----------------------------
(***************************************************************************)
(* What the chat of ONE meeting promises its owner: questions are taken    *)
(* one at a time, and each one gets one answer and keeps it, until the     *)
(* meeting is deleted.  ChatTurn is the machinery that keeps the promise.  *)
(***************************************************************************)
EXTENDS Naturals

CONSTANT LastTurn     \* how many questions are asked

Turns == 1..LastTurn

VARIABLES
  turn,      \* "absent", "open", "answered" or "deleted"
  answers    \* how many assistant messages the turn has

promise == <<turn, answers>>

Init == /\ turn = [t \in Turns |-> "absent"]
        /\ answers = [t \in Turns |-> 0]

\* The turn row of a question is unique for the meeting while it is open.
Ask(t) ==
  /\ turn[t] = "absent"
  /\ \A u \in Turns : u < t => turn[u] = "answered"
  /\ turn' = [turn EXCEPT ![t] = "open"]
  /\ UNCHANGED answers

\* One assistant message, in the commit that makes the turn terminal.
Answer(t) ==
  /\ turn[t] = "open"
  /\ turn' = [turn EXCEPT ![t] = "answered"]
  /\ answers' = [answers EXCEPT ![t] = 1]

DeleteMeeting ==
  /\ \A t \in Turns : turn[t] # "deleted"
  /\ turn' = [t \in Turns |-> "deleted"]
  /\ answers' = [t \in Turns |-> 0]

Next == DeleteMeeting \/ \E t \in Turns : Ask(t) \/ Answer(t)

Spec == Init /\ [][Next]_promise

\* Every question is answered, unless the meeting goes first.
FairSpec == Spec /\ \A t \in Turns : WF_promise(Answer(t))
=============================================================================
