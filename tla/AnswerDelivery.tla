---------------------------- MODULE AnswerDelivery ----------------------------
(***************************************************************************)
(* What one exchange with the server promises the edge: it hears a growing *)
(* beginning of what the server says, and is told of success only when it  *)
(* has heard all of it and no more will be said.  ConversationWorker       *)
(* builds on this promise.                                                 *)
(*                                                                         *)
(* said     how much of the answer the server has produced                 *)
(* heard    how much of it the edge has put on its speech queue            *)
(* verdict  the edge's result                                              *)
(***************************************************************************)
EXTENDS Naturals

VARIABLES said, heard, verdict

vars == <<said, heard, verdict>>

Init == said = 0 /\ heard = 0 /\ verdict = "open"

\* The server goes on talking, whether or not the edge has given up.
Say ==
  /\ verdict # "success"
  /\ said' = said + 1
  /\ UNCHANGED <<heard, verdict>>

Hear ==
  /\ verdict = "open"
  /\ heard' \in (heard + 1)..said
  /\ UNCHANGED <<said, verdict>>

\* The last audio and the success come together.
Succeed ==
  /\ verdict = "open" /\ said > 0
  /\ heard' = said /\ verdict' = "success"
  /\ UNCHANGED said

Fail ==
  /\ verdict = "open"
  /\ verdict' = "failed"
  /\ UNCHANGED <<said, heard>>

Next == Say \/ Hear \/ Succeed \/ Fail

Spec == Init /\ [][Next]_vars
=============================================================================
