---------------------------- MODULE RequestReply ----------------------------
(***************************************************************************)
(* What a request handler promises to the HTTP server that calls it: every *)
(* request a worker takes is answered, exactly once, before the worker     *)
(* takes the next one.                                                     *)
(***************************************************************************)
EXTENDS Naturals

CONSTANT Workers        \* the threads that run the handler

VARIABLES
  serving,              \* the workers inside the handler
  answers               \* answers each worker has sent to its current request

rrvars == <<serving, answers>>

Init ==
  /\ serving = {}
  /\ answers = [w \in Workers |-> 0]

Receive(w) ==
  /\ w \notin serving
  /\ serving' = serving \cup {w}
  /\ UNCHANGED answers

Answer(w) ==
  /\ w \in serving
  /\ answers[w] = 0
  /\ answers' = [answers EXCEPT ![w] = 1]
  /\ UNCHANGED serving

Return(w) ==
  /\ w \in serving
  /\ answers[w] = 1
  /\ serving' = serving \ {w}
  /\ answers' = [answers EXCEPT ![w] = 0]

Next == \E w \in Workers : Receive(w) \/ Answer(w) \/ Return(w)

Spec == Init /\ [][Next]_rrvars

\* The handler terminates and the client is not left waiting.
LiveSpec == /\ Spec
            /\ \A w \in Workers : WF_rrvars(Answer(w)) /\ WF_rrvars(Return(w))
=============================================================================
