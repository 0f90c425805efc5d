----------------------------- MODULE MCWsStream -----------------------------
(* WsStream with a bound on the calls of each peer's caller.               *)
EXTENDS WsStream

ClientOneCall == [p \in Peers |-> IF p = Client THEN 1 ELSE 0]
ClientTwoCalls == [p \in Peers |-> IF p = Client THEN 2 ELSE 1]
=============================================================================
