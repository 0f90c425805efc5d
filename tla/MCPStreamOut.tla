---------------------------- MODULE MCPStreamOut ----------------------------
(* PStreamOut with enough characters to fill everything between a client   *)
(* and a filter it does not read from: the put area, both pipes and the    *)
(* character the filter holds.                                             *)
EXTENDS PStreamOut

Enough == [b \in Bufs |-> IF b \in Duplex THEN BufSz + 2 * PipeCap + 1 ELSE BufSz]
=============================================================================
