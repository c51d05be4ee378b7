---------------------------- MODULE MCRtmpServer ----------------------------
(* Instances of RtmpServer for TLC: one stream, publishers and players on   *)
(* the loops that the round robin of GetTaskSchduler may give them.         *)
EXTENDS RtmpServer, TLC

CONSTANTS p1, p2, v1, v2, live

OneStream == [c \in Conns |-> live]

\* The first three connections are p1, p2 and v1, in this order.
InTurn == [c \in Conns |-> IF c = p2 THEN 0 ELSE 1]

\* The first is a publisher, the second its player.
Crossed == [c \in Conns |-> IF c \in Publishers THEN 1 ELSE 0]
=============================================================================
