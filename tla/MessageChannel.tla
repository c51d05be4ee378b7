---------------------------- MODULE MessageChannel ----------------------------
(* What an RTMP connection promises: messages are delivered whole, once, and in *)
(* the order they were accepted in, whatever threads send them, whatever pieces *)
(* they travel in.  Messages are lost only when the connection breaks, and then  *)
(* from some point on.                                                          *)
EXTENDS Integers, Sequences

VARIABLES inTransit, delivered, broken

channelVars == <<inTransit, delivered, broken>>

Init == inTransit = <<>> /\ delivered = <<>> /\ broken = FALSE

\* What is left of the messages in transit when n are delivered.
Rest(n) == SubSeq(inTransit, n + 1, Len(inTransit))

Accepts ==
    /\ ~broken
    /\ Len(inTransit') = Len(inTransit) + 1
    /\ SubSeq(inTransit', 1, Len(inTransit)) = inTransit
    /\ UNCHANGED <<delivered, broken>>

Delivers(n) ==
    /\ delivered' = delivered \o SubSeq(inTransit, 1, n)
    /\ inTransit' = Rest(n)
    /\ UNCHANGED broken

Breaks(n, lost) ==
    /\ delivered' = delivered \o SubSeq(inTransit, 1, n)
    /\ inTransit' = SubSeq(Rest(n), 1, Len(inTransit) - n - lost)
    /\ broken' = TRUE

Next ==
    \/ Accepts
    \/ \E n \in 1 .. Len(inTransit) : Delivers(n)
    \/ \E n \in 0 .. Len(inTransit) : \E lost \in 0 .. Len(inTransit) - n : Breaks(n, lost)

Spec == Init /\ [][Next]_channelVars
===============================================================================
