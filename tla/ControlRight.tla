---------------------------- MODULE ControlRight ----------------------------
(***************************************************************************)
(* What the signalling server promises, in the words of context/CONTEXT.md *)
(* (the control right): at any time a device connection gives the right to *)
(* have its input forwarded to one control session at most, and a later    *)
(* request is refused while it is held.                                    *)
(***************************************************************************)
CONSTANTS Devices, Controllers, None

VARIABLE holder     \* holder[d]: the control session d listens to, or None

Init == holder = [d \in Devices |-> None]

\* The right is given only when nobody holds it, and a control session holds
\* the right over one device at most.
Grant(d, c) ==
    /\ holder[d] = None
    /\ \A e \in Devices : holder[e] # c
    /\ holder' = [holder EXCEPT ![d] = c]

\* The session ends: its controller or its device leaves, or it never started.
Release(d) ==
    /\ holder[d] # None
    /\ holder' = [holder EXCEPT ![d] = None]

Next == \E d \in Devices : Release(d) \/ \E c \in Controllers : Grant(d, c)

Spec == Init /\ [][Next]_holder
=============================================================================
