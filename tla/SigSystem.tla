----------------------------- MODULE SigSystem -----------------------------
(***************************************************************************)
(* The signalling plane: one SigSvr and its clients, over TCP connections  *)
(* that may close at any moment.                                           *)
(***************************************************************************)
EXTENDS SigServer, SigClient

CONSTANT Deleters   \* controllers that use the protocol's client DELETESTREAM

ASSUME DeletersAssumption == Deleters \subseteq Controllers

vars == <<netVars, serverVars, clientVars>>

Deletes(c) == {i \in 1 .. Len(c2s[c]) : c2s[c][i].cmd = "DELETESTREAM"}

\* No client of this repository sends DELETESTREAM; the server accepts it from
\* any busy client.  Bound: one of a window's is on its way at a time.
RequestDelete(c) ==
    /\ c \in Deleters
    /\ link[c] = "up" /\ cstate[c] = "PULLER"
    /\ Deletes(c) = {}
    /\ ClientSends(c, DeleteStream_request)
    /\ UNCHANGED <<link, s2c, clientVars>>

Init == NetInit /\ ServerInit /\ ClientInit

ServerStep == \E x \in Conns : ServerHandles(x) /\ UNCHANGED clientVars

DeviceStep ==
    \E d \in Devices :
        /\ DeviceConnects(d) \/ DeviceHandles(d) \/ DeviceLeaves(d)
        /\ UNCHANGED serverVars

ControllerStep ==
    \E c \in Controllers :
        /\ \/ StartRemote(c) \/ ControllerHandles(c) \/ StopRemote(c)
           \/ SendInput(c) \/ RequestDelete(c)
        /\ UNCHANGED serverVars

Next == ServerStep \/ DeviceStep \/ ControllerStep

Spec == Init /\ [][Next]_vars

(***************************************************************************)
(* The server's loop and the clients' loops keep reading; what users do is *)
(* not fair.                                                               *)
(***************************************************************************)
FairSpec ==
    /\ Spec
    /\ \A x \in Conns : WF_vars(ServerHandles(x) /\ UNCHANGED clientVars)
    /\ \A d \in Devices : WF_vars(DeviceHandles(d) /\ UNCHANGED serverVars)
    /\ \A c \in Controllers : WF_vars(ControllerHandles(c) /\ UNCHANGED serverVars)

TypeOK == NetTypeOK /\ ServerTypeOK /\ ClientTypeOK

----------------------------------------------------------------------------
\* The server forwards c's input to d.
Controls(c, d) == state[c] = "PULLER" /\ conn_[c] = d /\ state[d] # "CLOSE"

Joined(x) == state[x] \notin {"NONE", "CLOSE"}

\* A registered code names a joined connection that has not left, and a joined
\* connection keeps its registration until it leaves: a refused or departed
\* connection never takes away another's entry.
RegistryConsistent ==
    /\ \A k \in Codes : registry[k] # None =>
          code[registry[k]] = k /\ Joined(registry[k])
    /\ \A x \in Conns : Joined(x) => registry[code[x]] = x

\* CONTEXT.md, the control right: no two sessions have their input forwarded to
\* the same device.
SingleController ==
    \A d \in Devices : \A c1, c2 \in Conns :
        Controls(c1, d) /\ Controls(c2, d) => c1 = c2

\* A forwarding relation is known to the device's side too, so that either end's
\* departure ends it.
ControlIsMutual ==
    \A c, d \in Conns : Controls(c, d) => code[c] \in objectes[d]

\* The input waiting for a device, or on its way, comes from the session that
\* the last CREATESTREAM before it was for, with no DELETESTREAM in between: two
\* users' mouse and keyboard packets never interleave.
Marks(d, i) ==
    {j \in 1 .. i - 1 : \/ s2c[d][j].cmd = "CREATESTREAM"
                        \/ s2c[d][j].cmd = "DELETESTREAM" /\ s2c[d][j].streamCount = 0}

SessionAt(d, i) ==
    IF Marks(d, i) = {} THEN session[d]
    ELSE LET m == s2c[d][CHOOSE j \in Marks(d, i) : \A l \in Marks(d, i) : l <= j]
         IN  IF m.cmd = "CREATESTREAM" THEN m.by ELSE None

InputsBelong ==
    \A d \in Devices : \A i \in 1 .. Len(s2c[d]) :
        s2c[d][i].cmd = "INPUT" => s2c[d][i].by = SessionAt(d, i)

\* What makes the parts above inductive: a connection has a code exactly when it
\* has joined (and keeps it when it leaves), only joined ones have peers, and an
\* opened window has a target.
CodesAssigned ==
    /\ \A x \in Conns : Joined(x) => code[x] \in Codes
    /\ \A x \in Conns : state[x] = "NONE" => code[x] = None
    /\ \A x \in Conns : objectes[x] # {} => Joined(x)
    /\ \A c \in Controllers : link[c] # "new" => targetCode[c] \in Codes

----------------------------------------------------------------------------
\* The control right the server's state stands for.
holder ==
    [d \in Devices |->
        IF \E c \in Controllers : Controls(c, d)
          THEN CHOOSE c \in Controllers : Controls(c, d) ELSE None]

Right == INSTANCE ControlRight

\* The server implements the control right.
ImplementsControlRight == Right!Spec

----------------------------------------------------------------------------
\* WORKLOG.md on DELETESTREAM: "A later CREATESTREAM can therefore pass the
\* existing IDLE check."  A device about to read a CREATESTREAM is idle.
CreateMeetsIdle ==
    \A d \in Devices :
        link[d] = "up" /\ s2c[d] # <<>> /\ Head(s2c[d]).cmd = "CREATESTREAM"
            => cstate[d] = "IDLE"

\* A window that got the control right is told to play, or loses the right, or
\* is closed: it is not left waiting.
GrantedSessionStarts ==
    \A c \in Controllers : \A d \in Devices :
        Controls(c, d) ~> (playing[c] # <<>> \/ ~ Controls(c, d) \/ link[c] # "up")

\* A device the server holds free does not go on publishing.
FreeDeviceStops ==
    \A d \in Devices :
        (objectes[d] = {} /\ link[d] = "up") ~>
            (pushing[d] = NoAddress \/ objectes[d] # {} \/ link[d] # "up")

\* When every window that was opened on a device is closed, the device is idle
\* and can be obtained again.
AbandonedDeviceIsObtainable ==
    \A d \in Devices :
        (\A c \in Controllers : link[c] \in {"half", "down"}) ~>
            \/ link[d] # "up" \/ state[d] = "NONE"
            \/ /\ state[d] = "IDLE" /\ objectes[d] = {}
               /\ cstate[d] = "IDLE" /\ s2c[d] = <<>> /\ pushing[d] = NoAddress
=============================================================================
