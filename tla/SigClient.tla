----------------------------- MODULE SigClient -----------------------------
(***************************************************************************)
(* ECloudAssistant/Net/SigConnection: the client's end of a signalling     *)
(* connection, with what its owner does on its behalf: RemoteManager for a *)
(* controlled device, AVPlayer for a control window.                       *)
(*                                                                         *)
(* startStreamCb_ of a device is the whole of RemoteManager::              *)
(* HandleStartStream: it publishes to the RTMP server, which refuses an    *)
(* address that already has a publisher, and may fail for its own reasons. *)
(* Each device runs in a process of its own, hence its own streamIndex.    *)
(***************************************************************************)
EXTENDS SigProtocol

CONSTANTS
    TargetCodes,    \* what a user may enter as the device to control
    MaxJoinRetries, \* kMaxControlJoinRetries
    PushMayFail,    \* can capture, encoder or publishing fail on its own?
    MaxInputs       \* bound: packets one control window sends for its user

ASSUME ClientAssumption ==
    \* A user is shown device codes only, never a session code.
    /\ TargetCodes \subseteq Codes
    /\ \A c \in Controllers : CodesOf[c] \cap TargetCodes = {}
    /\ MaxJoinRetries \in Nat
    /\ PushMayFail \in BOOLEAN
    /\ MaxInputs \in Nat

VARIABLES
    cstate,         \* state_ of the client's SigConnection
    targetCode,     \* targetCode_ of a controller
    joinRetryCount, \* joinRetryCount_ of a controller
    streamIndex,    \* the process-wide counter behind a stream address
    pushing,        \* the address a device publishes to, or NoAddress
    playing,        \* the addresses a controller was told to play, in order
    inputs,         \* bound: packets sent for the user
    session         \* history: whose CREATESTREAM a device last read, None after
                    \* the DELETESTREAM that stops it

clientVars == <<cstate, targetCode, joinRetryCount, streamIndex, pushing,
                playing, inputs, session>>

ClientTypeOK ==
    /\ cstate \in [Conns -> {"NONE", "IDLE", "PULLER", "PUSHER"}]
    /\ targetCode \in [Controllers -> Codes \cup {None}]
    /\ joinRetryCount \in [Controllers -> 0 .. MaxJoinRetries]
    /\ streamIndex \in [Devices -> Nat]
    /\ pushing \in [Devices -> Address]
    /\ playing \in [Controllers -> Seq(Address)]
    /\ inputs \in [Controllers -> 0 .. MaxInputs]
    /\ session \in [Devices -> Conns \cup {None}]

ClientInit ==
    /\ cstate = [x \in Conns |-> "NONE"]
    /\ targetCode = [c \in Controllers |-> None]
    /\ joinRetryCount = [c \in Controllers |-> 0]
    /\ streamIndex = [d \in Devices |-> 1]
    /\ pushing = [d \in Devices |-> NoAddress]
    /\ playing = [c \in Controllers |-> <<>>]
    /\ inputs = [c \in Controllers |-> 0]
    /\ session = [d \in Devices |-> None]

(***************************************************************************)
(* Connecting: RemoteManager::Init and AVPlayer::Connect, both of which    *)
(* end in Join().                                                          *)
(***************************************************************************)
Connects(x, k) ==
    /\ link[x] = "new"
    /\ link' = [link EXCEPT ![x] = "up"]
    /\ ClientSends(x, Join_body(k))
    /\ UNCHANGED s2c

DeviceConnects(d) ==
    /\ \E k \in CodesOf[d] : Connects(d, k)
    /\ UNCHANGED clientVars

StartRemote(c) ==
    /\ \E k \in CodesOf[c] : Connects(c, k)
    /\ \E t \in TargetCodes : targetCode' = [targetCode EXCEPT ![c] = t]
    /\ UNCHANGED <<cstate, joinRetryCount, streamIndex, pushing, playing,
                   inputs, session>>

(***************************************************************************)
(* doJoin.  A controller asks for its target at once; a refused controller *)
(* draws another session code, a refused device gives up.                  *)
(***************************************************************************)
DeviceJoined(d) ==
    /\ ClientReads(d, "JOIN")
    /\ IF Head(s2c[d]).result = "SUCCESSFUL"
         THEN cstate' = [cstate EXCEPT ![d] = "IDLE"]
         ELSE UNCHANGED cstate
    /\ UNCHANGED <<c2s, targetCode, joinRetryCount, streamIndex, pushing,
                   playing, inputs, session>>

ControllerJoined(c) ==
    /\ ClientReads(c, "JOIN")
    /\ Head(s2c[c]).result = "SUCCESSFUL"
    /\ cstate' = [cstate EXCEPT ![c] = "PULLER"]
    /\ ClientSends(c, ObtainStream_body(targetCode[c]))
    /\ UNCHANGED <<targetCode, joinRetryCount, streamIndex, pushing, playing,
                   inputs, session>>

MayRetryOnceMore(c) == joinRetryCount[c] <= MaxJoinRetries  \* mutant: off by one

MayRetry(c) == joinRetryCount[c] < MaxJoinRetries

ControllerJoinRefused(c) ==
    /\ ClientReads(c, "JOIN")
    /\ Head(s2c[c]).result # "SUCCESSFUL"
    /\ IF MayRetry(c)
         THEN /\ joinRetryCount' = [joinRetryCount EXCEPT ![c] = @ + 1]
              /\ \E k \in CodesOf[c] : ClientSends(c, Join_body(k))
         ELSE UNCHANGED <<joinRetryCount, c2s>>
    /\ UNCHANGED <<cstate, targetCode, streamIndex, pushing, playing, inputs,
                   session>>

(***************************************************************************)
(* The controller's side of a session.                                     *)
(***************************************************************************)
doObtainStreamReply(c) ==
    /\ ClientReads(c, "OBTAINSTREAM")
    /\ cstate' = IF Head(s2c[c]).result = "SUCCESSFUL" THEN cstate
                 ELSE [cstate EXCEPT ![c] = "IDLE"]
    /\ UNCHANGED <<c2s, targetCode, joinRetryCount, streamIndex, pushing,
                   playing, inputs, session>>

doPlayStream(c) ==
    LET m == Head(s2c[c]) IN
    /\ ClientReads(c, "PLAYSTREAM")
    /\ playing' = IF cstate[c] = "PULLER" /\ m.result = "SUCCESSFUL"
                    THEN [playing EXCEPT ![c] = Append(@, m.streamAddres)]
                    ELSE playing
    /\ UNCHANGED <<c2s, cstate, targetCode, joinRetryCount, streamIndex,
                   pushing, inputs, session>>

\* The event handlers of AVPlayer: sent whatever the session's state.
SendInput(c) ==
    /\ link[c] = "up"
    /\ inputs[c] < MaxInputs
    /\ inputs' = [inputs EXCEPT ![c] = @ + 1]
    /\ ClientSends(c, Input_body)
    /\ UNCHANGED <<link, s2c, cstate, targetCode, joinRetryCount, streamIndex,
                   pushing, playing, session>>

\* AVPlayer::StopRemote, or the controller's process or network dies.
StopRemote(c) ==
    /\ ClientCloses(c)
    /\ playing' = [playing EXCEPT ![c] = <<>>]
    /\ UNCHANGED <<cstate, targetCode, joinRetryCount, streamIndex, pushing,
                   inputs, session>>

(***************************************************************************)
(* The device's side of a session.                                         *)
(***************************************************************************)
\* HasPublisher on the RTMP server, for the address d would publish next.
AddressTaken(d, a) == \E e \in Devices \ {d} : pushing[e] = a

doCtreatStream(d) ==
    LET a == streamIndex[d] + 1 IN
    /\ ClientReads(d, "CREATESTREAM")
    /\ session' = [session EXCEPT ![d] = Head(s2c[d]).by]
    /\ \/ /\ cstate[d] = "IDLE"
          /\ streamIndex' = [streamIndex EXCEPT ![d] = a]
          /\ \/ /\ ~ AddressTaken(d, a)
                /\ pushing' = [pushing EXCEPT ![d] = a]
                /\ cstate' = [cstate EXCEPT ![d] = "PUSHER"]
                /\ ClientSends(d, CreateStreamReply_body("SUCCESSFUL", a))
             \/ /\ PushMayFail \/ AddressTaken(d, a)
                /\ ClientSends(d, CreateStreamReply_body("ERROR", NoAddress))
                /\ UNCHANGED <<cstate, pushing>>
       \/ /\ cstate[d] # "IDLE"
          /\ UNCHANGED <<c2s, cstate, streamIndex, pushing>>
    /\ UNCHANGED <<targetCode, joinRetryCount, playing, inputs>>

OneStreamLeft(x) ==                 \* mutant: off by one
    x \in Devices /\ Head(s2c[x]).streamCount = 1

LastStreamGone(x) ==
    x \in Devices /\ Head(s2c[x]).streamCount = 0

doDeleteStream(x) ==
    /\ ClientReads(x, "DELETESTREAM")
    /\ IF LastStreamGone(x)
         THEN /\ pushing' = [pushing EXCEPT ![x] = NoAddress]
              /\ cstate' = [cstate EXCEPT ![x] = "IDLE"]
              /\ session' = [session EXCEPT ![x] = None]
         ELSE UNCHANGED <<pushing, cstate, session>>
    /\ UNCHANGED <<c2s, targetCode, joinRetryCount, streamIndex, playing,
                   inputs>>

\* doMouseEvent and its siblings: injected whatever the device's state.
doInput(d) ==
    /\ ClientReads(d, "INPUT")
    /\ UNCHANGED <<c2s, clientVars>>

\* The device's process ends, or its network is lost: OnClose alone does not stop
\* the publishing.
DeviceLeaves(d) ==
    /\ ClientCloses(d)
    /\ UNCHANGED pushing \/ pushing' = [pushing EXCEPT ![d] = NoAddress]
    /\ UNCHANGED <<cstate, targetCode, joinRetryCount, streamIndex, playing,
                   inputs, session>>

DeviceHandles(d) ==
    DeviceJoined(d) \/ doCtreatStream(d) \/ doDeleteStream(d) \/ doInput(d)

ControllerHandles(c) ==
    \/ ControllerJoined(c) \/ ControllerJoinRefused(c)
    \/ doObtainStreamReply(c) \/ doPlayStream(c) \/ doDeleteStream(c)
=============================================================================
