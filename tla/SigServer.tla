----------------------------- MODULE SigServer -----------------------------
(***************************************************************************)
(* ENET/SigServer: SigConnection and ConnectionManager.  The server runs   *)
(* one event loop (EventLoop(1), main.cpp), so a handler is one atomic     *)
(* step: every nested call it makes is part of its action.                 *)
(*                                                                         *)
(* A Send that fails closes the peer inside the handler (TcpConnection::   *)
(* HandleWrite -> Close -> DisConnected -> Clear).  Its effect is that of  *)
(* DisConnected(peer) as the very next step, except for the place of a     *)
(* DELETESTREAM among packets to a controller, which controllers ignore;   *)
(* it is therefore not modelled a second time.                             *)
(***************************************************************************)
EXTENDS SigProtocol

VARIABLES
    state,      \* state_
    code,       \* code_
    objectes,   \* objectes_: the codes of the peers, a set as AddCustom keeps it
    conn_,      \* conn_: where a puller's input is forwarded
    registry    \* ConnectionManager::connMaps_

serverVars == <<state, code, objectes, conn_, registry>>

RoleState == {"IDLE", "NONE", "CLOSE", "PULLER", "PUSHER"}

ServerTypeOK ==
    /\ state \in [Conns -> RoleState]
    /\ code \in [Conns -> Codes \cup {None}]
    /\ objectes \in [Conns -> SUBSET Codes]
    /\ conn_ \in [Conns -> Conns \cup {None}]
    /\ registry \in [Codes -> Conns \cup {None}]

ServerInit ==
    /\ state = [x \in Conns |-> "NONE"]
    /\ code = [x \in Conns |-> None]
    /\ objectes = [x \in Conns |-> {}]
    /\ conn_ = [x \in Conns |-> None]
    /\ registry = [k \in Codes |-> None]

\* QueryConn over a list of codes.
QueryConn(ks) == {registry[k] : k \in ks} \ {None}

IsBusy(x) == state[x] \in {"PULLER", "PUSHER"}

(***************************************************************************)
(* JOIN: register the code unless it is taken or x has joined already.     *)
(***************************************************************************)
AddConnOverwrites(k, x) ==          \* mutant: operator[] instead of emplace
    registry' = [registry EXCEPT ![k] = x]

AddConn(k, x) ==
    /\ registry[k] = None
    /\ registry' = [registry EXCEPT ![k] = x]

JoinAccepted(x) ==
    LET k == Head(c2s[x]).id IN
    /\ ServerReads(x, "JOIN")
    /\ state[x] = "NONE"
    /\ AddConn(k, x)
    /\ code' = [code EXCEPT ![x] = k]
    /\ state' = [state EXCEPT ![x] = "IDLE"]
    /\ ServerSends(Reply(x, JoinReply_body("SUCCESSFUL")))
    /\ UNCHANGED <<objectes, conn_>>

JoinRejected(x) ==
    /\ ServerReads(x, "JOIN")
    /\ state[x] # "NONE" \/ registry[Head(c2s[x]).id] # None
    /\ ServerSends(Reply(x, JoinReply_body("ERROR")))
    /\ UNCHANGED serverVars

(***************************************************************************)
(* OBTAINSTREAM: x asks for the control right over the device registered   *)
(* under k.  Granted only to an idle requester, over an idle target that   *)
(* is not x and has no peer yet.                                           *)
(***************************************************************************)
ObtainableWhileStarting(x, k) ==    \* mutant: no look at the target's peers
    /\ registry[k] \notin {None, x}
    /\ state[x] = "IDLE"
    /\ state[registry[k]] = "IDLE"

Obtainable(x, k) ==
    /\ registry[k] \notin {None, x}
    /\ state[x] = "IDLE"
    /\ objectes[registry[k]] = {}
    /\ state[registry[k]] = "IDLE"

AddCustomForgets(y, k) == objectes[y]       \* mutant: no AddCustom

AddCustom(y, k) == objectes[y] \cup {k}

ObtainGranted(x) ==
    LET k == Head(c2s[x]).id
        t == registry[k]
    IN
    /\ ServerReads(x, "OBTAINSTREAM")
    /\ Obtainable(x, k)
    /\ state' = [state EXCEPT ![x] = "PULLER"]
    /\ objectes' = [objectes EXCEPT ![x] = AddCustom(x, k),
                                    ![t] = AddCustom(t, code[x])]
    /\ conn_' = [conn_ EXCEPT ![x] = t]
    /\ ServerSends([Nothing EXCEPT ![t] = <<CreateStream_body(x)>>,
                                   ![x] = <<ObtainStreamReply_body("SUCCESSFUL")>>])
    /\ UNCHANGED <<code, registry>>

ObtainRejected(x) ==
    /\ ServerReads(x, "OBTAINSTREAM")
    /\ ~ Obtainable(x, Head(c2s[x]).id)
    /\ ServerSends(Reply(x, ObtainStreamReply_body("ERROR")))
    /\ UNCHANGED serverVars

(***************************************************************************)
(* The reply of device x to CREATESTREAM, passed on to every peer.  The    *)
(* reply carries no session: the peers are those x has NOW.                *)
(***************************************************************************)
StreamFailed(x) ==
    LET m == Head(c2s[x]) IN
    /\ ServerReads(x, "CREATESTREAM")
    /\ m.result # "SUCCESSFUL" \/ m.streamAddres = NoAddress
    /\ LET peers == QueryConn(objectes[x])
           kept  == {k \in objectes[x] : registry[k] # None}
       IN  /\ objectes' = [objectes EXCEPT ![x] = kept]
           /\ state' = [y \in Conns |->
                 IF \/ y \in peers
                    \/ y = x /\ objectes[x] # {} /\ kept = {}
                 THEN "IDLE" ELSE state[y]]
           /\ ServerSends([y \in Conns |-> IF y \in peers
                 THEN <<PlayStream_body("ERROR", NoAddress)>> ELSE <<>>])
    /\ UNCHANGED <<code, conn_, registry>>

StreamCreated(x) ==
    LET m == Head(c2s[x]) IN
    /\ ServerReads(x, "CREATESTREAM")
    /\ m.result = "SUCCESSFUL" /\ m.streamAddres # NoAddress
    /\ LET peers   == QueryConn(objectes[x])
           pullers == {y \in peers : state[y] = "PULLER"}
           kept    == {k \in objectes[x] : registry[k] \in pullers}
       IN  /\ objectes' = [objectes EXCEPT ![x] = kept]
           /\ state' = [state EXCEPT ![x] =
                 IF kept # {} THEN "PUSHER"
                 ELSE IF objectes[x] # {} THEN "IDLE" ELSE @]
           /\ ServerSends([y \in Conns |->
                 IF y \in pullers
                   THEN <<PlayStream_body("SUCCESSFUL", m.streamAddres)>>
                 ELSE IF y \in peers
                   THEN <<PlayStream_body("ERROR", NoAddress)>> ELSE <<>>])
    /\ UNCHANGED <<code, conn_, registry>>

(***************************************************************************)
(* Mouse and keyboard packets: forwarded as they are to a puller's target, *)
(* dropped otherwise.                                                      *)
(***************************************************************************)
Forwards(x) == conn_[x] # None /\ state[x] = "PULLER"

HandleOtherMessage(x) ==
    /\ ServerReads(x, "INPUT")
    /\ ServerSends(IF Forwards(x)
                     THEN Reply(conn_[x], ForwardedInput(x)) ELSE Nothing)
    /\ UNCHANGED serverVars

(***************************************************************************)
(* Clear: x leaves.  Each peer drops x's code, is told how many peers it   *)
(* still has, and returns to IDLE when that is none.                       *)
(***************************************************************************)
RmoveCustomNothing(p, k) == objectes[p]     \* mutant: the peer is not told

RmoveCustom(p, k) == objectes[p] \ {k}

StreamCountBefore(p, k) == Cardinality(objectes[p])     \* mutant: counts too early

StreamCount(p, k) == Cardinality(RmoveCustom(p, k))

Clear(x) ==
    IF state[x] = "CLOSE" THEN UNCHANGED <<serverVars, s2c>> ELSE
    LET peers == QueryConn(objectes[x]) IN
    /\ state' = [y \in Conns |->
          IF y = x THEN "CLOSE"
          ELSE IF y \in peers /\ objectes[y] # {} /\ RmoveCustom(y, code[x]) = {}
            THEN "IDLE" ELSE state[y]]
    /\ objectes' = [y \in Conns |->
          IF y = x THEN {}
          ELSE IF y \in peers THEN RmoveCustom(y, code[x]) ELSE objectes[y]]
    /\ conn_' = [conn_ EXCEPT ![x] = None]
    /\ registry' = [k \in Codes |-> IF k = code[x] THEN None ELSE registry[k]]
    /\ ServerSends([y \in Conns |-> IF y \in peers
          THEN <<DeleteStream_body(StreamCount(y, code[x]))>>
          ELSE <<>>])
    /\ UNCHANGED code

\* DELETESTREAM from a busy client: the relation ends, the TCP connection stays.
HandleDeleteStream(x) ==
    /\ ServerReads(x, "DELETESTREAM")
    /\ IF IsBusy(x) THEN Clear(x) ELSE UNCHANGED <<serverVars, s2c>>

\* The loop sees the closed socket (read() = 0, a hang-up or an error).
DisConnected(x) ==
    /\ link[x] = "half"
    /\ link' = [link EXCEPT ![x] = "down"]
    /\ c2s' = [c2s EXCEPT ![x] = <<>>]
    /\ Clear(x)

ServerHandles(x) ==
    \/ JoinAccepted(x)  \/ JoinRejected(x)
    \/ ObtainGranted(x) \/ ObtainRejected(x)
    \/ StreamCreated(x) \/ StreamFailed(x)
    \/ HandleOtherMessage(x)
    \/ HandleDeleteStream(x)
    \/ DisConnected(x)
=============================================================================
