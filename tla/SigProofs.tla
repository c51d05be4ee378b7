----------------------------- MODULE SigProofs -----------------------------
(***************************************************************************)
(* Proofs about SigSystem, for any number of devices, control windows and  *)
(* codes.  First its types, the registry, and that no device is ever       *)
(* controlled by two sessions, none of which depends on what clients send; *)
(* then, from who sends what, that the system implements ControlRight; and *)
(* last that two users' inputs never interleave at a device.               *)
(***************************************************************************)
EXTENDS SigSystem, FiniteSetTheorems, TLAPS

----------------------------------------------------------------------------
\* What the network operators do to the types of the channels.

\* Packets are of the declared types.
LEMMA PacketTypes ==
    ASSUME NEW x \in Conns, NEW k \in Codes, NEW r \in Results,
           NEW a \in Address, NEW n \in Nat
    PROVE  /\ Join_body(k) \in ToServer
           /\ ObtainStream_body(k) \in ToServer
           /\ CreateStreamReply_body(r, a) \in ToServer
           /\ DeleteStream_request \in ToServer
           /\ Input_body \in ToServer
           /\ JoinReply_body(r) \in ToClient
           /\ ObtainStreamReply_body(r) \in ToClient
           /\ CreateStream_body(x) \in ToClient
           /\ ForwardedInput(x) \in ToClient
           /\ PlayStream_body(r, a) \in ToClient
           /\ DeleteStream_body(n) \in ToClient
BY DEF Join_body, ObtainStream_body, CreateStreamReply_body,
       DeleteStream_request, Input_body, JoinReply_body,
       ObtainStreamReply_body, CreateStream_body, ForwardedInput,
       PlayStream_body, DeleteStream_body, ToServer, ToClient

\* Sending well-typed packets keeps the channels to the clients well typed.
LEMMA ServerSendsType ==
    ASSUME NetTypeOK, NEW out \in [Conns -> Seq(ToClient)], ServerSends(out)
    PROVE  s2c' \in [Conns -> Seq(ToClient)]
<1>1. \A y \in Conns : s2c[y] \o out[y] \in Seq(ToClient)
  BY DEF NetTypeOK
<1>2. QED
  BY <1>1 DEF NetTypeOK, ServerSends

\* Reading takes one packet of the declared type off the channel.
LEMMA ServerReadsType ==
    ASSUME NetTypeOK, NEW x \in Conns, NEW cmd, ServerReads(x, cmd)
    PROVE  /\ link' = link
           /\ c2s' \in [Conns -> Seq(ToServer)]
           /\ Head(c2s[x]) \in ToServer
           /\ Head(c2s[x]).cmd = cmd
BY DEF NetTypeOK, ServerReads

LEMMA ClientReadsType ==
    ASSUME NetTypeOK, NEW x \in Conns, NEW cmd, ClientReads(x, cmd)
    PROVE  /\ link' = link
           /\ s2c' \in [Conns -> Seq(ToClient)]
           /\ Head(s2c[x]) \in ToClient
           /\ Head(s2c[x]).cmd = cmd
           /\ link[x] = "up"
BY DEF NetTypeOK, ClientReads

LEMMA ClientSendsType ==
    ASSUME NetTypeOK, NEW x \in Conns, NEW m \in ToServer, ClientSends(x, m)
    PROVE  c2s' \in [Conns -> Seq(ToServer)]
BY DEF NetTypeOK, ClientSends

LEMMA ReplyType ==
    ASSUME NEW x \in Conns, NEW m \in ToClient
    PROVE  Reply(x, m) \in [Conns -> Seq(ToClient)]
<1>1. <<>> \in Seq(ToClient) /\ <<m>> \in Seq(ToClient)
  OBVIOUS
<1>2. QED
  BY <1>1 DEF Reply, Nothing

LEMMA NothingType == Nothing \in [Conns -> Seq(ToClient)]
<1>1. <<>> \in Seq(ToClient)
  OBVIOUS
<1>2. QED
  BY <1>1 DEF Nothing

----------------------------------------------------------------------------
\* Types and the registry.  TypeOK alone is not inductive: the code a device is
\* given as a peer must be a code, not the empty string (CodesAssigned), and a
\* connection the registry leads to must have one (RegistryConsistent).

TypeInv == TypeOK /\ CodesAssigned /\ RegistryConsistent

LEMMA InitTypeInv == Init => TypeInv
<1> SUFFICES ASSUME Init PROVE TypeInv
  OBVIOUS
<1> USE DEF Init
<1>1. NetTypeOK
  <2>1. <<>> \in Seq(ToServer) /\ <<>> \in Seq(ToClient)
    OBVIOUS
  <2>2. QED
    BY <2>1 DEF NetInit, NetTypeOK
<1>2. ServerTypeOK
  BY DEF ServerInit, ServerTypeOK, RoleState
<1>3. ClientTypeOK
  <2>1. <<>> \in Seq(Address)
    OBVIOUS
  <2>2. QED
    BY <2>1, ClientAssumption
    DEF ClientInit, ClientTypeOK, Address, NoAddress
<1>4. CodesAssigned
  BY DEF ServerInit, NetInit, CodesAssigned, Joined, Conns
<1>5. RegistryConsistent
  BY DEF ServerInit, RegistryConsistent, Joined
<1>6. QED
  BY <1>1, <1>2, <1>3, <1>4, <1>5 DEF TypeInv, TypeOK

\* A step that leaves the clients alone keeps what is known of them.
LEMMA ClientsAlone ==
    ASSUME TypeInv, UNCHANGED clientVars
    PROVE  ClientTypeOK' /\ targetCode' = targetCode
BY DEF TypeInv, TypeOK, ClientTypeOK, clientVars

\* Clear keeps the types of the server and of what it sends.
LEMMA ClearType ==
    ASSUME TypeInv, NEW x \in Conns, Clear(x)
    PROVE  ServerTypeOK' /\ s2c' \in [Conns -> Seq(ToClient)]
<1> USE DEF TypeInv, TypeOK
<1>1. CASE state[x] = "CLOSE"
  BY <1>1 DEF Clear, ServerTypeOK, NetTypeOK, serverVars
<1>2. CASE state[x] # "CLOSE"
  <2> DEFINE peers == QueryConn(objectes[x])
             out == [y \in Conns |-> IF y \in peers
                        THEN <<DeleteStream_body(StreamCount(y, code[x]))>>
                        ELSE <<>>]
  <2>1. ServerTypeOK'
    BY <1>2 DEF Clear, ServerTypeOK, RoleState, RmoveCustom
  <2>2. \A y \in Conns : StreamCount(y, code[x]) \in Nat
    <3> TAKE y \in Conns
    <3>1. RmoveCustom(y, code[x]) \subseteq Codes
      BY DEF ServerTypeOK, RmoveCustom
    <3>2. QED
      BY <3>1, ConnsAssumption, FS_Subset, FS_CardinalityType DEF StreamCount
  <2>3. out \in [Conns -> Seq(ToClient)]
    <3>1. \A y \in Conns : DeleteStream_body(StreamCount(y, code[x])) \in ToClient
      BY <2>2 DEF DeleteStream_body, ToClient
    <3>2. QED
      BY <3>1
  <2>4. ServerSends(out)
    BY <1>2 DEF Clear
  <2>5. QED
    BY <2>1, <2>3, <2>4, ServerSendsType
<1>3. QED
  BY <1>1, <1>2

\* Clear removes x's registration only, and resets joined connections only.
LEMMA ClearRegistry ==
    ASSUME TypeInv, NEW x \in Conns, Clear(x), link' \in [Conns -> {"new", "up", "half", "down"}],
           \A c \in Controllers : link'[c] # "new" => link[c] # "new",
           UNCHANGED clientVars
    PROVE  CodesAssigned' /\ RegistryConsistent'
<1> USE DEF TypeInv, TypeOK, Joined
<1>0. targetCode' = targetCode
  BY DEF clientVars
<1>1. CASE state[x] = "CLOSE"
  BY <1>0, <1>1 DEF Clear, serverVars, CodesAssigned, RegistryConsistent
<1>2. CASE state[x] # "CLOSE"
  <2>1. /\ code' = code
        /\ \A y \in Conns : objectes'[y] \subseteq objectes[y]
        /\ state'[x] = "CLOSE" /\ objectes'[x] = {}
        /\ \A y \in Conns \ {x} : state'[y] = state[y] \/ (state'[y] = "IDLE" /\ objectes[y] # {})
        /\ \A k \in Codes : registry'[k] = IF k = code[x] THEN None ELSE registry[k]
    BY <1>2 DEF Clear, ServerTypeOK, RmoveCustom
  <2>2. CodesAssigned'
    BY <1>0, <2>1 DEF CodesAssigned
  <2>3. ASSUME NEW k \in Codes, registry'[k] # None
        PROVE  code'[registry'[k]] = k /\ Joined(registry[k])' /\ registry'[k] = registry[k]
    BY <2>1, <2>3 DEF CodesAssigned, RegistryConsistent, ServerTypeOK
  <2>4. ASSUME NEW y \in Conns, Joined(y)'
        PROVE  registry'[code'[y]] = y
    <3>1. y # x /\ Joined(y)
      BY <2>1, <2>4 DEF CodesAssigned
    <3>2. code[y] \in Codes /\ registry[code[y]] = y
      BY <3>1 DEF CodesAssigned, RegistryConsistent
    <3>3. CASE state[x] = "NONE"
      BY <3>2, <3>3, <2>1, ConnsAssumption DEF CodesAssigned
    <3>4. CASE Joined(x)
      BY <3>1, <3>2, <3>4, <2>1 DEF RegistryConsistent
    <3>5. QED
      BY <3>3, <3>4, <1>2
  <2>5. QED
    BY <2>2, <2>3, <2>4 DEF RegistryConsistent
<1>3. QED
  BY <1>1, <1>2

\* Every step of the server keeps TypeInv, whatever packets it reads.
LEMMA ServerTypeInv ==
    ASSUME TypeInv, NEW x \in Conns, ServerHandles(x), UNCHANGED clientVars
    PROVE  TypeInv'
<1> USE DEF TypeInv, TypeOK
<1>0. ClientTypeOK' /\ targetCode' = targetCode
  BY ClientsAlone
<1>1. CASE JoinAccepted(x)
  <2> DEFINE k == Head(c2s[x]).id
  <2>1. /\ link' = link /\ c2s' \in [Conns -> Seq(ToServer)]
        /\ k \in Codes
    BY <1>1, ServerReadsType DEF JoinAccepted, ToServer
  <2>2. s2c' \in [Conns -> Seq(ToClient)]
    <3>1. JoinReply_body("SUCCESSFUL") \in ToClient
      BY DEF JoinReply_body, ToClient, Results
    <3>2. QED
      BY <1>1, <3>1, ReplyType, ServerSendsType DEF JoinAccepted
  <2>3. /\ state[x] = "NONE" /\ registry[k] = None
        /\ registry' = [registry EXCEPT ![k] = x]
        /\ code' = [code EXCEPT ![x] = k]
        /\ state' = [state EXCEPT ![x] = "IDLE"]
        /\ UNCHANGED <<objectes, conn_>>
    BY <1>1 DEF JoinAccepted, AddConn
  <2>4. ServerTypeOK'
    BY <2>1, <2>3 DEF ServerTypeOK, RoleState
  <2>5. CodesAssigned'
    BY <1>0, <2>1, <2>3 DEF CodesAssigned, Joined, ServerTypeOK
  <2>6. RegistryConsistent'
    <3>1. ASSUME NEW j \in Codes, registry'[j] # None
          PROVE  code'[registry'[j]] = j /\ Joined(registry[j])'
      <4>1. CASE j = k
        BY <2>1, <2>3, <4>1 DEF ServerTypeOK, Joined
      <4>2. CASE j # k
        BY <2>1, <2>3, <3>1, <4>2 DEF ServerTypeOK, Joined, RegistryConsistent
      <4>3. QED
        BY <4>1, <4>2
    <3>2. ASSUME NEW y \in Conns, Joined(y)'
          PROVE  registry'[code'[y]] = y
      <4>1. CASE y = x
        BY <2>1, <2>3, <4>1 DEF ServerTypeOK
      <4>2. CASE y # x
        <5>1. Joined(y) /\ code'[y] = code[y]
          BY <2>3, <3>2, <4>2 DEF ServerTypeOK, Joined
        <5>2. code[y] \in Codes /\ registry[code[y]] = y /\ y # None
          BY <5>1, ConnsAssumption DEF CodesAssigned, RegistryConsistent
        <5>3. QED
          BY <2>1, <2>3, <5>1, <5>2 DEF ServerTypeOK
      <4>3. QED
        BY <4>1, <4>2
    <3>3. QED
      BY <3>1, <3>2 DEF RegistryConsistent
  <2>7. QED
    BY <1>0, <2>1, <2>2, <2>4, <2>5, <2>6 DEF NetTypeOK
<1>2. CASE JoinRejected(x) \/ ObtainRejected(x)
  <2>1. /\ link' = link /\ c2s' \in [Conns -> Seq(ToServer)]
        /\ UNCHANGED serverVars
    BY <1>2, ServerReadsType DEF JoinRejected, ObtainRejected
  <2>2. s2c' \in [Conns -> Seq(ToClient)]
    <3>1. JoinReply_body("ERROR") \in ToClient /\ ObtainStreamReply_body("ERROR") \in ToClient
      BY DEF JoinReply_body, ObtainStreamReply_body, ToClient, Results
    <3>2. QED
      BY <1>2, <3>1, ReplyType, ServerSendsType DEF JoinRejected, ObtainRejected
  <2>3. QED
    BY <1>0, <2>1, <2>2
    DEF NetTypeOK, ServerTypeOK, CodesAssigned, RegistryConsistent, Joined, serverVars
<1>3. CASE ObtainGranted(x)
  <2> DEFINE k == Head(c2s[x]).id
             t == registry[k]
  <2>1. /\ link' = link /\ c2s' \in [Conns -> Seq(ToServer)]
        /\ k \in Codes
    BY <1>3, ServerReadsType DEF ObtainGranted, ToServer
  <2>2. /\ t \in Conns /\ t # x /\ state[x] = "IDLE" /\ state[t] = "IDLE"
        /\ state' = [state EXCEPT ![x] = "PULLER"]
        /\ objectes' = [objectes EXCEPT ![x] = AddCustom(x, k),
                                        ![t] = AddCustom(t, code[x])]
        /\ conn_' = [conn_ EXCEPT ![x] = t]
        /\ UNCHANGED <<code, registry>>
    BY <1>3, <2>1 DEF ObtainGranted, Obtainable, ServerTypeOK
  <2>3. s2c' \in [Conns -> Seq(ToClient)]
    <3>1. CreateStream_body(x) \in ToClient /\ ObtainStreamReply_body("SUCCESSFUL") \in ToClient
      BY DEF CreateStream_body, ObtainStreamReply_body, ToClient, Results
    <3> DEFINE out == [Nothing EXCEPT ![t] = <<CreateStream_body(x)>>,
                                      ![x] = <<ObtainStreamReply_body("SUCCESSFUL")>>]
    <3>2. out \in [Conns -> Seq(ToClient)]
      <4>1. <<CreateStream_body(x)>> \in Seq(ToClient)
        BY <3>1
      <4>2. <<ObtainStreamReply_body("SUCCESSFUL")>> \in Seq(ToClient)
        BY <3>1
      <4>3. QED
        BY <4>1, <4>2, NothingType
    <3>3. ServerSends(out)
      BY <1>3 DEF ObtainGranted
    <3>4. QED
      BY <3>2, <3>3, ServerSendsType
  <2>4. ServerTypeOK'
    BY <2>1, <2>2 DEF ServerTypeOK, RoleState, AddCustom, CodesAssigned, Joined
  <2>5. CodesAssigned'
    BY <1>0, <2>1, <2>2 DEF CodesAssigned, Joined, ServerTypeOK, AddCustom
  <2>6. RegistryConsistent'
    BY <2>2 DEF RegistryConsistent, Joined, ServerTypeOK
  <2>7. QED
    BY <1>0, <2>1, <2>3, <2>4, <2>5, <2>6 DEF NetTypeOK
<1>4. CASE StreamFailed(x)
  <2> DEFINE peers == QueryConn(objectes[x])
             kept  == {k \in objectes[x] : registry[k] # None}
  <2>1. link' = link /\ c2s' \in [Conns -> Seq(ToServer)]
    BY <1>4, ServerReadsType DEF StreamFailed
  <2>2. /\ objectes' = [objectes EXCEPT ![x] = kept]
        /\ state' = [y \in Conns |->
              IF \/ y \in peers
                 \/ y = x /\ objectes[x] # {} /\ kept = {}
              THEN "IDLE" ELSE state[y]]
        /\ UNCHANGED <<code, conn_, registry>>
    BY <1>4 DEF StreamFailed
  <2>3. s2c' \in [Conns -> Seq(ToClient)]
    <3> DEFINE out == [y \in Conns |-> IF y \in peers
                 THEN <<PlayStream_body("ERROR", NoAddress)>> ELSE <<>>]
    <3>1. PlayStream_body("ERROR", NoAddress) \in ToClient
      BY DEF PlayStream_body, ToClient, Results, Address, NoAddress
    <3>2. out \in [Conns -> Seq(ToClient)]
      BY <3>1
    <3>3. ServerSends(out)
      BY <1>4 DEF StreamFailed
    <3>4. QED
      BY <3>2, <3>3, ServerSendsType
  <2>4. ServerTypeOK'
    BY <2>2 DEF ServerTypeOK, RoleState
  <2>5. \A y \in Conns : y \in peers => Joined(y)
    BY DEF QueryConn, ServerTypeOK, RegistryConsistent
  <2>6. \A y \in Conns : /\ Joined(y)' <=> Joined(y)
                         /\ state'[y] = "NONE" => state[y] = "NONE"
    BY <2>2, <2>5 DEF Joined, CodesAssigned
  <2>7. CodesAssigned' /\ RegistryConsistent'
    BY <1>0, <2>1, <2>2, <2>6 DEF CodesAssigned, RegistryConsistent, ServerTypeOK
  <2>8. QED
    BY <1>0, <2>1, <2>3, <2>4, <2>7 DEF NetTypeOK
<1>5. CASE StreamCreated(x)
  <2> DEFINE m       == Head(c2s[x])
             peers   == QueryConn(objectes[x])
             pullers == {y \in peers : state[y] = "PULLER"}
             kept    == {k \in objectes[x] : registry[k] \in pullers}
  <2>1. /\ link' = link /\ c2s' \in [Conns -> Seq(ToServer)]
        /\ m \in ToServer /\ m.cmd = "CREATESTREAM"
    BY <1>5, ServerReadsType DEF StreamCreated
  <2>2. /\ objectes' = [objectes EXCEPT ![x] = kept]
        /\ state' = [state EXCEPT ![x] =
                 IF kept # {} THEN "PUSHER"
                 ELSE IF objectes[x] # {} THEN "IDLE" ELSE @]
        /\ UNCHANGED <<code, conn_, registry>>
    BY <1>5 DEF StreamCreated
  <2>3. s2c' \in [Conns -> Seq(ToClient)]
    <3> DEFINE out == [y \in Conns |->
                 IF y \in pullers
                   THEN <<PlayStream_body("SUCCESSFUL", m.streamAddres)>>
                 ELSE IF y \in peers
                   THEN <<PlayStream_body("ERROR", NoAddress)>> ELSE <<>>]
    <3>1. /\ PlayStream_body("ERROR", NoAddress) \in ToClient
          /\ PlayStream_body("SUCCESSFUL", m.streamAddres) \in ToClient
      BY <2>1 DEF PlayStream_body, ToClient, ToServer, Results, Address, NoAddress
    <3>2. out \in [Conns -> Seq(ToClient)]
      BY <3>1
    <3>3. ServerSends(out)
      BY <1>5 DEF StreamCreated
    <3>4. QED
      BY <3>2, <3>3, ServerSendsType
  <2>4. ServerTypeOK'
    BY <2>2 DEF ServerTypeOK, RoleState
  <2>5. \A y \in Conns : /\ Joined(y)' <=> Joined(y)
                         /\ state'[y] = "NONE" => state[y] = "NONE"
    BY <2>2 DEF Joined, CodesAssigned, ServerTypeOK
  <2>6. CodesAssigned' /\ RegistryConsistent'
    BY <1>0, <2>1, <2>2, <2>5 DEF CodesAssigned, RegistryConsistent, ServerTypeOK
  <2>7. QED
    BY <1>0, <2>1, <2>3, <2>4, <2>6 DEF NetTypeOK
<1>6. CASE HandleOtherMessage(x)
  <2>1. /\ link' = link /\ c2s' \in [Conns -> Seq(ToServer)]
        /\ UNCHANGED serverVars
    BY <1>6, ServerReadsType DEF HandleOtherMessage
  <2>2. s2c' \in [Conns -> Seq(ToClient)]
    <3>1. ForwardedInput(x) \in ToClient
      BY DEF ForwardedInput, ToClient
    <3>2. Forwards(x) => Reply(conn_[x], ForwardedInput(x)) \in [Conns -> Seq(ToClient)]
      BY <3>1, ReplyType DEF Forwards, ServerTypeOK
    <3>3. QED
      BY <1>6, <3>2, NothingType, ServerSendsType DEF HandleOtherMessage
  <2>3. QED
    BY <1>0, <2>1, <2>2
    DEF NetTypeOK, ServerTypeOK, CodesAssigned, RegistryConsistent, Joined, serverVars
<1>7. CASE HandleDeleteStream(x)
  <2>1. link' = link /\ c2s' \in [Conns -> Seq(ToServer)]
    BY <1>7, ServerReadsType DEF HandleDeleteStream
  <2>2. CASE IsBusy(x)
    <3>1. Clear(x)
      BY <1>7, <2>2 DEF HandleDeleteStream
    <3>2. QED
      BY <1>0, <2>1, <3>1, ClearType, ClearRegistry DEF NetTypeOK
  <2>3. CASE ~ IsBusy(x)
    BY <1>0, <1>7, <2>1, <2>3
    DEF HandleDeleteStream, NetTypeOK, ServerTypeOK, CodesAssigned,
        RegistryConsistent, Joined, serverVars
  <2>4. QED
    BY <2>2, <2>3
<1>8. CASE DisConnected(x)
  <2>1. /\ link' \in [Conns -> {"new", "up", "half", "down"}]
        /\ \A c \in Controllers : link'[c] # "new" => link[c] # "new"
        /\ c2s' \in [Conns -> Seq(ToServer)]
        /\ Clear(x)
    BY <1>8 DEF DisConnected, NetTypeOK, Conns
  <2>2. QED
    BY <1>0, <2>1, ClearType, ClearRegistry DEF NetTypeOK
<1>9. QED
  BY <1>1, <1>2, <1>3, <1>4, <1>5, <1>6, <1>7, <1>8 DEF ServerHandles

\* What a client does leaves the server alone, so only the network, the clients
\* and the targets of opened windows are in question.
ClientSide == NetTypeOK /\ ClientTypeOK
                /\ \A c \in Controllers : link[c] # "new" => targetCode[c] \in Codes

LEMMA ServerAlone ==
    ASSUME TypeInv, UNCHANGED serverVars, ClientSide'
    PROVE  TypeInv'
BY DEF TypeInv, TypeOK, ClientSide, ServerTypeOK, CodesAssigned,
       RegistryConsistent, Joined, serverVars

LEMMA DeviceTypeInv ==
    ASSUME TypeInv, NEW d \in Devices,
           DeviceConnects(d) \/ DeviceHandles(d) \/ DeviceLeaves(d)
    PROVE  ClientSide'
<1> USE DEF ClientSide
<1>0. /\ d \in Conns /\ d \notin Controllers
      /\ NetTypeOK /\ ClientTypeOK
      /\ \A c \in Controllers : link[c] # "new" => targetCode[c] \in Codes
  BY ConnsAssumption DEF Conns, TypeInv, TypeOK, CodesAssigned
<1>1. CASE DeviceConnects(d)
  <2>1. PICK k \in CodesOf[d] : Connects(d, k)
    BY <1>1 DEF DeviceConnects
  <2>2. Join_body(k) \in ToServer
    BY <1>0, ConnsAssumption DEF Join_body, ToServer
  <2>3. c2s' \in [Conns -> Seq(ToServer)]
    BY <1>0, <2>1, <2>2, ClientSendsType DEF Connects
  <2>4. link' \in [Conns -> {"new", "up", "half", "down"}] /\ s2c' = s2c
    BY <1>0, <2>1 DEF Connects, NetTypeOK
  <2>5. \A c \in Controllers : link'[c] = link[c]
    BY <1>0, <2>1 DEF Connects, NetTypeOK, Conns
  <2>6. ClientTypeOK' /\ targetCode' = targetCode
    BY <1>0, <1>1 DEF DeviceConnects, ClientTypeOK, clientVars
  <2>7. QED
    BY <1>0, <2>3, <2>4, <2>5, <2>6 DEF NetTypeOK
<1>2. CASE DeviceJoined(d)
  BY <1>0, <1>2, ClientReadsType DEF DeviceJoined, NetTypeOK, ClientTypeOK
<1>3. CASE doCtreatStream(d)
  <2> DEFINE a == streamIndex[d] + 1
  <2>1. /\ link' = link /\ s2c' \in [Conns -> Seq(ToClient)]
        /\ Head(s2c[d]).by \in Conns
    BY <1>0, <1>3, ClientReadsType DEF doCtreatStream, ToClient
  <2>2. a \in Nat /\ a \in Address
    BY <1>0 DEF ClientTypeOK, Address
  <2>3. /\ CreateStreamReply_body("SUCCESSFUL", a) \in ToServer
        /\ CreateStreamReply_body("ERROR", NoAddress) \in ToServer
    BY <2>2 DEF CreateStreamReply_body, ToServer, Results, Address, NoAddress
  <2>4. c2s' \in [Conns -> Seq(ToServer)]
    BY <1>0, <1>3, <2>3, ClientSendsType DEF doCtreatStream, NetTypeOK
  <2>5. /\ session' \in [Devices -> Conns \cup {None}]
        /\ UNCHANGED <<targetCode, joinRetryCount, playing, inputs>>
    BY <1>0, <1>3, <2>1 DEF doCtreatStream, ClientTypeOK
  <2>6. cstate' \in [Conns -> {"NONE", "IDLE", "PULLER", "PUSHER"}]
    BY <1>0, <1>3 DEF doCtreatStream, ClientTypeOK
  <2>7. streamIndex' \in [Devices -> Nat]
    BY <1>0, <1>3, <2>2 DEF doCtreatStream, ClientTypeOK
  <2>8. pushing' \in [Devices -> Address]
    BY <1>0, <1>3, <2>2 DEF doCtreatStream, ClientTypeOK
  <2>9. QED
    BY <1>0, <2>1, <2>4, <2>5, <2>6, <2>7, <2>8 DEF NetTypeOK, ClientTypeOK
<1>4. CASE doDeleteStream(d)
  <2>1. link' = link /\ s2c' \in [Conns -> Seq(ToClient)] /\ c2s' = c2s
    BY <1>0, <1>4, ClientReadsType DEF doDeleteStream
  <2>2. UNCHANGED <<targetCode, joinRetryCount, streamIndex, playing, inputs>>
    BY <1>4 DEF doDeleteStream
  <2>3. /\ cstate' \in [Conns -> {"NONE", "IDLE", "PULLER", "PUSHER"}]
        /\ session' \in [Devices -> Conns \cup {None}]
    BY <1>0, <1>4 DEF doDeleteStream, ClientTypeOK
  <2>4. pushing' \in [Devices -> Address]
    BY <1>0, <1>4 DEF doDeleteStream, ClientTypeOK, Address, NoAddress
  <2>5. QED
    BY <1>0, <2>1, <2>2, <2>3, <2>4 DEF NetTypeOK, ClientTypeOK
<1>5. CASE doInput(d)
  BY <1>0, <1>5, ClientReadsType DEF doInput, NetTypeOK, ClientTypeOK, clientVars
<1>6. CASE DeviceLeaves(d)
  <2> DEFINE silent == [pushing EXCEPT ![d] = NoAddress]
  <2>a. pushing \in [Devices -> Address] /\ NoAddress \in Address
    BY <1>0 DEF ClientTypeOK, Address, NoAddress
  <2>b. silent \in [Devices -> Address]
    BY <2>a
  <2>c. pushing' = pushing \/ pushing' = silent
    BY <1>6 DEF DeviceLeaves
  <2>1. pushing' \in [Devices -> Address]
    BY <2>a, <2>b, <2>c
  <2>2. ClientTypeOK' /\ targetCode' = targetCode
    BY <1>0, <1>6, <2>1 DEF DeviceLeaves, ClientTypeOK
  <2>3. NetTypeOK'
    BY <1>0, <1>6 DEF DeviceLeaves, ClientCloses, NetTypeOK
  <2>4. \A c \in Controllers : link'[c] = link[c]
    BY <1>0, <1>6 DEF DeviceLeaves, ClientCloses, NetTypeOK, Conns
  <2>5. QED
    BY <1>0, <2>2, <2>3, <2>4
<1>7. QED
  BY <1>1, <1>2, <1>3, <1>4, <1>5, <1>6 DEF DeviceHandles

LEMMA ControllerTypeInv ==
    ASSUME TypeInv, NEW c \in Controllers,
           \/ StartRemote(c) \/ ControllerHandles(c) \/ StopRemote(c)
           \/ SendInput(c) \/ RequestDelete(c)
    PROVE  ClientSide'
<1> USE DEF ClientSide
<1>0. /\ c \in Conns /\ c \notin Devices
      /\ NetTypeOK /\ ClientTypeOK
      /\ \A w \in Controllers : link[w] # "new" => targetCode[w] \in Codes
  BY ConnsAssumption DEF Conns, TypeInv, TypeOK, CodesAssigned
<1>1. CASE StartRemote(c)
  <2>1. PICK k \in CodesOf[c] : Connects(c, k)
    BY <1>1 DEF StartRemote
  <2>2. PICK t \in TargetCodes : targetCode' = [targetCode EXCEPT ![c] = t]
    BY <1>1 DEF StartRemote
  <2>3. Join_body(k) \in ToServer
    BY <1>0, ConnsAssumption DEF Join_body, ToServer
  <2>4. c2s' \in [Conns -> Seq(ToServer)]
    BY <1>0, <2>1, <2>3, ClientSendsType DEF Connects
  <2>5. /\ link' \in [Conns -> {"new", "up", "half", "down"}] /\ s2c' = s2c
        /\ \A w \in Conns \ {c} : link'[w] = link[w]
    BY <1>0, <2>1 DEF Connects, NetTypeOK
  <2>6. /\ targetCode' \in [Controllers -> Codes \cup {None}]
        /\ targetCode'[c] \in Codes
        /\ \A w \in Controllers \ {c} : targetCode'[w] = targetCode[w]
    <3>1. t \in Codes
      BY ClientAssumption
    <3>2. QED
      BY <1>0, <2>2, <3>1 DEF ClientTypeOK
  <2>7. ClientTypeOK'
    BY <1>0, <1>1, <2>6 DEF StartRemote, ClientTypeOK
  <2>8. \A w \in Controllers : link'[w] # "new" => targetCode'[w] \in Codes
    BY <1>0, <2>5, <2>6 DEF Conns
  <2>9. QED
    BY <1>0, <2>4, <2>5, <2>7, <2>8 DEF NetTypeOK
<1>2. CASE ControllerJoined(c)
  <2>1. /\ link' = link /\ s2c' \in [Conns -> Seq(ToClient)]
        /\ link[c] = "up"
    BY <1>0, <1>2, ClientReadsType DEF ControllerJoined
  <2>2. ObtainStream_body(targetCode[c]) \in ToServer
    BY <1>0, <2>1 DEF ObtainStream_body, ToServer
  <2>3. c2s' \in [Conns -> Seq(ToServer)]
    BY <1>0, <1>2, <2>2, ClientSendsType DEF ControllerJoined
  <2>4. QED
    BY <1>0, <1>2, <2>1, <2>3 DEF ControllerJoined, NetTypeOK, ClientTypeOK
<1>3. CASE ControllerJoinRefused(c)
  <2>1. link' = link /\ s2c' \in [Conns -> Seq(ToClient)]
    BY <1>0, <1>3, ClientReadsType DEF ControllerJoinRefused
  <2>2. \A k \in CodesOf[c] : Join_body(k) \in ToServer
    BY <1>0, ConnsAssumption DEF Join_body, ToServer
  <2>3. c2s' \in [Conns -> Seq(ToServer)]
    BY <1>0, <1>3, <2>2, ClientSendsType DEF ControllerJoinRefused, NetTypeOK
  <2>4. joinRetryCount' \in [Controllers -> 0 .. MaxJoinRetries]
    <3>1. ASSUME joinRetryCount[c] < MaxJoinRetries
          PROVE  joinRetryCount[c] + 1 \in 0 .. MaxJoinRetries
      BY <1>0, <3>1, ClientAssumption DEF ClientTypeOK
    <3>2. QED
      BY <1>0, <1>3, <3>1 DEF ControllerJoinRefused, MayRetry, ClientTypeOK
  <2>5. QED
    BY <1>0, <1>3, <2>1, <2>3, <2>4
    DEF ControllerJoinRefused, NetTypeOK, ClientTypeOK
<1>4. CASE doObtainStreamReply(c)
  BY <1>0, <1>4, ClientReadsType
  DEF doObtainStreamReply, NetTypeOK, ClientTypeOK
<1>5. CASE doPlayStream(c)
  <2>1. /\ link' = link /\ s2c' \in [Conns -> Seq(ToClient)]
        /\ Head(s2c[c]).streamAddres \in Address
    BY <1>0, <1>5, ClientReadsType DEF doPlayStream, ToClient
  <2>2. playing' \in [Controllers -> Seq(Address)]
    BY <1>0, <1>5, <2>1 DEF doPlayStream, ClientTypeOK
  <2>3. QED
    BY <1>0, <1>5, <2>1, <2>2 DEF doPlayStream, NetTypeOK, ClientTypeOK
<1>6. CASE doDeleteStream(c)
  BY <1>0, <1>6, ClientReadsType
  DEF doDeleteStream, LastStreamGone, NetTypeOK, ClientTypeOK
<1>7. CASE StopRemote(c)
  <2>1. <<>> \in Seq(Address)
    OBVIOUS
  <2>2. QED
    BY <1>0, <1>7, <2>1 DEF StopRemote, ClientCloses, NetTypeOK, ClientTypeOK
<1>8. CASE SendInput(c)
  <2>1. Input_body \in ToServer
    BY DEF Input_body, ToServer
  <2>2. c2s' \in [Conns -> Seq(ToServer)]
    BY <1>0, <1>8, <2>1, ClientSendsType DEF SendInput
  <2>3. inputs' \in [Controllers -> 0 .. MaxInputs]
    <3>1. inputs[c] < MaxInputs /\ inputs' = [inputs EXCEPT ![c] = @ + 1]
      BY <1>8 DEF SendInput
    <3>2. inputs[c] + 1 \in 0 .. MaxInputs
      BY <1>0, <3>1, ClientAssumption DEF ClientTypeOK
    <3>3. QED
      BY <1>0, <3>1, <3>2 DEF ClientTypeOK
  <2>4. QED
    BY <1>0, <1>8, <2>2, <2>3 DEF SendInput, NetTypeOK, ClientTypeOK
<1>9. CASE RequestDelete(c)
  <2>1. DeleteStream_request \in ToServer
    BY DEF DeleteStream_request, ToServer
  <2>2. c2s' \in [Conns -> Seq(ToServer)]
    BY <1>0, <1>9, <2>1, ClientSendsType DEF RequestDelete
  <2>3. QED
    BY <1>0, <1>9, <2>2 DEF RequestDelete, clientVars, NetTypeOK, ClientTypeOK
<1>10. QED
  BY <1>1, <1>2, <1>3, <1>4, <1>5, <1>6, <1>7, <1>8, <1>9 DEF ControllerHandles

LEMMA NextTypeInv == TypeInv /\ [Next]_vars => TypeInv'
<1> SUFFICES ASSUME TypeInv, [Next]_vars PROVE TypeInv'
  OBVIOUS
<1>1. CASE ServerStep
  BY <1>1, ServerTypeInv DEF ServerStep
<1>2. CASE DeviceStep
  BY <1>2, DeviceTypeInv, ServerAlone DEF DeviceStep
<1>3. CASE ControllerStep
  BY <1>3, ControllerTypeInv, ServerAlone DEF ControllerStep
<1>4. CASE UNCHANGED vars
  BY <1>4 DEF vars, netVars, serverVars, clientVars, TypeInv, TypeOK, NetTypeOK,
              ServerTypeOK, ClientTypeOK, CodesAssigned, RegistryConsistent, Joined
<1>5. QED
  BY <1>1, <1>2, <1>3, <1>4 DEF Next

LEMMA TypeInvAlways == Spec => []TypeInv
<1>1. QED
  BY InitTypeInv, NextTypeInv, PTL DEF Spec

\* Every variable keeps its type; in particular a control window never draws more
\* than MaxJoinRetries new session codes.
THEOREM TypeCorrect == Spec => []TypeOK
<1>1. TypeInv => TypeOK
  BY DEF TypeInv
<1>2. QED
  BY <1>1, TypeInvAlways, PTL

\* A code leads to the live connection that joined with it, and to no other: a
\* refused duplicate and a departed connection never take an entry away.
THEOREM RegistryIsConsistent == Spec => []RegistryConsistent
<1>1. TypeInv => RegistryConsistent
  BY DEF TypeInv
<1>2. QED
  BY <1>1, TypeInvAlways, PTL

----------------------------------------------------------------------------
\* The control right.  ControlIsMutual carries the argument: a device whose input
\* is forwarded knows it (objectes is not empty), and a request is granted only
\* over a device that knows of nobody.

\* Whoever leaves keeps nobody else's code out of the peers' lists.
LEMMA CodesDiffer ==
    ASSUME TypeInv, NEW c \in Conns, NEW x \in Conns, c # x, Joined(c),
           state[x] # "CLOSE"
    PROVE  code[c] # code[x]
<1>1. code[c] \in Codes /\ registry[code[c]] = c
  BY DEF TypeInv, CodesAssigned, RegistryConsistent
<1>2. CASE state[x] = "NONE"
  BY <1>1, <1>2, ConnsAssumption DEF TypeInv, CodesAssigned
<1>3. CASE Joined(x)
  BY <1>1, <1>3 DEF TypeInv, RegistryConsistent
<1>4. QED
  BY <1>2, <1>3 DEF Joined

\* What each server step can do to the forwarding relation: it arises only from a
\* grant over an idle device without peers, and as long as it lasts, the device
\* keeps the controller's code.
ControlStep(x, c, d) ==
    Controls(c, d)' =>
        \/ /\ Controls(c, d)
           /\ code[c] \in objectes[d] => code'[c] \in objectes'[d]
        \/ /\ c = x /\ objectes[d] = {}
           /\ code'[c] \in objectes'[d]

LEMMA ClearControl ==
    ASSUME TypeInv, NEW x \in Conns, Clear(x), NEW c \in Conns, NEW d \in Conns
    PROVE  ControlStep(x, c, d)
<1> USE DEF TypeInv, TypeOK
<1>1. CASE state[x] = "CLOSE"
  BY <1>1 DEF Clear, serverVars, ControlStep, Controls
<1>2. CASE state[x] # "CLOSE"
  <2> SUFFICES ASSUME Controls(c, d)'
               PROVE  Controls(c, d) /\ (code[c] \in objectes[d] => code'[c] \in objectes'[d])
    BY DEF ControlStep
  <2>1. /\ code' = code
        /\ state' = [y \in Conns |->
              IF y = x THEN "CLOSE"
              ELSE IF /\ y \in QueryConn(objectes[x]) /\ objectes[y] # {}
                      /\ RmoveCustom(y, code[x]) = {}
                THEN "IDLE" ELSE state[y]]
        /\ \A y \in Conns \ {x} : objectes'[y] = objectes[y] \/ objectes'[y] = objectes[y] \ {code[x]}
        /\ conn_' = [conn_ EXCEPT ![x] = None]
    BY <1>2 DEF Clear, RmoveCustom
  <2>2. c # x /\ d # x /\ state[c] = "PULLER" /\ conn_[c] = d
    BY <2>1 DEF Controls, ServerTypeOK
  <2>3. state[d] # "CLOSE"
    BY <2>1, <2>2 DEF Controls, CodesAssigned, Joined
  <2>4. code[c] # code[x]
    BY <1>2, <2>2, CodesDiffer DEF Joined
  <2>5. QED
    BY <2>1, <2>2, <2>3, <2>4 DEF Controls
<1>3. QED
  BY <1>1, <1>2

LEMMA ServerControl ==
    ASSUME TypeInv, NEW x \in Conns, ServerHandles(x), NEW c \in Conns, NEW d \in Conns
    PROVE  ControlStep(x, c, d)
<1> USE DEF TypeInv, TypeOK
<1>1. CASE JoinAccepted(x)
  <2>1. /\ state[x] = "NONE"
        /\ state' = [state EXCEPT ![x] = "IDLE"]
        /\ \A y \in Conns \ {x} : code'[y] = code[y]
        /\ UNCHANGED <<objectes, conn_>>
    BY <1>1 DEF JoinAccepted, ServerTypeOK
  <2>2. QED
    BY <2>1 DEF ControlStep, Controls, ServerTypeOK
<1>2. CASE JoinRejected(x) \/ ObtainRejected(x) \/ HandleOtherMessage(x)
  BY <1>2 DEF JoinRejected, ObtainRejected, HandleOtherMessage, serverVars,
              ControlStep, Controls
<1>3. CASE ObtainGranted(x)
  <2> DEFINE k == Head(c2s[x]).id
             t == registry[k]
  <2>1. k \in Codes
    <3>1. Head(c2s[x]) \in ToServer /\ Head(c2s[x]).cmd = "OBTAINSTREAM"
      BY <1>3, ServerReadsType DEF ObtainGranted
    <3>2. QED
      BY <3>1 DEF ToServer
  <2>2. /\ t \in Conns /\ t # x /\ state[t] = "IDLE" /\ objectes[t] = {}
        /\ state' = [state EXCEPT ![x] = "PULLER"]
        /\ objectes' = [objectes EXCEPT ![x] = AddCustom(x, k),
                                        ![t] = AddCustom(t, code[x])]
        /\ conn_' = [conn_ EXCEPT ![x] = t]
        /\ UNCHANGED <<code, registry>>
    BY <1>3, <2>1 DEF ObtainGranted, Obtainable, ServerTypeOK
  <2>3. code[x] \in objectes'[t]
    BY <2>2 DEF ServerTypeOK, AddCustom
  <2>4. \A y \in Conns : objectes[y] \subseteq objectes'[y]
    BY <2>2 DEF ServerTypeOK, AddCustom
  <2>5. CASE c = x
    BY <2>2, <2>3, <2>5 DEF ControlStep, Controls, ServerTypeOK
  <2>6. CASE c # x
    <3>1. state'[c] = state[c] /\ conn_'[c] = conn_[c] /\ code'[c] = code[c]
      BY <2>2, <2>6 DEF ServerTypeOK
    <3>2. state'[d] # "CLOSE" => state[d] # "CLOSE"
      BY <2>2, <1>3 DEF ServerTypeOK, ObtainGranted, Obtainable
    <3>3. QED
      BY <2>4, <3>1, <3>2 DEF ControlStep, Controls
  <2>7. QED
    BY <2>5, <2>6
<1>4. CASE StreamFailed(x)
  <2> SUFFICES ASSUME Controls(c, d)'
               PROVE  Controls(c, d) /\ (code[c] \in objectes[d] => code'[c] \in objectes'[d])
    BY DEF ControlStep
  <2> DEFINE kept == {k \in objectes[x] : registry[k] # None}
  <2>1. /\ objectes' = [objectes EXCEPT ![x] = kept]
        /\ state' = [y \in Conns |->
              IF \/ y \in QueryConn(objectes[x])
                 \/ y = x /\ objectes[x] # {} /\ kept = {}
              THEN "IDLE" ELSE state[y]]
        /\ UNCHANGED <<code, conn_, registry>>
    BY <1>4 DEF StreamFailed
  <2>2. state[c] = "PULLER" /\ conn_[c] = d
    BY <2>1 DEF Controls, ServerTypeOK
  <2>3. state[d] # "CLOSE"
    BY <2>1 DEF Controls, QueryConn, ServerTypeOK, RegistryConsistent,
                CodesAssigned, Joined
  <2>4. registry[code[c]] = c /\ c # None
    BY <2>2, ConnsAssumption DEF RegistryConsistent, Joined
  <2>5. QED
    BY <2>1, <2>2, <2>3, <2>4 DEF Controls, ServerTypeOK
<1>5. CASE StreamCreated(x)
  <2> SUFFICES ASSUME Controls(c, d)'
               PROVE  Controls(c, d) /\ (code[c] \in objectes[d] => code'[c] \in objectes'[d])
    BY DEF ControlStep
  <2> DEFINE pullers == {y \in QueryConn(objectes[x]) : state[y] = "PULLER"}
             kept    == {k \in objectes[x] : registry[k] \in pullers}
  <2>1. /\ objectes' = [objectes EXCEPT ![x] = kept]
        /\ state' = [state EXCEPT ![x] =
                 IF kept # {} THEN "PUSHER"
                 ELSE IF objectes[x] # {} THEN "IDLE" ELSE @]
        /\ UNCHANGED <<code, conn_, registry>>
    BY <1>5 DEF StreamCreated
  <2>2. state[c] = "PULLER" /\ conn_[c] = d
    BY <2>1 DEF Controls, ServerTypeOK
  <2>3. state[d] # "CLOSE"
    BY <2>1 DEF Controls, ServerTypeOK, CodesAssigned, Joined
  <2>4. registry[code[c]] = c /\ c # None
    BY <2>2, ConnsAssumption DEF RegistryConsistent, Joined
  <2>5. code[c] \in objectes[x] => code[c] \in kept
    BY <2>2, <2>4 DEF QueryConn
  <2>6. QED
    BY <2>1, <2>2, <2>3, <2>5 DEF Controls, ServerTypeOK
<1>6. CASE HandleDeleteStream(x)
  <2>1. CASE IsBusy(x)
    BY <1>6, <2>1, ClearControl DEF HandleDeleteStream
  <2>2. CASE ~ IsBusy(x)
    BY <1>6, <2>2 DEF HandleDeleteStream, serverVars, ControlStep, Controls
  <2>3. QED
    BY <2>1, <2>2
<1>7. CASE DisConnected(x)
  BY <1>7, ClearControl DEF DisConnected
<1>8. QED
  BY <1>1, <1>2, <1>3, <1>4, <1>5, <1>6, <1>7 DEF ServerHandles

\* The inductive invariant of the control right.
OneController ==
    \A c1, c2, d \in Conns : Controls(c1, d) /\ Controls(c2, d) => c1 = c2

ControlInv == TypeInv /\ ControlIsMutual /\ OneController

LEMMA NextControlInv == ControlInv /\ [Next]_vars => ControlInv'
<1> SUFFICES ASSUME ControlInv, [Next]_vars PROVE ControlInv'
  OBVIOUS
<1>1. TypeInv'
  BY NextTypeInv DEF ControlInv
<1>2. CASE UNCHANGED serverVars
  BY <1>1, <1>2 DEF ControlInv, ControlIsMutual, OneController, Controls, serverVars
<1>3. CASE ServerStep
  <2>1. PICK x \in Conns : ServerHandles(x)
    BY <1>3 DEF ServerStep
  <2>2. \A c, d \in Conns : ControlStep(x, c, d)
    BY <2>1, ServerControl DEF ControlInv
  <2>3. ControlIsMutual'
    BY <2>2 DEF ControlInv, ControlIsMutual, ControlStep
  <2>4. ASSUME NEW c1 \in Conns, NEW c2 \in Conns, NEW d \in Conns,
               Controls(c1, d)', Controls(c2, d)'
        PROVE  c1 = c2
    <3>1. CASE Controls(c1, d) /\ Controls(c2, d)
      BY <3>1 DEF ControlInv, OneController
    <3>2. CASE objectes[d] = {}
      <4>1. ~ Controls(c1, d) /\ ~ Controls(c2, d)
        BY <3>2 DEF ControlInv, ControlIsMutual
      <4>2. QED
        BY <2>2, <2>4, <4>1 DEF ControlStep
    <3>3. QED
      BY <2>2, <2>4, <3>1, <3>2 DEF ControlStep
  <2>5. QED
    BY <1>1, <2>3, <2>4 DEF ControlInv, OneController
<1>4. QED
  BY <1>2, <1>3 DEF Next, DeviceStep, ControllerStep, vars

LEMMA InitControlInv == Init => ControlInv
<1>1. Init => ControlIsMutual /\ OneController
  BY DEF Init, ServerInit, ControlIsMutual, OneController, Controls
<1>2. QED
  BY <1>1, InitTypeInv DEF ControlInv

LEMMA ControlInvAlways == Spec => []ControlInv
<1>1. QED
  BY InitControlInv, NextControlInv, PTL DEF Spec

\* The forwarding relation is always known at the device's side.
THEOREM ControlIsKnownToTheDevice == Spec => []ControlIsMutual
<1>1. ControlInv => ControlIsMutual
  BY DEF ControlInv
<1>2. QED
  BY <1>1, ControlInvAlways, PTL

\* No two control sessions ever have their input forwarded to the same device.
THEOREM OnlyOneController == Spec => []SingleController
<1>1. ControlInv => SingleController
  BY DEF ControlInv, OneController, SingleController, Conns
<1>2. QED
  BY <1>1, ControlInvAlways, PTL

----------------------------------------------------------------------------
\* The control right: every step gives one free device to one window that has
\* none, takes one device back, or leaves the control right alone.
\* Who sends what.  Devices join and answer CREATESTREAM; a control window joins
\* under one of its session codes and asks for a code a user may enter.  So a
\* session code is never asked for, and a device has one peer at most: its peers
\* come from the grants over it, and each needs an empty list.

FromDevice ==
    [cmd : {"JOIN"}, id : Codes]
      \cup [cmd : {"CREATESTREAM"}, result : Results, streamAddres : Address]

FromController(c) ==
    [cmd : {"JOIN"}, id : CodesOf[c]]
      \cup [cmd : {"OBTAINSTREAM"}, id : TargetCodes]
      \cup [cmd : {"DELETESTREAM", "INPUT"}]

ClientsKeepRoles ==
    /\ \A d \in Devices : c2s[d] \in Seq(FromDevice)
    /\ \A c \in Controllers : c2s[c] \in Seq(FromController(c))
    /\ \A c \in Controllers : link[c] # "new" => targetCode[c] \in TargetCodes

ServerKeepsRoles ==
    /\ \A c \in Controllers : code[c] \in CodesOf[c] \cup {None}
    /\ \A c \in Controllers : objectes[c] \subseteq TargetCodes
    /\ \A d \in Devices : state[d] # "PULLER"
    /\ \A d \in Devices : \A k, l \in objectes[d] : k = l

RightInv == ControlInv /\ ClientsKeepRoles /\ ServerKeepsRoles

\* It holds before anyone has connected.
LEMMA InitRightInv == Init => RightInv
<1> SUFFICES ASSUME Init PROVE ClientsKeepRoles /\ ServerKeepsRoles
  BY InitControlInv DEF RightInv
<1>1. <<>> \in Seq(FromDevice) /\ \A c \in Controllers : <<>> \in Seq(FromController(c))
  OBVIOUS
<1>2. ClientsKeepRoles
  BY <1>1 DEF Init, NetInit, ClientsKeepRoles, Conns
<1>3. ServerKeepsRoles
  BY DEF Init, ServerInit, ServerKeepsRoles, Conns
<1>4. QED
  BY <1>2, <1>3

----------------------------------------------------------------------------
\* The clients' side of the invariant.

\* Reading takes the first packet of a channel and leaves the rest.
LEMMA ServerReadsRoles ==
    ASSUME RightInv, NEW x \in Conns, NEW cmd, ServerReads(x, cmd)
    PROVE  /\ targetCode' = targetCode => ClientsKeepRoles'
           /\ x \in Devices => Head(c2s[x]) \in FromDevice
           /\ x \in Controllers => Head(c2s[x]) \in FromController(x)
           /\ Head(c2s[x]).cmd = cmd
<1>1. /\ c2s[x] # <<>> /\ Head(c2s[x]).cmd = cmd
      /\ c2s' = [c2s EXCEPT ![x] = Tail(@)] /\ link' = link
      /\ c2s \in [Conns -> Seq(ToServer)]
  BY DEF RightInv, ServerReads, ControlInv, TypeInv, TypeOK, NetTypeOK
<1>2. ASSUME x \in Devices
      PROVE  Tail(c2s[x]) \in Seq(FromDevice) /\ Head(c2s[x]) \in FromDevice
  BY <1>1, <1>2 DEF RightInv, ClientsKeepRoles
<1>3. ASSUME x \in Controllers
      PROVE  /\ Tail(c2s[x]) \in Seq(FromController(x))
             /\ Head(c2s[x]) \in FromController(x)
  BY <1>1, <1>3 DEF RightInv, ClientsKeepRoles
<1>4. ASSUME targetCode' = targetCode PROVE ClientsKeepRoles'
  BY <1>1, <1>2, <1>3, <1>4 DEF RightInv, ClientsKeepRoles, Conns, FromController, FromDevice
<1>5. QED
  BY <1>1, <1>2, <1>3, <1>4

\* The server only takes packets away from its clients' queues.
LEMMA ServerKeepsClientsRoles ==
    ASSUME RightInv, NEW x \in Conns, ServerHandles(x), UNCHANGED clientVars
    PROVE  ClientsKeepRoles'
<1>1. targetCode' = targetCode
  BY DEF clientVars
<1>2. CASE ~ DisConnected(x)
  <2>1. \E cmd \in {"JOIN", "OBTAINSTREAM", "CREATESTREAM", "INPUT", "DELETESTREAM"} :
           ServerReads(x, cmd)
    BY <1>2 DEF ServerHandles, JoinAccepted, JoinRejected, ObtainGranted,
        ObtainRejected, StreamCreated, StreamFailed, HandleOtherMessage,
        HandleDeleteStream
  <2>2. QED
    BY <1>1, <2>1, ServerReadsRoles
<1>3. CASE DisConnected(x)
  <2>1. /\ c2s' = [c2s EXCEPT ![x] = <<>>] /\ link' = [link EXCEPT ![x] = "down"]
        /\ link[x] = "half"
        /\ c2s \in [Conns -> Seq(ToServer)]
        /\ link \in [Conns -> {"new", "up", "half", "down"}]
    BY <1>3 DEF DisConnected, RightInv, ControlInv, TypeInv, TypeOK, NetTypeOK
  <2>2. <<>> \in Seq(FromDevice) /\ <<>> \in Seq(FromController(x))
    OBVIOUS
  <2>3. QED
    BY <1>1, <2>1, <2>2 DEF RightInv, ClientsKeepRoles, Conns, FromController, FromDevice
<1>4. QED
  BY <1>2, <1>3

\* A client sends a packet of its role.
LEMMA ClientSendsRoles ==
    ASSUME RightInv, NEW x \in Conns, NEW m, ClientSends(x, m),
           x \in Devices => m \in FromDevice,
           x \in Controllers => m \in FromController(x)
    PROVE  /\ \A d \in Devices : c2s'[d] \in Seq(FromDevice)
           /\ \A c \in Controllers : c2s'[c] \in Seq(FromController(c))
<1>1. c2s' = [c2s EXCEPT ![x] = Append(@, m)] /\ c2s \in [Conns -> Seq(ToServer)]
  BY DEF ClientSends, RightInv, ControlInv, TypeInv, TypeOK, NetTypeOK
<1>2. x \in Devices => Append(c2s[x], m) \in Seq(FromDevice)
  BY DEF RightInv, ClientsKeepRoles
<1>3. x \in Controllers => Append(c2s[x], m) \in Seq(FromController(x))
  BY DEF RightInv, ClientsKeepRoles
<1>4. QED
  BY <1>1, <1>2, <1>3 DEF RightInv, ClientsKeepRoles, Conns, FromController, FromDevice

\* What a device sends,
LEMMA DeviceRoles ==
    ASSUME RightInv, NEW d \in Devices,
           DeviceConnects(d) \/ DeviceHandles(d) \/ DeviceLeaves(d)
    PROVE  ClientsKeepRoles'
<1> USE DEF RightInv, ControlInv, TypeInv, TypeOK
<1>0. /\ d \in Conns /\ d \notin Controllers
      /\ link \in [Conns -> {"new", "up", "half", "down"}]
      /\ streamIndex[d] \in Nat
  BY ConnsAssumption DEF Conns, NetTypeOK, ClientTypeOK
<1>1. /\ targetCode' = targetCode
      /\ \A c \in Controllers : link'[c] = link[c]
  <2>1. targetCode' = targetCode
    BY DEF DeviceConnects, DeviceHandles, DeviceJoined, doCtreatStream,
           doDeleteStream, doInput, DeviceLeaves, clientVars
  <2>2. link' = link \/ \E s \in {"up", "half"} : link' = [link EXCEPT ![d] = s]
    BY DEF DeviceConnects, Connects, DeviceHandles, DeviceJoined, doCtreatStream,
           doDeleteStream, doInput, DeviceLeaves, ClientCloses, ClientReads
  <2>3. QED
    BY <1>0, <2>1, <2>2 DEF Conns
<1>2. \/ c2s' = c2s
      \/ \E m \in FromDevice : ClientSends(d, m)
  <2>1. CASE DeviceConnects(d)
    <3>1. PICK k \in CodesOf[d] : ClientSends(d, Join_body(k))
      BY <2>1 DEF DeviceConnects, Connects
    <3>2. Join_body(k) \in FromDevice
      BY <1>0, ConnsAssumption DEF Join_body, FromDevice
    <3>3. QED
      BY <3>1, <3>2
  <2>2. CASE doCtreatStream(d)
    <3>1. /\ CreateStreamReply_body("SUCCESSFUL", streamIndex[d] + 1) \in FromDevice
          /\ CreateStreamReply_body("ERROR", NoAddress) \in FromDevice
      BY <1>0 DEF CreateStreamReply_body, FromDevice, Results, Address, NoAddress
    <3>2. QED
      BY <2>2, <3>1 DEF doCtreatStream
  <2>3. QED
    BY <2>1, <2>2 DEF DeviceHandles, DeviceJoined, doDeleteStream, doInput,
                      DeviceLeaves, ClientCloses
<1>3. /\ \A e \in Devices : c2s'[e] \in Seq(FromDevice)
      /\ \A c \in Controllers : c2s'[c] \in Seq(FromController(c))
  <2>1. CASE c2s' = c2s
    BY <2>1 DEF ClientsKeepRoles
  <2>2. CASE \E m \in FromDevice : ClientSends(d, m)
    BY <1>0, <2>2, ClientSendsRoles
  <2>3. QED
    BY <1>2, <2>1, <2>2
<1>4. QED
  BY <1>1, <1>3 DEF ClientsKeepRoles, FromController, FromDevice

\* and a control window.
LEMMA ControllerRoles ==
    ASSUME RightInv, NEW c \in Controllers,
           \/ StartRemote(c) \/ ControllerHandles(c) \/ StopRemote(c)
           \/ SendInput(c) \/ RequestDelete(c)
    PROVE  ClientsKeepRoles'
<1> USE DEF RightInv, ControlInv, TypeInv, TypeOK
<1>0. /\ c \in Conns /\ c \notin Devices
      /\ link \in [Conns -> {"new", "up", "half", "down"}]
      /\ targetCode \in [Controllers -> Codes \cup {None}]
      /\ \A e \in Controllers : link[e] # "new" => targetCode[e] \in TargetCodes
  BY ConnsAssumption DEF Conns, NetTypeOK, ClientTypeOK, ClientsKeepRoles
<1>1. \A e \in Controllers : link'[e] # "new" => targetCode'[e] \in TargetCodes
  <2>1. CASE StartRemote(c)
    BY <1>0, <2>1 DEF StartRemote, Connects, Conns
  <2>2. CASE ~ StartRemote(c)
    <3>1. targetCode' = targetCode
      BY <2>2 DEF ControllerHandles, ControllerJoined, ControllerJoinRefused,
                  doObtainStreamReply, doPlayStream, doDeleteStream, StopRemote,
                  SendInput, RequestDelete, clientVars
    <3>2. link' = link \/ (link[c] = "up" /\ link' = [link EXCEPT ![c] = "half"])
      BY <2>2 DEF ControllerHandles, ControllerJoined, ControllerJoinRefused,
                  doObtainStreamReply, doPlayStream, doDeleteStream, StopRemote,
                  SendInput, RequestDelete, ClientReads, ClientCloses
    <3>3. QED
      <4>1. CASE link' = link
        BY <1>0, <3>1, <4>1
      <4>2. CASE link[c] = "up" /\ link' = [link EXCEPT ![c] = "half"]
        BY <1>0, <3>1, <4>2 DEF Conns
      <4>3. QED
        BY <3>2, <4>1, <4>2
  <2>3. QED
    BY <2>1, <2>2
<1>2. \/ c2s' = c2s
      \/ \E m \in FromController(c) : ClientSends(c, m)
  <2>1. \A k \in CodesOf[c] : Join_body(k) \in FromController(c)
    BY DEF Join_body, FromController
  <2>2. CASE StartRemote(c)
    BY <2>1, <2>2 DEF StartRemote, Connects
  <2>3. CASE ControllerJoinRefused(c)
    BY <2>1, <2>3 DEF ControllerJoinRefused
  <2>4. CASE ControllerJoined(c)
    <3>1. ObtainStream_body(targetCode[c]) \in FromController(c)
      BY <2>4 DEF ControllerJoined, ClientReads, ClientsKeepRoles,
                  ObtainStream_body, FromController
    <3>2. QED
      BY <2>4, <3>1 DEF ControllerJoined
  <2>5. CASE SendInput(c) \/ RequestDelete(c)
    BY <2>5 DEF SendInput, RequestDelete, Input_body, DeleteStream_request,
                FromController
  <2>6. QED
    BY <2>2, <2>3, <2>4, <2>5
    DEF ControllerHandles, doObtainStreamReply, doPlayStream, doDeleteStream,
        StopRemote, ClientCloses
<1>3. /\ \A d \in Devices : c2s'[d] \in Seq(FromDevice)
      /\ \A e \in Controllers : c2s'[e] \in Seq(FromController(e))
  <2>1. CASE c2s' = c2s
    BY <2>1 DEF ClientsKeepRoles
  <2>2. CASE \E m \in FromController(c) : ClientSends(c, m)
    BY <1>0, <2>2, ClientSendsRoles
  <2>3. QED
    BY <1>2, <2>1, <2>2
<1>4. QED
  BY <1>1, <1>3 DEF ClientsKeepRoles, FromController, FromDevice

----------------------------------------------------------------------------
\* The server's side.  A code a user may enter leads to a device, so the peers of
\* a control window are devices, and a device has one peer.

\* A code that a user may enter finds a device, if it finds anyone.
LEMMA TargetsAreDevices ==
    ASSUME RightInv, NEW k \in TargetCodes, registry[k] # None
    PROVE  registry[k] \in Devices
<1>1. k \in Codes /\ registry[k] \in Conns /\ code[registry[k]] = k
  BY ClientAssumption
  DEF RightInv, ControlInv, TypeInv, TypeOK, ServerTypeOK, RegistryConsistent
<1>2. registry[k] \notin Controllers
  BY <1>1, ClientAssumption, ConnsAssumption DEF RightInv, ServerKeepsRoles
<1>3. QED
  BY <1>1, <1>2 DEF Conns

\* The peers of a window are devices.
LEMMA WindowsPeers ==
    ASSUME RightInv, NEW c \in Controllers
    PROVE  QueryConn(objectes[c]) \subseteq Devices
BY TargetsAreDevices DEF RightInv, ServerKeepsRoles, QueryConn

\* A device has one peer at most.
LEMMA DevicesPeer ==
    ASSUME RightInv, NEW d \in Devices,
           NEW y \in QueryConn(objectes[d]), NEW z \in QueryConn(objectes[d])
    PROVE  y = z
BY DEF RightInv, ServerKeepsRoles, QueryConn

\* The grant is one of a device to a window.
LEMMA GrantRoles ==
    ASSUME RightInv, NEW x \in Conns, ObtainGranted(x)
    PROVE  /\ x \in Controllers
           /\ Head(c2s[x]).id \in TargetCodes
           /\ registry[Head(c2s[x]).id] \in Devices
           /\ registry[Head(c2s[x]).id] \in Conns
<1>1. ServerReads(x, "OBTAINSTREAM") /\ registry[Head(c2s[x]).id] # None
  BY DEF ObtainGranted, Obtainable
<1>2. x \in Controllers
  <2>1. ~ (x \in Devices)
    BY <1>1, ServerReadsRoles DEF FromDevice
  <2>2. QED
    BY <2>1 DEF Conns
<1>3. Head(c2s[x]).id \in TargetCodes
  BY <1>1, <1>2, ServerReadsRoles DEF FromController
<1>4. QED
  BY <1>1, <1>2, <1>3, TargetsAreDevices DEF Conns

\* Only devices answer CREATESTREAM.
LEMMA AnswerRoles ==
    ASSUME RightInv, NEW x \in Conns, StreamCreated(x) \/ StreamFailed(x)
    PROVE  x \in Devices /\ x \notin Controllers
<1>1. ServerReads(x, "CREATESTREAM")
  BY DEF StreamCreated, StreamFailed
<1>2. ~ (x \in Controllers)
  BY <1>1, ServerReadsRoles DEF FromController
<1>3. QED
  BY <1>2 DEF Conns

\* Clear gives out no code and makes nobody a puller.
LEMMA ClearRoles ==
    ASSUME RightInv, NEW x \in Conns, Clear(x)
    PROVE  ServerKeepsRoles'
<1> USE DEF RightInv, ControlInv, TypeInv, TypeOK
<1>1. CASE state[x] = "CLOSE"
  BY <1>1 DEF Clear, serverVars, ServerKeepsRoles
<1>2. CASE state[x] # "CLOSE"
  <2>1. /\ code' = code
        /\ \A y \in Conns : state'[y] \in {"CLOSE", "IDLE", state[y]}
        /\ \A y \in Conns : objectes'[y] \subseteq objectes[y]
    BY <1>2 DEF Clear, RmoveCustom
  <2>2. QED
    BY <2>1 DEF ServerKeepsRoles, Conns
<1>3. QED
  BY <1>1, <1>2

\* What the handlers of the server make of their connections' peers and codes.
LEMMA ServerRoles ==
    ASSUME RightInv, NEW x \in Conns, ServerHandles(x)
    PROVE  ServerKeepsRoles'
<1> USE DEF RightInv, ControlInv, TypeInv, TypeOK
<1>1. CASE JoinAccepted(x)
  <2>1. /\ state' = [state EXCEPT ![x] = "IDLE"]
        /\ code' = [code EXCEPT ![x] = Head(c2s[x]).id]
        /\ objectes' = objectes
        /\ ServerReads(x, "JOIN")
    BY <1>1 DEF JoinAccepted
  <2>2. x \in Controllers => Head(c2s[x]).id \in CodesOf[x]
    BY <2>1, ServerReadsRoles DEF FromController
  <2>3. QED
    BY <2>1, <2>2 DEF ServerKeepsRoles, ServerTypeOK, Conns
<1>2. CASE JoinRejected(x) \/ ObtainRejected(x) \/ HandleOtherMessage(x)
  BY <1>2 DEF JoinRejected, ObtainRejected, HandleOtherMessage, serverVars,
              ServerKeepsRoles
<1>3. CASE ObtainGranted(x)
  <2> DEFINE k == Head(c2s[x]).id
             t == registry[k]
  <2>1. x \in Controllers /\ k \in TargetCodes /\ t \in Devices /\ t \in Conns /\ x # t
    BY <1>3, GrantRoles, ConnsAssumption
  <2>2. /\ objectes[t] = {}
        /\ state' = [state EXCEPT ![x] = "PULLER"]
        /\ objectes' = [objectes EXCEPT ![x] = objectes[x] \cup {k},
                                        ![t] = objectes[t] \cup {code[x]}]
        /\ code' = code
    BY <1>3 DEF ObtainGranted, Obtainable, AddCustom
  <2> HIDE DEF k, t
  <2>3. \A y \in Conns \ {x, t} : objectes'[y] = objectes[y]
    BY <2>2 DEF ServerTypeOK
  <2>4. objectes'[x] = objectes[x] \cup {k} /\ objectes'[t] = {code[x]}
    BY <2>1, <2>2 DEF ServerTypeOK
  <2>5. \A d \in Devices : state'[d] # "PULLER"
    BY <2>1, <2>2, ConnsAssumption DEF ServerKeepsRoles, ServerTypeOK, Conns
  <2>6. \A c \in Controllers : objectes'[c] \subseteq TargetCodes
    BY <2>1, <2>3, <2>4, ConnsAssumption DEF ServerKeepsRoles, Conns
  <2>7. \A d \in Devices : \A j, l \in objectes'[d] : j = l
    BY <2>1, <2>3, <2>4, ConnsAssumption DEF ServerKeepsRoles, Conns
  <2>8. QED
    BY <2>2, <2>5, <2>6, <2>7 DEF ServerKeepsRoles
<1>4. CASE StreamFailed(x)
  <2>1. /\ code' = code
        /\ \A y \in Conns : state'[y] \in {"IDLE", state[y]}
        /\ \A y \in Conns : objectes'[y] \subseteq objectes[y]
    BY <1>4 DEF StreamFailed, ServerTypeOK
  <2>2. QED
    BY <2>1 DEF ServerKeepsRoles, Conns
<1>5. CASE StreamCreated(x)
  <2>1. /\ code' = code
        /\ \A y \in Conns : state'[y] \in {"IDLE", "PUSHER", state[y]}
        /\ \A y \in Conns : objectes'[y] \subseteq objectes[y]
    BY <1>5 DEF StreamCreated, ServerTypeOK
  <2>2. QED
    BY <2>1 DEF ServerKeepsRoles, Conns
<1>6. CASE HandleDeleteStream(x)
  <2>1. CASE IsBusy(x)
    BY <1>6, <2>1, ClearRoles DEF HandleDeleteStream
  <2>2. CASE ~ IsBusy(x)
    BY <1>6, <2>2 DEF HandleDeleteStream, serverVars, ServerKeepsRoles
  <2>3. QED
    BY <2>1, <2>2
<1>7. CASE DisConnected(x)
  BY <1>7, ClearRoles DEF DisConnected
<1>8. QED
  BY <1>1, <1>2, <1>3, <1>4, <1>5, <1>6, <1>7 DEF ServerHandles

\* RightInv is inductive.
LEMMA NextRightInv == RightInv /\ [Next]_vars => RightInv'
<1> SUFFICES ASSUME RightInv, [Next]_vars PROVE RightInv'
  OBVIOUS
<1>1. ControlInv'
  BY NextControlInv DEF RightInv
<1>2. CASE ServerStep
  <2>1. PICK x \in Conns : ServerHandles(x) /\ UNCHANGED clientVars
    BY <1>2 DEF ServerStep
  <2>2. QED
    BY <1>1, <2>1, ServerKeepsClientsRoles, ServerRoles DEF RightInv
<1>3. CASE UNCHANGED serverVars
  <2>1. ServerKeepsRoles'
    BY <1>3 DEF RightInv, ServerKeepsRoles, serverVars
  <2>2. ClientsKeepRoles'
    <3>1. CASE DeviceStep
      BY <3>1, DeviceRoles DEF DeviceStep
    <3>2. CASE ControllerStep
      BY <3>2, ControllerRoles DEF ControllerStep
    <3>3. CASE ServerStep
      BY <3>3, ServerKeepsClientsRoles DEF ServerStep
    <3>4. CASE UNCHANGED vars
      BY <3>4 DEF RightInv, ClientsKeepRoles, FromController, FromDevice, vars,
                  netVars, clientVars
    <3>5. QED
      BY <3>1, <3>2, <3>3, <3>4 DEF Next
  <2>3. QED
    BY <1>1, <2>1, <2>2 DEF RightInv
<1>4. QED
  BY <1>2, <1>3 DEF Next, DeviceStep, ControllerStep, vars

LEMMA RightInvAlways == Spec => []RightInv
<1>1. QED
  BY InitRightInv, NextRightInv, PTL DEF Spec

----------------------------------------------------------------------------
\* What a step does to the control relation of windows over devices: x is given
\* t, which nobody held; or the relation only shrinks, and by pairs of a single
\* window z.

Given(x, t) ==
    /\ x \in Controllers /\ t \in Devices
    /\ \A c \in Controllers : ~ Controls(c, t)
    /\ \A d \in Devices : ~ Controls(x, d)
    /\ \A c \in Controllers, d \in Devices :
          Controls(c, d)' <=> Controls(c, d) \/ (c = x /\ d = t)

Taken(z) ==
    \A c \in Controllers, d \in Devices :
        /\ Controls(c, d)' => Controls(c, d)
        /\ c # z => (Controls(c, d) => Controls(c, d)')

\* A grant of OBTAINSTREAM gives the device that has the code.
LEMMA GrantGives ==
    ASSUME RightInv, NEW x \in Conns, ObtainGranted(x)
    PROVE  Given(x, registry[Head(c2s[x]).id])
<1> USE DEF RightInv, ControlInv, TypeInv, TypeOK
<1> DEFINE k == Head(c2s[x]).id
           t == registry[k]
<1>1. x \in Controllers /\ t \in Devices /\ t \in Conns
  BY GrantRoles
<1>2. /\ state[x] = "IDLE" /\ state[t] = "IDLE" /\ objectes[t] = {}
      /\ state' = [state EXCEPT ![x] = "PULLER"]
      /\ conn_' = [conn_ EXCEPT ![x] = t]
  BY DEF ObtainGranted, Obtainable
<1> HIDE DEF k, t
<1>3. \A c \in Controllers : ~ Controls(c, t)
  BY <1>1, <1>2 DEF ControlIsMutual, Conns
<1>4. \A d \in Devices : ~ Controls(x, d)
  BY <1>2 DEF Controls
<1>5. ASSUME NEW c \in Controllers, NEW d \in Devices
      PROVE  Controls(c, d)' <=> Controls(c, d) \/ (c = x /\ d = t)
  <2>1. c \in Conns /\ d \in Conns /\ d # x
    BY <1>1, ConnsAssumption DEF Conns
  <2>2. state'[d] = state[d]
    BY <1>2, <2>1 DEF ServerTypeOK
  <2>3. CASE c = x
    BY <1>1, <1>2, <2>1, <2>2, <2>3 DEF Controls, ServerTypeOK
  <2>4. CASE c # x
    <3>1. state'[c] = state[c] /\ conn_'[c] = conn_[c]
      BY <1>2, <2>1, <2>4 DEF ServerTypeOK
    <3>2. QED
      BY <2>2, <2>4, <3>1 DEF Controls
  <2>5. QED
    BY <2>3, <2>4
<1>6. Given(x, t)
  BY <1>1, <1>3, <1>4, <1>5 DEF Given
<1>7. QED
  BY <1>6 DEF k, t

\* Whoever leaves, at most one window loses its device: the one that leaves, or
\* the only peer of the device that leaves.
LEMMA ClearTakes ==
    ASSUME RightInv, NEW x \in Conns, Clear(x)
    PROVE  \E z : Taken(z)
<1> USE DEF RightInv, ControlInv, TypeInv, TypeOK
<1>1. CASE state[x] = "CLOSE"
  BY <1>1 DEF Clear, serverVars, Taken, Controls
<1>2. CASE state[x] # "CLOSE"
  <2> DEFINE peers == QueryConn(objectes[x])
  <2>1. /\ state'[x] = "CLOSE"
        /\ \A y \in Conns \ {x} : state'[y] = state[y] \/ (y \in peers /\ state'[y] = "IDLE")
        /\ conn_' = [conn_ EXCEPT ![x] = None]
    BY <1>2 DEF Clear, ServerTypeOK
  <2>2. ASSUME NEW c \in Controllers, Controls(c, x) PROVE c \in peers
    <3>1. code[c] \in objectes[x]
      BY <2>2 DEF ControlIsMutual, Conns
    <3>2. registry[code[c]] = c
      BY <2>2 DEF Controls, RegistryConsistent, Joined, Conns
    <3>3. QED
      BY <3>1, <3>2, ConnsAssumption DEF QueryConn, Conns
  <2>3. PICK z : \A c \in Controllers : c # z => c # x /\ c \notin peers
    <3>1. CASE x \in Controllers
      <4>1. \A c \in Controllers : c \notin peers
        BY <3>1, WindowsPeers, ConnsAssumption
      <4>2. QED
        BY <4>1
    <3>2. CASE x \in Devices
      <4>1. \A c \in Controllers : c # x
        BY <3>2, ConnsAssumption
      <4>2. \A y, z \in peers : y = z
        BY <3>2, DevicesPeer
      <4>3. QED
        BY <4>1, <4>2
    <3>3. QED
      BY <3>1, <3>2 DEF Conns
  <2> HIDE DEF peers
  <2>4. ASSUME NEW c \in Controllers, NEW d \in Devices, Controls(c, d)'
        PROVE  Controls(c, d)
    <3>1. c \in Conns /\ d \in Conns
      BY DEF Conns
    <3>2. c # x /\ d # x
      BY <2>1, <2>4 DEF Controls
    <3>3. state[c] = "PULLER" /\ conn_[c] = d
      BY <2>1, <2>4, <3>1, <3>2 DEF Controls, ServerTypeOK
    <3>4. state[d] # "CLOSE"
      <4>1. state'[d] # "CLOSE"
        BY <2>4 DEF Controls
      <4>2. \A y \in peers : state[y] # "CLOSE"
        BY DEF peers, QueryConn, RegistryConsistent, CodesAssigned, Joined, ServerTypeOK
      <4>3. QED
        BY <2>1, <3>1, <3>2, <4>1, <4>2
    <3>5. QED
      BY <3>3, <3>4 DEF Controls
  <2>5. ASSUME NEW c \in Controllers, NEW d \in Devices, c # z, Controls(c, d)
        PROVE  Controls(c, d)'
    <3>1. c \in Conns /\ d \in Conns
      BY DEF Conns
    <3>2. c # x /\ c \notin peers /\ d # x
      BY <2>2, <2>3, <2>5
    <3>3. state'[c] = state[c] /\ conn_'[c] = conn_[c]
      BY <2>1, <3>1, <3>2 DEF ServerTypeOK
    <3>4. state'[d] # "CLOSE"
      BY <2>1, <2>5, <3>1, <3>2 DEF Controls
    <3>5. QED
      BY <2>5, <3>3, <3>4 DEF Controls
  <2>6. QED
    BY <2>4, <2>5 DEF Taken
<1>3. QED
  BY <1>1, <1>2

\* A device's answer takes it from its only peer, when it could not stream.
LEMMA AnswerTakes ==
    ASSUME RightInv, NEW x \in Conns, StreamCreated(x) \/ StreamFailed(x)
    PROVE  \E z : Taken(z)
<1> USE DEF RightInv, ControlInv, TypeInv, TypeOK
<1> DEFINE peers == QueryConn(objectes[x])
<1>1. x \in Devices /\ x \notin Controllers
  BY AnswerRoles
<1>2. /\ conn_' = conn_
      /\ \A y \in Conns \ {x} : state'[y] = state[y] \/ (y \in peers /\ state'[y] = "IDLE")
      /\ state'[x] \in {"IDLE", "PUSHER", state[x]}
      /\ state[x] = "CLOSE" => state'[x] = "CLOSE"
  <2>1. state[x] = "CLOSE" => objectes[x] = {}
    BY DEF CodesAssigned, Joined
  <2>2. CASE StreamCreated(x)
    BY <2>1, <2>2 DEF StreamCreated, ServerTypeOK
  <2>3. CASE StreamFailed(x)
    BY <2>1, <2>3 DEF StreamFailed, ServerTypeOK, QueryConn
  <2>4. QED
    BY <2>2, <2>3
<1>3. PICK z : \A c \in Controllers : c # z => c \notin peers
  BY <1>1, DevicesPeer
<1>4. \A y \in peers : state[y] # "CLOSE"
  BY DEF QueryConn, RegistryConsistent, CodesAssigned, Joined, ServerTypeOK
<1> HIDE DEF peers
<1>5. ASSUME NEW d \in Conns PROVE state'[d] = "CLOSE" <=> state[d] = "CLOSE"
  BY <1>2, <1>4
<1>6. ASSUME NEW c \in Controllers
      PROVE  /\ state'[c] = "PULLER" => state[c] = "PULLER"
             /\ c # z => state'[c] = state[c]
  BY <1>1, <1>2, <1>3 DEF Conns
<1>7. Taken(z)
  BY <1>2, <1>5, <1>6 DEF Taken, Controls, Conns
<1>8. QED
  BY <1>7

\* Every step gives a device, or takes one window's at most.
LEMMA StepGivesOrTakes ==
    ASSUME RightInv, [Next]_vars
    PROVE  (\E x, t : Given(x, t)) \/ (\E z : Taken(z))
<1>1. CASE UNCHANGED <<state, conn_>>
  BY <1>1 DEF Taken, Controls
<1>2. ASSUME NEW x \in Conns, ServerHandles(x)
      PROVE  (\E y, t : Given(y, t)) \/ (\E z : Taken(z))
  <2>1. CASE JoinAccepted(x)
    <3>1. /\ state[x] = "NONE" /\ state' = [state EXCEPT ![x] = "IDLE"]
          /\ conn_' = conn_
          /\ state \in [Conns -> RoleState]
      BY <2>1 DEF JoinAccepted, RightInv, ControlInv, TypeInv, TypeOK, ServerTypeOK
    <3>2. \A y \in Conns : /\ state'[y] = "CLOSE" <=> state[y] = "CLOSE"
                           /\ state'[y] = "PULLER" <=> state[y] = "PULLER"
      BY <3>1
    <3>3. QED
      BY <3>1, <3>2 DEF Taken, Controls, Conns
  <2>2. CASE ObtainGranted(x)
    BY <2>2, GrantGives
  <2>3. CASE StreamCreated(x) \/ StreamFailed(x)
    BY <2>3, AnswerTakes
  <2>4. CASE DisConnected(x) \/ (HandleDeleteStream(x) /\ IsBusy(x))
    BY <2>4, ClearTakes DEF DisConnected, HandleDeleteStream
  <2>5. QED
    BY <1>1, <1>2, <2>1, <2>2, <2>3, <2>4
    DEF ServerHandles, JoinRejected, ObtainRejected, HandleOtherMessage,
        HandleDeleteStream, serverVars
<1>3. QED
  BY <1>1, <1>2 DEF Next, ServerStep, DeviceStep, ControllerStep, vars, serverVars

----------------------------------------------------------------------------
\* The same in terms of holder, which chooses the only window that controls d.

HolderControls ==
    \A d \in Devices :
        /\ holder[d] \in Controllers \cup {None}
        /\ \A c \in Controllers : holder[d] = c <=> Controls(c, d)

\* A device's holder is the one window that controls it.
LEMMA HolderIs == OneController => HolderControls
<1> SUFFICES ASSUME OneController, NEW d \in Devices
             PROVE  /\ holder[d] \in Controllers \cup {None}
                    /\ \A c \in Controllers : holder[d] = c <=> Controls(c, d)
  BY DEF HolderControls
<1>1. CASE \E c \in Controllers : Controls(c, d)
  <2>1. holder[d] \in Controllers /\ Controls(holder[d], d)
    BY <1>1 DEF holder
  <2>2. QED
    BY <2>1 DEF OneController, Conns
<1>2. CASE ~ \E c \in Controllers : Controls(c, d)
  <2>1. holder[d] = None
    BY <1>2 DEF holder
  <2>2. QED
    BY <1>2, <2>1, ConnsAssumption DEF Conns
<1>3. QED
  BY <1>1, <1>2

\* So a step is one of ControlRight's, or changes no holder.
LEMMA RightStep ==
    ASSUME RightInv, RightInv', [Next]_vars
    PROVE  [Right!Next]_holder
<1>1. holder = [d \in Devices |-> holder[d]] /\ holder' = [d \in Devices |-> holder'[d]]
  BY DEF holder
<1>2. \A d \in Devices :
         /\ holder[d] \in Controllers \cup {None}
         /\ \A c \in Controllers : holder[d] = c <=> Controls(c, d)
  BY HolderIs DEF RightInv, ControlInv, HolderControls
<1>3. \A d \in Devices :
         /\ holder'[d] \in Controllers \cup {None}
         /\ \A c \in Controllers : holder'[d] = c <=> Controls(c, d)'
  <2>1. OneController'
    BY DEF RightInv, ControlInv
  <2>2. HolderControls'
    BY <2>1, HolderIs, PTL
  <2>3. QED
    BY <2>2 DEF HolderControls
<1>4. ASSUME NEW x, NEW t, Given(x, t) PROVE Right!Next
  <2>1. x \in Controllers /\ t \in Devices
    BY <1>4 DEF Given
  <2>2. holder[t] = None /\ \A e \in Devices : holder[e] # x
    BY <1>2, <1>4, <2>1 DEF Given
  <2>3. holder'[t] = x
    BY <1>3, <1>4, <2>1 DEF Given
  <2>4. ASSUME NEW e \in Devices, e # t PROVE holder'[e] = holder[e]
    <3>1. \A c \in Controllers : holder'[e] = c <=> holder[e] = c
      BY <1>2, <1>3, <1>4, <2>4 DEF Given
    <3>2. QED
      BY <1>2, <1>3, <3>1
  <2>5. holder' = [holder EXCEPT ![t] = x]
    BY <1>1, <2>1, <2>3, <2>4
  <2>6. QED
    BY <2>1, <2>2, <2>5 DEF Right!Next, Right!Grant
<1>5. ASSUME NEW z, Taken(z) PROVE Right!Next \/ UNCHANGED holder
  <2>1. ASSUME NEW e \in Devices, holder'[e] # holder[e]
        PROVE  holder[e] = z /\ holder'[e] = None /\ z \in Controllers
    BY <1>2, <1>3, <1>5, <2>1 DEF Taken
  <2>2. CASE \A e \in Devices : holder'[e] = holder[e]
    BY <1>1, <2>2
  <2>3. ASSUME NEW e \in Devices, holder'[e] # holder[e] PROVE Right!Next
    <3>1. holder[e] = z /\ z \in Controllers /\ holder'[e] = None /\ holder[e] # None
      BY <2>1, <2>3
    <3>2. \A f \in Devices : f # e => holder'[f] = holder[f]
      <4>1. SUFFICES ASSUME NEW f \in Devices, f # e, holder'[f] # holder[f]
                     PROVE  FALSE
        OBVIOUS
      <4>2. Controls(z, f) /\ Controls(z, e)
        BY <1>2, <2>1, <3>1, <4>1
      <4>3. QED
        BY <4>1, <4>2 DEF Controls
    <3>3. holder' = [holder EXCEPT ![e] = None]
      BY <1>1, <3>1, <3>2
    <3>4. QED
      BY <3>1, <3>3 DEF Right!Next, Right!Release
  <2>4. QED
    BY <2>2, <2>3
<1>6. QED
  BY <1>4, <1>5, StepGivesOrTakes

\* The server's forwarding relation, whatever its clients, users and connections
\* do, behaves as a control right does: given when free to a window that has
\* none, one device at a time, and taken back.
THEOREM ServerImplementsControlRight == Spec => ImplementsControlRight
<1>1. Init => Right!Init
  <2>1. ASSUME Init PROVE holder = [d \in Devices |-> None]
    BY <2>1 DEF Init, ServerInit, holder, Controls, Conns
  <2>2. QED
    BY <2>1 DEF Right!Init
<1>2. RightInv /\ RightInv' /\ [Next]_vars => [Right!Next]_holder
  BY RightStep
<1>3. QED
  BY <1>1, <1>2, RightInvAlways, PTL DEF Spec, ImplementsControlRight, Right!Spec

----------------------------------------------------------------------------
\* The inputs: two users' mouse and keyboard packets never interleave at a
\* device, whatever packets are on their way.
\* SessionAt without its CHOOSE: v is the session that the packets before the
\* i-th of q leave a device in, if it was in session s before the first.

IsMark(m) ==
    \/ m.cmd = "CREATESTREAM"
    \/ m.cmd = "DELETESTREAM" /\ m.streamCount = 0

SessionOf(m) == IF m.cmd = "CREATESTREAM" THEN m.by ELSE None

Governs(q, s, i, v) ==
    \/ /\ v = s
       /\ \A l \in 1 .. i - 1 : ~ IsMark(q[l])
    \/ \E j \in 1 .. i - 1 :
          /\ IsMark(q[j]) /\ v = SessionOf(q[j])
          /\ \A l \in j + 1 .. i - 1 : ~ IsMark(q[l])

\* What governs an input is what SessionAt chooses.
\* What governs an input is what SessionAt chooses.
LEMMA GovernsIsSessionAt ==
    ASSUME NEW d \in Devices, NEW i \in Nat, NEW v,
           Governs(s2c[d], session[d], i, v)
    PROVE  SessionAt(d, i) = v
<1>1. CASE v = session[d] /\ \A l \in 1 .. i - 1 : ~ IsMark(s2c[d][l])
  <2>1. Marks(d, i) = {}
    BY <1>1 DEF Marks, IsMark
  <2>2. QED
    BY <1>1, <2>1 DEF SessionAt
<1>2. ASSUME NEW j \in 1 .. i - 1,
             IsMark(s2c[d][j]), v = SessionOf(s2c[d][j]),
             \A l \in j + 1 .. i - 1 : ~ IsMark(s2c[d][l])
      PROVE  SessionAt(d, i) = v
  <2>1. j \in Marks(d, i) /\ \A l \in Marks(d, i) : l <= j
    BY <1>2 DEF Marks, IsMark
  <2>2. \A l \in Marks(d, i) : (\A k \in Marks(d, i) : k <= l) => l = j
    BY <2>1 DEF Marks
  <2>3. (CHOOSE l \in Marks(d, i) : \A k \in Marks(d, i) : k <= l) = j
    BY <2>1, <2>2
  <2>4. QED
    BY <1>2, <2>1, <2>3 DEF SessionAt, SessionOf
<1>3. QED
  BY <1>1, <1>2 DEF Governs

\* A packet added at the end changes nothing before it, and what it means for
\* those after it is its own.
LEMMA GovernsAppend ==
    ASSUME NEW q \in Seq(ToClient), NEW m \in ToClient, NEW s, NEW v
    PROVE  /\ \A i \in 1 .. Len(q) + 1 :
                 Governs(q, s, i, v) => Governs(Append(q, m), s, i, v)
           /\ IF IsMark(m) THEN Governs(Append(q, m), s, Len(q) + 2, SessionOf(m))
              ELSE Governs(q, s, Len(q) + 1, v)
                      => Governs(Append(q, m), s, Len(q) + 2, v)
<1> DEFINE r == Append(q, m)
<1>1. /\ Len(q) \in Nat
      /\ \A l \in 1 .. Len(q) : r[l] = q[l]
      /\ r[Len(q) + 1] = m
  OBVIOUS
<1> HIDE DEF r
<1>2. ASSUME NEW i \in 1 .. Len(q) + 1, Governs(q, s, i, v)
      PROVE  Governs(r, s, i, v)
  <2>1. \A l \in 1 .. i - 1 : r[l] = q[l]
    BY <1>1
  <2>2. QED
    BY <1>1, <1>2, <2>1 DEF Governs
<1>3. ASSUME IsMark(m) PROVE Governs(r, s, Len(q) + 2, SessionOf(m))
  <2>1. Len(q) + 1 \in 1 .. Len(q) + 2 - 1
    BY <1>1
  <2>2. QED
    BY <1>1, <1>3, <2>1 DEF Governs
<1>4. ASSUME ~ IsMark(m), Governs(q, s, Len(q) + 1, v)
      PROVE  Governs(r, s, Len(q) + 2, v)
  <2>1. \A l \in 1 .. Len(q) + 2 - 1 : l \in 1 .. Len(q) \/ l = Len(q) + 1
    BY <1>1
  <2>2. CASE v = s /\ \A l \in 1 .. Len(q) + 1 - 1 : ~ IsMark(q[l])
    BY <1>1, <1>4, <2>1, <2>2 DEF Governs
  <2>3. ASSUME NEW j \in 1 .. Len(q) + 1 - 1, IsMark(q[j]), v = SessionOf(q[j]),
               \A l \in j + 1 .. Len(q) + 1 - 1 : ~ IsMark(q[l])
        PROVE  Governs(r, s, Len(q) + 2, v)
    <3>1. \A l \in j + 1 .. Len(q) + 2 - 1 : ~ IsMark(r[l])
      BY <1>1, <1>4, <2>1, <2>3
    <3>2. j \in 1 .. Len(q) + 2 - 1 /\ r[j] = q[j]
      BY <1>1
    <3>3. QED
      BY <2>3, <3>1, <3>2 DEF Governs
  <2>4. QED
    BY <1>4, <2>2, <2>3 DEF Governs
<1>5. QED
  BY <1>2, <1>3, <1>4 DEF r

\* Reading the first packet moves the device to its session, if it is a mark.
LEMMA GovernsTail ==
    ASSUME NEW q \in Seq(ToClient), q # <<>>, NEW s, NEW v,
           NEW i \in 1 .. Len(q), Governs(q, s, i + 1, v)
    PROVE  Governs(Tail(q), IF IsMark(Head(q)) THEN SessionOf(Head(q)) ELSE s, i, v)
<1> DEFINE r == Tail(q)
           e == IF IsMark(Head(q)) THEN SessionOf(Head(q)) ELSE s
<1>1. /\ Len(q) \in Nat /\ Head(q) = q[1]
      /\ \A l \in 1 .. Len(q) - 1 : r[l] = q[l + 1]
  OBVIOUS
<1>2. /\ IsMark(q[1]) => e = SessionOf(q[1])
      /\ ~ IsMark(q[1]) => e = s
  BY <1>1
<1> HIDE DEF r, e
<1>3. \A l \in 1 .. i - 1 : r[l] = q[l + 1] /\ l + 1 \in 1 .. i
  BY <1>1
<1>4. CASE v = s /\ \A l \in 1 .. i + 1 - 1 : ~ IsMark(q[l])
  BY <1>2, <1>3, <1>4 DEF Governs
<1>5. ASSUME NEW j \in 1 .. i + 1 - 1, IsMark(q[j]), v = SessionOf(q[j]),
             \A l \in j + 1 .. i + 1 - 1 : ~ IsMark(q[l])
      PROVE  Governs(r, e, i, v)
  <2>1. CASE j = 1
    <3>1. \A l \in 1 .. i - 1 : ~ IsMark(r[l])
      BY <1>3, <1>5, <2>1
    <3>2. QED
      BY <1>2, <1>5, <2>1, <3>1 DEF Governs
  <2>2. CASE j # 1
    <3>1. j - 1 \in 1 .. i - 1 /\ r[j - 1] = q[j]
      BY <1>3, <2>2
    <3>2. \A l \in (j - 1) + 1 .. i - 1 : ~ IsMark(r[l])
      BY <1>3, <1>5, <2>2
    <3>3. QED
      BY <1>5, <3>1, <3>2 DEF Governs
  <2>3. QED
    BY <2>1, <2>2
<1>6. QED
  BY <1>4, <1>5 DEF Governs, r, e

----------------------------------------------------------------------------
\* The invariant.  The packets sent to a device end in the session of the window
\* that controls it, so that what the server forwards next belongs there; a
\* device whose socket is open has not left, and whoever has not connected is
\* unknown to the server.

InputsGoverned(d) ==
    \A i \in 1 .. Len(s2c[d]) :
        s2c[d][i].cmd = "INPUT" => Governs(s2c[d], session[d], i, s2c[d][i].by)

HolderGoverns(d) ==
    \A c \in Controllers :
        link[d] = "up" /\ Controls(c, d)
            => Governs(s2c[d], session[d], Len(s2c[d]) + 1, c)

QueuesGoverned == \A d \in Devices : InputsGoverned(d) /\ HolderGoverns(d)

LinksFollow ==
    /\ \A d \in Devices : state[d] = "CLOSE" => link[d] = "down"
    /\ \A x \in Conns : link[x] = "new" => state[x] = "NONE"

InputInv == RightInv /\ QueuesGoverned /\ LinksFollow

\* It holds before anyone has connected.
\* It holds before anyone has connected.
LEMMA InitInputInv == Init => InputInv
<1> SUFFICES ASSUME Init PROVE QueuesGoverned /\ LinksFollow
  BY InitRightInv DEF InputInv
<1>1. LinksFollow
  BY DEF Init, NetInit, ServerInit, LinksFollow, Conns
<1>2. QueuesGoverned
  BY DEF Init, NetInit, QueuesGoverned, InputsGoverned, HolderGoverns, Conns
<1>3. QED
  BY <1>1, <1>2

----------------------------------------------------------------------------
\* What a server step may do to a device d with an open socket: it leaves d's
\* packets alone and gives nobody the control of d, or it sends d one packet, of
\* the window that controls d if it is a user's input; and the windows that
\* control d after the step did before, unless the packet is a mark, which then
\* names the only window that may.

LeftAlone(d) ==
    /\ s2c'[d] = s2c[d]
    /\ \A c \in Controllers : Controls(c, d)' => Controls(c, d)

SentTo(d, m) ==
    /\ s2c'[d] = Append(s2c[d], m)
    /\ m.cmd = "INPUT" => m.by \in Controllers /\ Controls(m.by, d)
    /\ \A c \in Controllers :
          Controls(c, d)' => IF IsMark(m) THEN c = SessionOf(m) ELSE Controls(c, d)

\* A packet added behind a device's queue governs nothing that is in it.
\* A packet added behind a device's queue governs nothing that is in it.
LEMMA StepKeepsQueue ==
    ASSUME InputInv, NEW d \in Devices, session' = session,
           link'[d] = "up", link[d] = "up",
           LeftAlone(d) \/ \E m \in ToClient : SentTo(d, m)
    PROVE  InputsGoverned(d)' /\ HolderGoverns(d)'
<1>1. s2c[d] \in Seq(ToClient) /\ InputsGoverned(d) /\ HolderGoverns(d)
  BY DEF InputInv, QueuesGoverned, RightInv, ControlInv, TypeInv, TypeOK, NetTypeOK, Conns
<1>2. CASE LeftAlone(d)
  BY <1>1, <1>2 DEF LeftAlone, InputsGoverned, HolderGoverns
<1>3. ASSUME NEW m \in ToClient, SentTo(d, m)
      PROVE  InputsGoverned(d)' /\ HolderGoverns(d)'
  <2> DEFINE q == s2c[d]
             r == Append(q, m)
  <2>1. /\ Len(q) \in Nat /\ Len(r) = Len(q) + 1
        /\ \A l \in 1 .. Len(q) : r[l] = q[l]
        /\ r[Len(q) + 1] = m
    BY <1>1
  <2>2. s2c'[d] = r
    BY <1>3 DEF SentTo
  <2>3. \A v :
          /\ \A i \in 1 .. Len(q) + 1 :
                Governs(q, session[d], i, v) => Governs(r, session[d], i, v)
          /\ IF IsMark(m) THEN Governs(r, session[d], Len(q) + 2, SessionOf(m))
             ELSE Governs(q, session[d], Len(q) + 1, v)
                     => Governs(r, session[d], Len(q) + 2, v)
    BY <1>1, GovernsAppend
  <2>4. \A c \in Controllers : Controls(c, d) => Governs(q, session[d], Len(q) + 1, c)
    BY <1>1 DEF HolderGoverns
  <2>5. \A i \in 1 .. Len(q) :
           q[i].cmd = "INPUT" => Governs(q, session[d], i, q[i].by)
    BY <1>1 DEF InputsGoverned
  <2> HIDE DEF q, r
  <2>6. ASSUME NEW i \in 1 .. Len(r), r[i].cmd = "INPUT"
        PROVE  Governs(r, session[d], i, r[i].by)
    <3>1. CASE i \in 1 .. Len(q)
      BY <2>1, <2>3, <2>5, <2>6, <3>1
    <3>2. CASE i = Len(q) + 1
      BY <1>3, <2>1, <2>3, <2>4, <2>6, <3>2 DEF SentTo
    <3>3. QED
      BY <2>1, <3>1, <3>2
  <2>7. ASSUME NEW c \in Controllers, Controls(c, d)'
        PROVE  Governs(r, session[d], Len(r) + 1, c)
    <3>1. Len(r) + 1 = Len(q) + 2
      BY <2>1
    <3>2. CASE IsMark(m)
      BY <1>3, <2>3, <2>7, <3>1, <3>2 DEF SentTo
    <3>3. CASE ~ IsMark(m)
      BY <1>3, <2>3, <2>4, <2>7, <3>1, <3>3 DEF SentTo
    <3>4. QED
      BY <3>2, <3>3
  <2>8. InputsGoverned(d)'
    BY <2>2, <2>6 DEF InputsGoverned
  <2>9. HolderGoverns(d)'
    BY <2>2, <2>7 DEF HolderGoverns
  <2>10. QED
    BY <2>8, <2>9
<1>4. QED
  BY <1>2, <1>3

\* Sending nothing, or one packet.
LEMMA ServerSendsTo ==
    ASSUME RightInv, NEW out, ServerSends(out), NEW d \in Conns, link[d] = "up"
    PROVE  /\ out[d] = <<>> => s2c'[d] = s2c[d]
           /\ \A m \in ToClient : out[d] = <<m>> => s2c'[d] = Append(s2c[d], m)
<1>1. s2c[d] \in Seq(ToClient) /\ s2c'[d] = s2c[d] \o out[d]
  BY DEF ServerSends, RightInv, ControlInv, TypeInv, TypeOK, NetTypeOK
<1>2. s2c[d] \o <<>> = s2c[d]
  BY <1>1
<1>3. \A m \in ToClient : s2c[d] \o <<m>> = Append(s2c[d], m)
  BY <1>1
<1>4. QED
  BY <1>1, <1>2, <1>3

----------------------------------------------------------------------------
\* What each handler sends a device.

Delivers(d) == LeftAlone(d) \/ \E m \in ToClient : SentTo(d, m)

\* A packet that is neither a mark nor an input, in a step that gives nobody
\* control.
LEMMA PlainPacket ==
    ASSUME NEW d \in Devices, NEW m \in ToClient, s2c'[d] = Append(s2c[d], m),
           ~ IsMark(m), m.cmd # "INPUT",
           \A c \in Controllers : Controls(c, d)' => Controls(c, d)
    PROVE  Delivers(d)
BY DEF Delivers, SentTo

LEMMA JoinDelivers ==
    ASSUME InputInv, NEW x \in Conns, JoinAccepted(x) \/ JoinRejected(x),
           NEW d \in Devices, link[d] = "up"
    PROVE  Delivers(d)
<1>1. \A c \in Controllers : Controls(c, d)' => Controls(c, d)
  <2>1. CASE JoinAccepted(x)
    <3>1. /\ state[x] = "NONE" /\ state' = [state EXCEPT ![x] = "IDLE"]
          /\ conn_' = conn_ /\ state \in [Conns -> RoleState]
      BY <2>1 DEF JoinAccepted, InputInv, RightInv, ControlInv, TypeInv, TypeOK, ServerTypeOK
    <3>2. QED
      BY <3>1 DEF Controls, Conns
  <2>2. CASE JoinRejected(x)
    BY <2>2 DEF JoinRejected, serverVars, Controls
  <2>3. QED
    BY <2>1, <2>2
<1>2. PICK m \in {JoinReply_body("SUCCESSFUL"), JoinReply_body("ERROR")} :
         ServerSends(Reply(x, m))
  BY DEF JoinAccepted, JoinRejected
<1>3. m \in ToClient /\ ~ IsMark(m) /\ m.cmd # "INPUT"
  BY DEF JoinReply_body, ToClient, Results, IsMark
<1>4. d \in Conns
  BY DEF Conns
<1>5. Reply(x, m)[d] = IF d = x THEN <<m>> ELSE <<>>
  BY <1>4 DEF Reply, Nothing
<1>6. CASE d = x
  BY <1>1, <1>2, <1>3, <1>4, <1>5, <1>6, ServerSendsTo, PlainPacket DEF InputInv
<1>7. CASE d # x
  BY <1>1, <1>2, <1>3, <1>4, <1>5, <1>7, ServerSendsTo DEF InputInv, Delivers, LeftAlone
<1>8. QED
  BY <1>6, <1>7

\* The CREATESTREAM of a grant is the mark of the new holder.
LEMMA GrantDelivers ==
    ASSUME InputInv, NEW x \in Conns, ObtainGranted(x),
           NEW d \in Devices, link[d] = "up"
    PROVE  Delivers(d)
<1> DEFINE t == registry[Head(c2s[x]).id]
           o == [Nothing EXCEPT ![t] = <<CreateStream_body(x)>>,
                                ![x] = <<ObtainStreamReply_body("SUCCESSFUL")>>]
<1>1. Given(x, t) /\ t \in Conns /\ x # t /\ x # d /\ d \in Conns
  BY GrantGives, GrantRoles, ConnsAssumption DEF InputInv, Conns
<1>2. ServerSends(o)
  BY DEF ObtainGranted
<1>3. o[d] = IF d = t THEN <<CreateStream_body(x)>> ELSE <<>>
  BY <1>1 DEF Nothing
<1> HIDE DEF t, o
<1>4. CreateStream_body(x) \in ToClient
  BY DEF CreateStream_body, ToClient
<1>5. CASE d = t
  <2>1. s2c'[d] = Append(s2c[d], CreateStream_body(x))
    BY <1>1, <1>2, <1>3, <1>4, <1>5, ServerSendsTo DEF InputInv
  <2>2. /\ IsMark(CreateStream_body(x)) /\ SessionOf(CreateStream_body(x)) = x
        /\ CreateStream_body(x).cmd # "INPUT"
    BY DEF IsMark, SessionOf, CreateStream_body
  <2>3. \A c \in Controllers : Controls(c, d)' => c = x
    BY <1>1, <1>5 DEF Given
  <2>4. SentTo(d, CreateStream_body(x))
    BY <2>1, <2>2, <2>3 DEF SentTo
  <2>5. QED
    BY <1>4, <2>4 DEF Delivers
<1>6. CASE d # t
  <2>1. s2c'[d] = s2c[d]
    BY <1>1, <1>2, <1>3, <1>6, ServerSendsTo DEF InputInv
  <2>2. QED
    BY <1>1, <1>6, <2>1 DEF Given, Delivers, LeftAlone
<1>7. QED
  BY <1>5, <1>6

\* A refusal goes to the window that asked.
LEMMA RefusalDelivers ==
    ASSUME InputInv, NEW x \in Conns, ObtainRejected(x),
           NEW d \in Devices, link[d] = "up"
    PROVE  Delivers(d)
<1> DEFINE m == ObtainStreamReply_body("ERROR")
<1>1. ServerSends(Reply(x, m)) /\ UNCHANGED serverVars
  BY DEF ObtainRejected
<1>2. m \in ToClient /\ ~ IsMark(m) /\ m.cmd # "INPUT"
  BY DEF ObtainStreamReply_body, ToClient, Results, IsMark
<1>3. d \in Conns /\ Reply(x, m)[d] = IF d = x THEN <<m>> ELSE <<>>
  BY DEF Reply, Nothing, Conns
<1>4. \A c \in Controllers : Controls(c, d)' => Controls(c, d)
  BY <1>1 DEF serverVars, Controls
<1> HIDE DEF m
<1>5. CASE d = x
  BY <1>1, <1>2, <1>3, <1>4, <1>5, ServerSendsTo, PlainPacket DEF InputInv
<1>6. CASE d # x
  BY <1>1, <1>3, <1>4, <1>6, ServerSendsTo DEF InputInv, Delivers, LeftAlone
<1>7. QED
  BY <1>5, <1>6

\* A device's answer is passed on as PLAYSTREAM.
LEMMA AnswerDelivers ==
    ASSUME InputInv, NEW x \in Conns, StreamCreated(x) \/ StreamFailed(x),
           NEW d \in Devices, link[d] = "up"
    PROVE  Delivers(d)
<1>1. \A c \in Controllers : Controls(c, d)' => Controls(c, d)
  BY AnswerTakes DEF InputInv, Taken
<1>2. d \in Conns /\ Head(c2s[x]).cmd = "CREATESTREAM" /\ Head(c2s[x]) \in ToServer
  BY ServerReadsType
  DEF StreamCreated, StreamFailed, InputInv, RightInv, ControlInv, TypeInv, TypeOK, Conns
<1>3. PICK out : /\ ServerSends(out)
                 /\ \/ out[d] = <<>>
                    \/ \E r \in Results, a \in Address : out[d] = <<PlayStream_body(r, a)>>
  <2>1. Head(c2s[x]).streamAddres \in Address
    BY <1>2 DEF ToServer
  <2>2. NoAddress \in Address /\ "SUCCESSFUL" \in Results /\ "ERROR" \in Results
    BY DEF NoAddress, Address, Results
  <2>3. CASE StreamFailed(x)
    BY <1>2, <2>2, <2>3 DEF StreamFailed
  <2>4. CASE StreamCreated(x)
    BY <1>2, <2>1, <2>2, <2>4 DEF StreamCreated
  <2>5. QED
    BY <2>3, <2>4
<1>4. CASE out[d] = <<>>
  BY <1>1, <1>2, <1>3, <1>4, ServerSendsTo DEF InputInv, Delivers, LeftAlone
<1>5. ASSUME NEW r \in Results, NEW a \in Address, out[d] = <<PlayStream_body(r, a)>>
      PROVE  Delivers(d)
  <2>1. /\ PlayStream_body(r, a) \in ToClient /\ ~ IsMark(PlayStream_body(r, a))
        /\ PlayStream_body(r, a).cmd # "INPUT"
    BY DEF PlayStream_body, ToClient, IsMark
  <2>2. s2c'[d] = Append(s2c[d], PlayStream_body(r, a))
    BY <1>2, <1>3, <1>5, <2>1, ServerSendsTo DEF InputInv
  <2>3. QED
    BY <1>1, <2>1, <2>2, PlainPacket
<1>6. QED
  BY <1>3, <1>4, <1>5

\* An input is forwarded to the device its window controls: a target whose
\* socket is open has not left.
LEMMA InputDelivers ==
    ASSUME InputInv, NEW x \in Conns, HandleOtherMessage(x),
           NEW d \in Devices, link[d] = "up"
    PROVE  Delivers(d)
<1>1. UNCHANGED serverVars /\ d \in Conns
  BY DEF HandleOtherMessage, Conns
<1>2. \A c \in Controllers : Controls(c, d)' => Controls(c, d)
  BY <1>1 DEF serverVars, Controls
<1>3. CASE Forwards(x) /\ conn_[x] = d
  <2> DEFINE m == ForwardedInput(x)
  <2>1. x \in Controllers /\ Controls(x, d)
    BY <1>3 DEF Forwards, Controls, InputInv, RightInv, ServerKeepsRoles, LinksFollow, Conns
  <2>2. m \in ToClient /\ m.cmd = "INPUT" /\ m.by = x /\ ~ IsMark(m)
    BY DEF ForwardedInput, ToClient, IsMark
  <2>3. ServerSends(Reply(d, m)) /\ Reply(d, m)[d] = <<m>>
    BY <1>1, <1>3 DEF HandleOtherMessage, Reply, Nothing
  <2> HIDE DEF m
  <2>4. s2c'[d] = Append(s2c[d], m)
    BY <1>1, <2>2, <2>3, ServerSendsTo DEF InputInv
  <2>5. QED
    BY <1>2, <2>1, <2>2, <2>4 DEF Delivers, SentTo
<1>4. CASE ~ (Forwards(x) /\ conn_[x] = d)
  <2>1. PICK out : ServerSends(out) /\ out[d] = <<>>
    <3>1. Nothing[d] = <<>>
      BY <1>1 DEF Nothing
    <3>2. conn_[x] # d => Reply(conn_[x], ForwardedInput(x))[d] = <<>>
      BY <1>1 DEF Nothing, Reply
    <3>3. QED
      BY <1>4, <3>1, <3>2 DEF HandleOtherMessage
  <2>2. QED
    BY <1>1, <1>2, <2>1, ServerSendsTo DEF InputInv, Delivers, LeftAlone
<1>5. QED
  BY <1>3, <1>4

\* A device is told to stop only when it has no peer left, and then no window
\* controls it.
LEMMA ClearDelivers ==
    ASSUME InputInv, RightInv', NEW x \in Conns, Clear(x),
           NEW d \in Devices, link[d] = "up"
    PROVE  Delivers(d)
<1>1. \A c \in Controllers : Controls(c, d)' => Controls(c, d)
  BY ClearTakes DEF InputInv, Taken
<1>2. d \in Conns
  BY DEF Conns
<1>3. CASE state[x] = "CLOSE"
  BY <1>1, <1>3 DEF Clear, Delivers, LeftAlone
<1>4. CASE state[x] # "CLOSE" /\ d \notin QueryConn(objectes[x])
  <2>1. PICK out : ServerSends(out) /\ out[d] = <<>>
    BY <1>2, <1>4 DEF Clear
  <2>2. QED
    BY <1>1, <1>2, <2>1, ServerSendsTo DEF InputInv, Delivers, LeftAlone
<1>5. CASE state[x] # "CLOSE" /\ d \in QueryConn(objectes[x])
  <2> DEFINE n == StreamCount(d, code[x])
             m == DeleteStream_body(n)
  <2>1. PICK out : ServerSends(out) /\ out[d] = <<m>>
    BY <1>2, <1>5 DEF Clear
  <2>2. IsFiniteSet(RmoveCustom(d, code[x]))
    <3>1. RmoveCustom(d, code[x]) \subseteq Codes
      BY <1>2 DEF RmoveCustom, InputInv, RightInv, ControlInv, TypeInv, TypeOK, ServerTypeOK
    <3>2. QED
      BY <3>1, ConnsAssumption, FS_Subset
  <2>3. n \in Nat /\ (n = 0 => RmoveCustom(d, code[x]) = {})
    BY <2>2, FS_CardinalityType, FS_EmptySet DEF StreamCount
  <2>4. n = 0 => \A c \in Controllers : ~ Controls(c, d)'
    <3>1. CASE d = x
      <4>1. state'[d] = "CLOSE"
        BY <1>2, <1>5, <3>1 DEF Clear
      <4>2. QED
        BY <4>1 DEF Controls
    <3>2. CASE d # x
      <4>1. objectes'[d] = RmoveCustom(d, code[x])
        BY <1>2, <1>5, <3>2 DEF Clear
      <4>2. \A c \in Controllers : Controls(c, d)' => code'[c] \in objectes'[d]
        BY <1>2 DEF RightInv, ControlInv, ControlIsMutual, Conns
      <4>3. QED
        BY <2>3, <4>1, <4>2
    <3>3. QED
      BY <3>1, <3>2
  <2>5. /\ m \in ToClient /\ m.cmd # "INPUT" /\ (IsMark(m) <=> n = 0)
    BY <2>3 DEF DeleteStream_body, ToClient, IsMark
  <2> HIDE DEF n, m
  <2>6. s2c'[d] = Append(s2c[d], m)
    BY <1>2, <2>1, <2>5, ServerSendsTo DEF InputInv
  <2>7. QED
    BY <1>1, <2>4, <2>5, <2>6 DEF Delivers, SentTo
<1>6. QED
  BY <1>3, <1>4, <1>5

LEMMA ServerDelivers ==
    ASSUME InputInv, RightInv', NEW x \in Conns, ServerHandles(x),
           NEW d \in Devices, link[d] = "up"
    PROVE  Delivers(d)
<1>1. CASE HandleDeleteStream(x) /\ ~ IsBusy(x)
  BY <1>1 DEF HandleDeleteStream, serverVars, Controls, Delivers, LeftAlone
<1>2. QED
  BY <1>1, JoinDelivers, GrantDelivers, RefusalDelivers, AnswerDelivers, InputDelivers,
     ClearDelivers
  DEF ServerHandles, HandleDeleteStream, DisConnected

----------------------------------------------------------------------------
\* The invariant is inductive.

\* Only devices and windows that joined change their state besides the one whose
\* packet or hang-up is handled; a device leaves by its hang-up only.
LEMMA ServerLinks ==
    ASSUME InputInv, NEW x \in Conns, ServerHandles(x)
    PROVE  LinksFollow'
<1> USE DEF InputInv, RightInv, ControlInv, TypeInv, TypeOK
<1>1. /\ link \in [Conns -> {"new", "up", "half", "down"}]
      /\ state \in [Conns -> RoleState]
  BY DEF NetTypeOK, ServerTypeOK
<1>2. /\ \A y \in Conns \ {x} : state'[y] = "CLOSE" => state[y] = "CLOSE"
      /\ \A y \in Conns \ {x} : state[y] = "NONE" => state'[y] = "NONE"
  <2>1. \A y \in QueryConn(objectes[x]) : state[y] # "NONE"
    BY DEF QueryConn, RegistryConsistent, Joined, ServerTypeOK
  <2>2. CASE Clear(x)
    BY <2>1, <2>2 DEF Clear, serverVars
  <2>3. CASE StreamFailed(x)
    BY <2>1, <2>3 DEF StreamFailed
  <2>4. CASE ~ Clear(x) /\ ~ StreamFailed(x)
    <3>1. state' = state \/ \E r \in {"IDLE", "PULLER", "PUSHER", state[x]} :
                                  state' = [state EXCEPT ![x] = r]
      BY <2>4 DEF ServerHandles, JoinAccepted, JoinRejected, ObtainGranted,
          ObtainRejected, StreamCreated, HandleOtherMessage, HandleDeleteStream,
          DisConnected, serverVars
    <3>2. QED
      BY <1>1, <3>1
  <2>5. QED
    BY <2>2, <2>3, <2>4
<1>3. CASE DisConnected(x)
  <2>1. link' = [link EXCEPT ![x] = "down"]
    BY <1>3 DEF DisConnected
  <2>2. QED
    BY <1>1, <1>2, <2>1 DEF LinksFollow, Conns
<1>4. CASE ~ DisConnected(x)
  <2>1. PICK cmd \in {"JOIN", "OBTAINSTREAM", "CREATESTREAM", "INPUT", "DELETESTREAM"} :
           /\ ServerReads(x, cmd)
           /\ state'[x] = "CLOSE" /\ state[x] # "CLOSE" => cmd = "DELETESTREAM"
    <3>1. CASE HandleDeleteStream(x)
      BY <3>1 DEF HandleDeleteStream
    <3>2. CASE StreamFailed(x)
      BY <3>2 DEF StreamFailed
    <3>3. CASE ~ HandleDeleteStream(x) /\ ~ StreamFailed(x)
      <4>1. /\ state' = state \/ \E r \in {"IDLE", "PULLER", "PUSHER", state[x]} :
                                    state' = [state EXCEPT ![x] = r]
            /\ \E cmd \in {"JOIN", "OBTAINSTREAM", "CREATESTREAM", "INPUT"} :
                  ServerReads(x, cmd)
        BY <1>4, <3>3 DEF ServerHandles, JoinAccepted, JoinRejected, ObtainGranted,
           ObtainRejected, StreamCreated, HandleOtherMessage, serverVars
      <4>2. QED
        BY <1>1, <4>1
    <3>4. QED
      BY <3>1, <3>2, <3>3
  <2>2. link' = link /\ link[x] # "new"
    BY <2>1 DEF ServerReads
  <2>3. x \in Devices => cmd # "DELETESTREAM"
    BY <2>1, ServerReadsRoles DEF FromDevice
  <2>4. QED
    BY <1>2, <2>1, <2>2, <2>3 DEF LinksFollow, Conns
<1>5. QED
  BY <1>3, <1>4

\* The server's handlers keep the invariant,
\* The server's handlers keep the invariant,
LEMMA ServerInputInv ==
    ASSUME InputInv, RightInv', NEW x \in Conns, ServerHandles(x), UNCHANGED clientVars
    PROVE  InputInv'
<1>1. session' = session
  BY DEF clientVars
<1>2. ASSUME NEW d \in Devices
      PROVE  InputsGoverned(d)' /\ HolderGoverns(d)'
  <2>1. /\ d \in Conns /\ InputsGoverned(d)
        /\ link' = link \/ link' = [link EXCEPT ![x] = "down"]
        /\ link \in [Conns -> {"new", "up", "half", "down"}]
    BY DEF InputInv, RightInv, ControlInv, TypeInv, TypeOK, NetTypeOK, QueuesGoverned,
       Conns, ServerHandles, JoinAccepted, JoinRejected, ObtainGranted, ObtainRejected,
       StreamCreated, StreamFailed, HandleOtherMessage, HandleDeleteStream,
       DisConnected, ServerReads
  <2>2. CASE link'[d] = "up"
    <3>1. link[d] = "up"
      BY <2>1, <2>2
    <3>2. QED
      BY <1>1, <2>2, <3>1, ServerDelivers, StepKeepsQueue DEF Delivers
  <2>3. CASE link'[d] # "up"
    <3>1. link[d] # "up" \/ (d = x /\ DisConnected(x))
      BY <2>1, <2>3 DEF ServerHandles, JoinAccepted, JoinRejected, ObtainGranted,
         ObtainRejected, StreamCreated, StreamFailed, HandleOtherMessage,
         HandleDeleteStream, ServerReads
    <3>2. link[d] # "up"
      BY <3>1 DEF DisConnected
    <3>3. s2c'[d] = s2c[d]
      <4>1. s2c' = s2c \/ \E out : ServerSends(out)
        BY DEF ServerHandles, JoinAccepted, JoinRejected, ObtainGranted,
           ObtainRejected, StreamCreated, StreamFailed, HandleOtherMessage,
           HandleDeleteStream, DisConnected, Clear
      <4>2. QED
        BY <2>1, <3>2, <4>1 DEF ServerSends
    <3>4. QED
      BY <1>1, <2>1, <2>3, <3>3 DEF InputsGoverned, HolderGoverns
  <2>4. QED
    BY <2>2, <2>3
<1>3. LinksFollow'
  BY ServerLinks
<1>4. QED
  BY <1>2, <1>3 DEF InputInv, QueuesGoverned

\* A device that reads: the session moves with the mark it takes off its queue.
LEMMA DeviceReadsQueue ==
    ASSUME InputInv, NEW d \in Devices, DeviceHandles(d), UNCHANGED serverVars
    PROVE  InputsGoverned(d)' /\ HolderGoverns(d)'
<1> DEFINE q == s2c[d]
           m == Head(q)
           e == IF IsMark(m) THEN SessionOf(m) ELSE session[d]
<1> USE DEF InputInv, RightInv, ControlInv, TypeInv, TypeOK
<1>1. /\ d \in Conns
      /\ \E cmd \in {"JOIN", "CREATESTREAM", "DELETESTREAM", "INPUT"} : ClientReads(d, cmd)
  BY DEF DeviceHandles, DeviceJoined, doCtreatStream, doDeleteStream, doInput, Conns
<1>2. /\ q \in Seq(ToClient) /\ q # <<>> /\ m \in ToClient
      /\ link'[d] = link[d]
      /\ s2c'[d] = Tail(q)
      /\ session \in [Devices -> Conns \cup {None}]
  BY <1>1 DEF ClientReads, NetTypeOK, ClientTypeOK
<1>3. session'[d] = e
  <2>1. CASE DeviceJoined(d)
    BY <2>1 DEF DeviceJoined, ClientReads, IsMark
  <2>2. CASE doCtreatStream(d)
    BY <1>2, <2>2 DEF doCtreatStream, ClientReads, IsMark, SessionOf
  <2>3. CASE doDeleteStream(d)
    BY <1>2, <2>3 DEF doDeleteStream, ClientReads, IsMark, SessionOf, LastStreamGone
  <2>4. CASE doInput(d)
    BY <2>4 DEF doInput, ClientReads, IsMark, clientVars
  <2>5. QED
    BY <2>1, <2>2, <2>3, <2>4 DEF DeviceHandles
<1>4. \A c \in Controllers : Controls(c, d)' => Controls(c, d)
  BY DEF serverVars, Controls
<1>5. InputsGoverned(d) /\ HolderGoverns(d)
  BY DEF QueuesGoverned
<1>6. /\ Len(q) \in Nat \ {0} /\ Len(Tail(q)) = Len(q) - 1
      /\ \A i \in 1 .. Len(Tail(q)) : Tail(q)[i] = q[i + 1]
  BY <1>2
<1>7. \A v : \A i \in 1 .. Len(q) :
         Governs(q, session[d], i + 1, v) => Governs(Tail(q), e, i, v)
  BY <1>2, GovernsTail
<1>8. \A i \in 1 .. Len(q) :
         q[i].cmd = "INPUT" => Governs(q, session[d], i, q[i].by)
  BY <1>5 DEF InputsGoverned
<1>9. \A c \in Controllers :
         link[d] = "up" /\ Controls(c, d) => Governs(q, session[d], Len(q) + 1, c)
  BY <1>5 DEF HolderGoverns
<1> HIDE DEF q, m, e
<1>10. ASSUME NEW i \in 1 .. Len(Tail(q)), Tail(q)[i].cmd = "INPUT"
       PROVE  Governs(Tail(q), e, i, Tail(q)[i].by)
  <2>1. i \in 1 .. Len(q) /\ i + 1 \in 1 .. Len(q) /\ Tail(q)[i] = q[i + 1]
    BY <1>6
  <2>2. QED
    BY <1>7, <1>8, <1>10, <2>1
<1>11. ASSUME NEW c \in Controllers, link'[d] = "up", Controls(c, d)'
       PROVE  Governs(Tail(q), e, Len(Tail(q)) + 1, c)
  <2>1. Len(q) \in 1 .. Len(q) /\ Len(Tail(q)) + 1 = Len(q)
    BY <1>6
  <2>2. Governs(q, session[d], Len(q) + 1, c)
    BY <1>2, <1>4, <1>9, <1>11
  <2>3. QED
    BY <1>7, <2>1, <2>2
<1>12. InputsGoverned(d)'
  BY <1>2, <1>3, <1>10 DEF InputsGoverned
<1>13. HolderGoverns(d)'
  BY <1>2, <1>3, <1>11 DEF HolderGoverns
<1>14. QED
  BY <1>12, <1>13

\* Connecting: nobody controls a device the server does not know yet.  Leaving:
\* what is unread is gone.
LEMMA DeviceConnectsQueue ==
    ASSUME InputInv, NEW d \in Devices, DeviceConnects(d) \/ DeviceLeaves(d),
           UNCHANGED serverVars
    PROVE  InputsGoverned(d)' /\ HolderGoverns(d)'
<1> USE DEF InputInv, RightInv, ControlInv, TypeInv, TypeOK
<1>1. d \in Conns /\ InputsGoverned(d)
  BY DEF QueuesGoverned, Conns
<1>2. CASE DeviceConnects(d)
  <2>1. link[d] = "new" /\ s2c' = s2c /\ session' = session
    BY <1>2 DEF DeviceConnects, Connects, clientVars
  <2>2. \A c \in Controllers : ~ Controls(c, d)
    <3>1. objectes[d] = {}
      BY <1>1, <2>1 DEF LinksFollow, CodesAssigned, Joined
    <3>2. QED
      BY <1>1, <3>1 DEF ControlIsMutual, Conns
  <2>3. \A c \in Controllers : ~ Controls(c, d)'
    BY <2>2 DEF Controls, serverVars
  <2>4. QED
    BY <1>1, <2>1, <2>3 DEF InputsGoverned, HolderGoverns
<1>3. CASE DeviceLeaves(d)
  <2>1. link'[d] = "half" /\ s2c'[d] = <<>>
    BY <1>1, <1>3 DEF DeviceLeaves, ClientCloses, NetTypeOK
  <2>2. QED
    BY <2>1 DEF InputsGoverned, HolderGoverns
<1>4. QED
  BY <1>2, <1>3

\* A client's step leaves the queues of the devices other than x alone.
LEMMA OtherQueues ==
    ASSUME InputInv, UNCHANGED serverVars, NEW d \in Devices,
           s2c'[d] = s2c[d], session'[d] = session[d], link'[d] = link[d]
    PROVE  InputsGoverned(d)' /\ HolderGoverns(d)'
BY DEF InputInv, QueuesGoverned, InputsGoverned, HolderGoverns, Controls, serverVars

\* a device's, which read the head of its queue,
\* a device's, which read the head of its queue,
LEMMA DeviceInputInv ==
    ASSUME InputInv, NEW d \in Devices, UNCHANGED serverVars,
           DeviceConnects(d) \/ DeviceHandles(d) \/ DeviceLeaves(d)
    PROVE  QueuesGoverned' /\ LinksFollow'
<1> USE DEF InputInv, RightInv, ControlInv, TypeInv, TypeOK
<1>1. /\ d \in Conns
      /\ link \in [Conns -> {"new", "up", "half", "down"}]
      /\ s2c \in [Conns -> Seq(ToClient)]
      /\ session \in [Devices -> Conns \cup {None}]
  BY DEF NetTypeOK, ClientTypeOK, Conns
<1>2. \/ link' = link
      \/ \E u \in {"up", "half"} : link[d] \in {"new", "up"} /\ link' = [link EXCEPT ![d] = u]
  BY DEF DeviceConnects, Connects, DeviceHandles, DeviceJoined, doCtreatStream,
     doDeleteStream, doInput, DeviceLeaves, ClientCloses, ClientReads
<1>3. s2c' = s2c \/ \E q : s2c' = [s2c EXCEPT ![d] = q]
  BY DEF DeviceConnects, Connects, DeviceHandles, DeviceJoined, doCtreatStream,
     doDeleteStream, doInput, DeviceLeaves, ClientCloses, ClientReads
<1>4. session' = session \/ \E u : session' = [session EXCEPT ![d] = u]
  BY DEF DeviceConnects, DeviceHandles, DeviceJoined, doCtreatStream,
     doDeleteStream, doInput, DeviceLeaves, clientVars
<1>5. \A e \in Devices \ {d} :
         /\ s2c'[e] = s2c[e] /\ session'[e] = session[e] /\ link'[e] = link[e]
  BY <1>1, <1>2, <1>3, <1>4 DEF Conns
<1>6. InputsGoverned(d)' /\ HolderGoverns(d)'
  BY DeviceReadsQueue, DeviceConnectsQueue
<1>7. ASSUME NEW e \in Devices PROVE InputsGoverned(e)' /\ HolderGoverns(e)'
  BY <1>5, <1>6, OtherQueues
<1>8. LinksFollow'
  <2>1. state' = state
    BY DEF serverVars
  <2>2. \A x \in Conns : link'[x] = "new" => link[x] = "new"
    BY <1>1, <1>2
  <2>3. \A e \in Devices : link[e] = "down" => link'[e] = "down"
    BY <1>1, <1>2 DEF Conns
  <2>4. QED
    BY <2>1, <2>2, <2>3 DEF LinksFollow
<1>9. QED
  BY <1>7, <1>8 DEF QueuesGoverned

\* and a control window's.
\* and a control window's.
LEMMA ControllerInputInv ==
    ASSUME InputInv, NEW c \in Controllers, UNCHANGED serverVars,
           \/ StartRemote(c) \/ ControllerHandles(c) \/ StopRemote(c)
           \/ SendInput(c) \/ RequestDelete(c)
    PROVE  QueuesGoverned' /\ LinksFollow'
<1> USE DEF InputInv, RightInv, ControlInv, TypeInv, TypeOK
<1>1. /\ c \in Conns /\ c \notin Devices
      /\ link \in [Conns -> {"new", "up", "half", "down"}]
      /\ s2c \in [Conns -> Seq(ToClient)]
  BY ConnsAssumption DEF NetTypeOK, Conns
<1>2. \/ link' = link
      \/ \E u \in {"up", "half"} : link' = [link EXCEPT ![c] = u]
  BY DEF StartRemote, Connects, ControllerHandles, ControllerJoined,
     ControllerJoinRefused, doObtainStreamReply, doPlayStream, doDeleteStream,
     StopRemote, SendInput, RequestDelete, ClientCloses, ClientReads
<1>3. s2c' = s2c \/ \E q : s2c' = [s2c EXCEPT ![c] = q]
  BY DEF StartRemote, Connects, ControllerHandles, ControllerJoined,
     ControllerJoinRefused, doObtainStreamReply, doPlayStream, doDeleteStream,
     StopRemote, SendInput, RequestDelete, ClientCloses, ClientReads
<1>4. session' = session
  BY <1>1 DEF StartRemote, ControllerHandles, ControllerJoined,
     ControllerJoinRefused, doObtainStreamReply, doPlayStream, doDeleteStream,
     LastStreamGone, StopRemote, SendInput, RequestDelete, clientVars
<1>5. \A e \in Devices :
         s2c'[e] = s2c[e] /\ session'[e] = session[e] /\ link'[e] = link[e]
  BY <1>1, <1>2, <1>3, <1>4 DEF Conns
<1>6. ASSUME NEW e \in Devices PROVE InputsGoverned(e)' /\ HolderGoverns(e)'
  BY <1>5, OtherQueues
<1>7. LinksFollow'
  <2>1. state' = state
    BY DEF serverVars
  <2>2. \A x \in Conns : link'[x] = "new" => link[x] = "new"
    BY <1>1, <1>2
  <2>3. QED
    BY <1>5, <2>1, <2>2 DEF LinksFollow
<1>8. QED
  BY <1>6, <1>7 DEF QueuesGoverned

\* InputInv is inductive.
\* InputInv is inductive.
LEMMA NextInputInv == InputInv /\ [Next]_vars => InputInv'
<1> SUFFICES ASSUME InputInv, [Next]_vars PROVE InputInv'
  OBVIOUS
<1>1. RightInv'
  BY NextRightInv DEF InputInv
<1>2. CASE ServerStep
  BY <1>1, <1>2, ServerInputInv DEF ServerStep
<1>3. CASE DeviceStep
  BY <1>1, <1>3, DeviceInputInv DEF DeviceStep, InputInv
<1>4. CASE ControllerStep
  BY <1>1, <1>4, ControllerInputInv DEF ControllerStep, InputInv
<1>5. CASE UNCHANGED vars
  <2>1. UNCHANGED serverVars /\ s2c' = s2c /\ session' = session /\ link' = link
    BY <1>5 DEF vars, netVars, clientVars
  <2>2. QueuesGoverned'
    BY <2>1, OtherQueues DEF QueuesGoverned
  <2>3. LinksFollow'
    BY <2>1 DEF InputInv, LinksFollow, serverVars
  <2>4. QED
    BY <1>1, <2>2, <2>3 DEF InputInv
<1>6. QED
  BY <1>2, <1>3, <1>4, <1>5 DEF Next

LEMMA InputInvAlways == Spec => []InputInv
<1>1. QED
  BY InitInputInv, NextInputInv, PTL DEF Spec

\* Every input that waits for a device comes from the session the device will be
\* in when it reads it, however many windows, departures, refused streams and
\* late answers came before it.
THEOREM InputsNeverInterleave == Spec => []InputsBelong
<1>1. InputInv => InputsBelong
  <2> SUFFICES ASSUME InputInv, NEW d \in Devices, NEW i \in 1 .. Len(s2c[d]),
                      s2c[d][i].cmd = "INPUT"
               PROVE  s2c[d][i].by = SessionAt(d, i)
    BY DEF InputsBelong
  <2>1. Governs(s2c[d], session[d], i, s2c[d][i].by)
    BY DEF InputInv, QueuesGoverned, InputsGoverned
  <2>2. i \in Nat
    OBVIOUS
  <2>3. QED
    BY <2>1, <2>2, GovernsIsSessionAt
<1>2. QED
  BY <1>1, InputInvAlways, PTL
============================================================================
