------------------------------ MODULE LoginProofs ------------------------------
(* Proofs about LoginSystem, for any number of windows and accounts and any       *)
(* bounds: its types, and that an account is used by one window at a time.        *)
EXTENDS LoginSystem, SequenceTheorems, TLAPS

-------------------------------------------------------------------------------
(* The inductive invariant.  Of TypeOK and the two session invariants alone no     *)
(* step is known to keep them: a login by an old packet uses the credentials in    *)
(* the connection's memory, and only what the channels hold says whose they are.   *)

Requests == [packet : {"Login_Info"}, of : {None}] \union [packet : {"UserLogin"}, of : Credentials]

Replies == {ErrorReply} \union [packet : {"LoginReply"}, server : {"login", "nowhere"}]
           \union [packet : {"LoginResult"}, result : Results, code : Accounts \union {None}]

Connections == [open : BOOLEAN, inbox : Seq(Requests), memory : Credentials,
                code : Accounts \union {None}, logged : BOOLEAN]

ServersTyped ==
    /\ monitorInfos \subseteq {"live", "dangling"} /\ linked \in BOOLEAN /\ lbUp \in BOOLEAN
    /\ "live" \in monitorInfos => lbUp
    /\ online \subseteq Accounts

LinksTyped ==
    /\ peer \in [Clients -> {"loadBance", "login"}] /\ up \in [Clients -> BOOLEAN]
    /\ requests \in [Clients -> Seq(Requests)]
    /\ replies \in [Clients -> Seq(Replies)]

WindowsTyped ==
    /\ page \in [Clients -> {"off", "on", "quit"}] /\ typed \in [Clients -> Credentials]
    /\ isLogin \in [Clients -> BOOLEAN]

Typed == ServersTyped /\ LinksTyped /\ WindowsTyped /\ conn \in [Clients -> Connections]

\* A connection of LoginServer belongs to a window that knows it logs in, or has gone;
\* nothing else than results comes back on it.
Matched(c) ==
    /\ conn[c].open => peer[c] = "login" /\ (isLogin[c] \/ page[c] = "quit")
    /\ isLogin[c] => peer[c] = "login"
    /\ isLogin[c] => \A i \in DOMAIN replies[c] : replies[c][i].packet = "LoginResult"

\* The UserLogin is the first packet of its connection, and who is logged in is the one
\* whose credentials are in the connection's memory: an old packet can only repeat them.
Remembered(c) ==
    /\ conn[c].logged => conn[c].open /\ conn[c].code \in Accounts /\ conn[c].memory = conn[c].code
    /\ conn[c].open =>
        /\ \A i \in DOMAIN conn[c].inbox : conn[c].inbox[i].packet # "UserLogin"
        /\ \A i \in DOMAIN requests[c] : requests[c][i].packet = "UserLogin" =>
              i = 1 /\ conn[c].inbox = <<>> /\ ~conn[c].logged

Linked == \A c \in Clients : Matched(c) /\ Remembered(c)

Sessions == FlagFollowsSession /\ OneSession

IInv == Typed /\ Linked /\ Sessions

\* The invariant implies the three that the runs check.
LEMMA InvTypeOK == IInv => TypeOK
<1> SUFFICES ASSUME IInv PROVE TypeOK
  OBVIOUS
<1> USE DEF IInv, Typed, Linked
<1>1. ASSUME NEW c \in Clients, NEW i \in DOMAIN replies[c], isLogin[c]
      PROVE  replies[c][i].result \in Results
  <2>1. replies[c][i] \in Replies /\ replies[c][i].packet = "LoginResult"
    BY <1>1 DEF LinksTyped, Matched
  <2>2. QED
    BY <2>1 DEF Replies, ErrorReply
<1>2. QED
  BY <1>1 DEF TypeOK, ServersTyped, WindowsTyped, Remembered

-------------------------------------------------------------------------------
(* Lemmas: sequences, and steps that leave a part of the state alone.              *)

\* A number that is at most another is it, or is less by one at least.
LEMMA NotMore ==
    ASSUME NEW n \in Nat, NEW l \in Nat, n <= l
    PROVE  n + 1 <= l \/ n = l
OBVIOUS

\* What is left of a sequence when its first n elements are taken.
LEMMA RestOfSequence ==
    ASSUME NEW S, NEW s \in Seq(S), NEW n \in 1 .. Len(s)
    PROVE  /\ Rest(s, n) \in Seq(S) /\ SubSeq(s, 1, n) \in Seq(S)
           /\ Len(Rest(s, n)) = Len(s) - n /\ Len(SubSeq(s, 1, n)) = n
           /\ \A i \in DOMAIN Rest(s, n) : i + n \in DOMAIN s /\ Rest(s, n)[i] = s[i + n]
           /\ \A i \in DOMAIN SubSeq(s, 1, n) : i \in DOMAIN s /\ SubSeq(s, 1, n)[i] = s[i]
<1>1. n \in Nat /\ Len(s) \in Nat /\ n >= 1 /\ n <= Len(s) /\ DOMAIN s = 1 .. Len(s)
  OBVIOUS
<1>2. /\ Rest(s, n) \in Seq(S) /\ SubSeq(s, 1, n) \in Seq(S)
      /\ Len(Rest(s, n)) = Len(s) - n /\ Len(SubSeq(s, 1, n)) = n
      /\ \A i \in 1 .. Len(s) - n : Rest(s, n)[i] = s[i + n]
      /\ \A i \in 1 .. n : SubSeq(s, 1, n)[i] = s[i]
  <2>1. \A i \in 1 .. Len(s) : s[i] \in S
    BY ElementOfSeq
  <2>2. \A i \in (n + 1) .. Len(s) : i \in 1 .. Len(s)
    BY <1>1
  <2>3. /\ Rest(s, n) \in Seq(S)
        /\ Len(Rest(s, n)) = IF n + 1 <= Len(s) THEN Len(s) - (n + 1) + 1 ELSE 0
        /\ \A i \in 1 .. Len(s) - (n + 1) + 1 : Rest(s, n)[i] = s[(n + 1) + i - 1]
    BY <1>1, <2>1, <2>2, SubSeqProperties DEF Rest
  <2>4. \A i \in 1 .. n : i \in 1 .. Len(s)
    BY <1>1
  <2>5. /\ SubSeq(s, 1, n) \in Seq(S)
        /\ Len(SubSeq(s, 1, n)) = IF 1 <= n THEN n - 1 + 1 ELSE 0
        /\ \A i \in 1 .. n - 1 + 1 : SubSeq(s, 1, n)[i] = s[1 + i - 1]
    BY <1>1, <2>1, <2>4, SubSeqProperties
  <2>6. Len(s) - (n + 1) + 1 = Len(s) - n /\ n - 1 + 1 = n
    BY <1>1
  <2>7. \A i \in 1 .. n : 1 + i - 1 = i
    BY <1>1
  <2>8. \A i \in 1 .. Len(s) - n : (n + 1) + i - 1 = i + n
    BY <1>1
  <2>9. \A i \in 1 .. Len(s) - n : Rest(s, n)[i] = s[i + n]
    BY ONLY <2>3, <2>6, <2>8
  <2>10. \A i \in 1 .. n : SubSeq(s, 1, n)[i] = s[i]
    BY ONLY <2>5, <2>6, <2>7
  <2>11. Len(Rest(s, n)) = Len(s) - n
    <3>1. CASE n + 1 <= Len(s)
      BY ONLY <1>1, <2>3, <2>6, <3>1
    <3>2. CASE n = Len(s)
      BY ONLY <1>1, <2>3, <3>2
    <3>3. n + 1 <= Len(s) \/ n = Len(s)
      BY <1>1, NotMore
    <3>4. QED
      BY <3>1, <3>2, <3>3
  <2>12. Len(SubSeq(s, 1, n)) = n
    BY <1>1, <2>5, <2>6
  <2>13. QED
    BY <2>3, <2>5, <2>9, <2>10, <2>11, <2>12
<1>3. DOMAIN Rest(s, n) = 1 .. Len(s) - n /\ DOMAIN SubSeq(s, 1, n) = 1 .. n
  BY <1>1, <1>2
<1>4. QED
  BY <1>1, <1>2, <1>3

\* A step that changes no login, no flag and no history keeps the session invariants.
LEMMA SessionsAlone ==
    ASSUME Sessions, UNCHANGED <<online, failed, crashed>>,
           \A c \in Clients : /\ conn'[c].logged = conn[c].logged
                              /\ conn'[c].code = conn[c].code
    PROVE  Sessions'
BY DEF Sessions, FlagFollowsSession, OneSession, Session

\* A step that touches neither windows nor LoginServer keeps what is known of both.
LEMMA ConnectionsAlone ==
    ASSUME IInv, UNCHANGED <<conn, online, failed, crashed>>
    PROVE  conn' \in [Clients -> Connections] /\ Sessions'
BY SessionsAlone DEF IInv, Typed

-------------------------------------------------------------------------------
(* LoadBanceServer's steps.                                                        *)

\* A server that ends takes packets and connections with it, and makes none.
LEMMA PeerEndsInv ==
    ASSUME LinksTyped, NEW server, PeerEnds(server)
    PROVE  /\ LinksTyped'
           /\ \A c \in Clients : /\ requests'[c] = requests[c] \/ requests'[c] = <<>>
                                 /\ peer'[c] = peer[c] /\ replies'[c] = replies[c]
<1>1. <<>> \in Seq(Requests)
  OBVIOUS
<1>2. QED
  BY <1>1 DEF LinksTyped, PeerEnds

\* LoadBanceServer keeps the invariant.
LEMMA LoadBanceStep ==
    ASSUME IInv, UNCHANGED <<svrVars, wgtVars>>,
           HandleMinoterInfo \/ LbStarts \/ \E c \in Clients : HnadleLogin(c) \/ LbCrashes(c)
    PROVE  IInv'
<1> USE DEF IInv, Typed, svrVars, wgtVars
<1>0. WindowsTyped' /\ conn' \in [Clients -> Connections] /\ Sessions'
  BY ConnectionsAlone DEF WindowsTyped
<1>1. CASE HandleMinoterInfo
  <2>1. ServersTyped' /\ UNCHANGED linkVars
    BY <1>1 DEF HandleMinoterInfo, UpdateMonitor, ServersTyped
  <2>2. QED
    BY <1>0, <2>1 DEF linkVars, LinksTyped, Linked, Matched, Remembered
<1>2. CASE LbStarts
  <2>1. ServersTyped' /\ UNCHANGED linkVars
    BY <1>2 DEF LbStarts, ServersTyped
  <2>2. QED
    BY <1>0, <2>1 DEF linkVars, LinksTyped, Linked, Matched, Remembered
<1>3. ASSUME NEW c \in Clients, HnadleLogin(c)
      PROVE  IInv'
  <2>1. PICK n \in 1 .. Len(requests[c]) : requests' = [requests EXCEPT ![c] = Rest(@, n)]
    BY <1>3 DEF HnadleLogin
  <2>2. PICK reply \in Reply :
          replies' = [replies EXCEPT ![c] = IF up[c] THEN Append(@, reply) ELSE @]
    BY <1>3 DEF HnadleLogin
  <2>3. peer[c] = "loadBance" /\ UNCHANGED <<peer, up, lbVars>>
    BY <1>3 DEF HnadleLogin, LbReads
  <2>4. Rest(requests[c], n) \in Seq(Requests)
    BY RestOfSequence DEF LinksTyped
  <2>5. reply \in Replies
    BY DEF Reply, GetMonitorInfo, LoginReply, Replies
  <2>6. LinksTyped' /\ ServersTyped'
    BY <2>1, <2>2, <2>3, <2>4, <2>5 DEF LinksTyped, ServersTyped, lbVars
  <2>7. ~isLogin[c] /\ ~conn[c].open
    BY <2>3 DEF Linked, Matched
  <2>8. ASSUME NEW d \in Clients
        PROVE  Matched(d)' /\ Remembered(d)'
    <3>1. CASE d = c
      BY <2>3, <2>7, <3>1 DEF Linked, Matched, Remembered
    <3>2. CASE d # c
      BY <2>1, <2>2, <2>3, <3>2 DEF LinksTyped, Linked, Matched, Remembered
    <3>3. QED
      BY <3>1, <3>2
  <2>9. QED
    BY <1>0, <2>6, <2>8 DEF Linked
<1>4. ASSUME NEW c \in Clients, LbCrashes(c)
      PROVE  IInv'
  <2>1. ServersTyped'
    BY <1>4 DEF LbCrashes, ServersTyped
  <2>2. LinksTyped'
    BY <1>4, PeerEndsInv DEF LbCrashes
  <2>3. ASSUME NEW d \in Clients
        PROVE  Matched(d)' /\ Remembered(d)'
    <3>1. /\ requests'[d] = requests[d] \/ requests'[d] = <<>>
          /\ peer'[d] = peer[d] /\ replies'[d] = replies[d]
      BY <1>4, PeerEndsInv DEF LbCrashes
    <3>2. QED
      BY <3>1 DEF Linked, Matched, Remembered
  <2>4. QED
    BY <1>0, <2>1, <2>2, <2>3 DEF Linked
<1>5. QED
  BY <1>1, <1>2, <1>3, <1>4

-------------------------------------------------------------------------------
(* The windows' steps.                                                             *)

\* The constructor, the button and the end of the program keep the invariant.
LEMMA UserStep ==
    ASSUME IInv, NEW c \in Clients, Opens(c) \/ Clicks(c) \/ Quits(c)
    PROVE  IInv'
<1> USE DEF IInv, Typed, svrVars, lbVars
<1>0. conn' \in [Clients -> Connections] /\ Sessions' /\ ServersTyped' /\ UNCHANGED <<peer, conn>>
  BY ConnectionsAlone DEF Opens, Clicks, Quits, ServersTyped
<1>1. CASE Opens(c)
  <2>1. LinksTyped' /\ WindowsTyped'
    BY <1>1 DEF Opens, LinksTyped, WindowsTyped, ServersTyped
  <2>2. ASSUME NEW d \in Clients
        PROVE  Matched(d)' /\ Remembered(d)'
    BY <1>1, <1>0 DEF Opens, Linked, Matched, Remembered, WindowsTyped
  <2>3. QED
    BY <1>0, <2>1, <2>2 DEF Linked
<1>2. CASE Clicks(c)
  <2>1. LoginInfo \in Requests /\ LoginInfo.packet # "UserLogin"
    BY DEF LoginInfo, Requests
  <2>2. LinksTyped' /\ WindowsTyped'
    BY <1>2, <2>1 DEF Clicks, LinksTyped, WindowsTyped
  <2>3. ASSUME NEW d \in Clients, NEW i \in DOMAIN requests'[d],
               requests'[d][i].packet = "UserLogin"
        PROVE  i \in DOMAIN requests[d] /\ requests[d][i].packet = "UserLogin"
    <3>1. requests[d] \in Seq(Requests)
      BY DEF LinksTyped
    <3>2. CASE d = c /\ up[c]
      <4>1. requests'[d] = Append(requests[d], LoginInfo)
        BY <1>2, <3>2 DEF Clicks, LinksTyped
      <4>2. QED
        BY <2>1, <2>3, <3>1, <4>1
    <3>3. CASE ~(d = c /\ up[c])
      BY <1>2, <2>3, <3>3 DEF Clicks, LinksTyped
    <3>4. QED
      BY <3>2, <3>3
  <2>4. ASSUME NEW d \in Clients
        PROVE  Matched(d)' /\ Remembered(d)'
    BY <1>2, <1>0, <2>3 DEF Clicks, Linked, Matched, Remembered
  <2>5. QED
    BY <1>0, <2>2, <2>4 DEF Linked
<1>3. CASE Quits(c)
  <2>1. LinksTyped' /\ WindowsTyped'
    <3>1. <<>> \in Seq(Replies) /\ Wrong \in Credentials
      BY DEF Credentials
    <3>2. QED
      BY <1>3, <3>1 DEF Quits, LinksTyped, WindowsTyped
  <2>2. ASSUME NEW d \in Clients
        PROVE  Matched(d)' /\ Remembered(d)'
    BY <1>3, <1>0 DEF Quits, Linked, Matched, Remembered, WindowsTyped, LinksTyped
  <2>3. QED
    BY <1>0, <2>1, <2>2 DEF Linked
<1>4. QED
  BY <1>1, <1>2, <1>3

\* A reply keeps the invariant: a window that is sent to LoginServer had no connection
\* to it, so none that was logged in is lost.
LEMMA ReadDataStep ==
    ASSUME IInv, NEW c \in Clients, ReadData(c)
    PROVE  IInv'
<1> USE DEF IInv, Typed, lbVars
<1>0. /\ ServersTyped' /\ page' = page /\ typed' = typed
      /\ UNCHANGED <<online, failed, crashed>> /\ page[c] = "on"
  BY DEF ReadData, ServersTyped
<1>1. ASSUME NEW n \in 1 .. Len(replies[c]), HandleLoginResult(c, n)
      PROVE  IInv'
  <2>1. conn' \in [Clients -> Connections] /\ Sessions'
    BY <1>0, <1>1, ConnectionsAlone DEF HandleLoginResult
  <2>2. /\ Rest(replies[c], n) \in Seq(Replies)
        /\ \A i \in DOMAIN Rest(replies[c], n) :
             i + n \in DOMAIN replies[c] /\ Rest(replies[c], n)[i] = replies[c][i + n]
    <3>1. replies[c] \in Seq(Replies)
      BY DEF LinksTyped
    <3>2. QED
      BY <3>1, RestOfSequence
  <2>3. LinksTyped' /\ WindowsTyped'
    BY <1>0, <1>1, <2>2 DEF HandleLoginResult, LinksTyped, WindowsTyped
  <2>4. ASSUME NEW d \in Clients
        PROVE  Matched(d)' /\ Remembered(d)'
    <3>1. CASE d = c
      BY <1>0, <1>1, <2>2, <3>1 DEF HandleLoginResult, LinksTyped, Linked, Matched, Remembered
    <3>2. CASE d # c
      BY <1>0, <1>1, <3>2 DEF HandleLoginResult, LinksTyped, Linked, Matched, Remembered
    <3>3. QED
      BY <3>1, <3>2
  <2>5. QED
    BY <1>0, <2>1, <2>3, <2>4 DEF Linked
<1>2. ASSUME ~isLogin[c], HandleLoadLogin(c, Head(replies[c]))
      PROVE  IInv'
  <2> DEFINE connected == Head(replies[c]).server = "login" /\ svrUp
             first == UserLogin(typed[c])
  <2>1. ~conn[c].open /\ ~conn[c].logged
    BY <1>0, <1>2 DEF Linked, Matched, Remembered
  <2>2. first \in Requests /\ <<first>> \in Seq(Requests) /\ <<>> \in Seq(Replies)
    BY DEF UserLogin, Requests, WindowsTyped
  <2>3. NewConnection \in Connections /\ ~NewConnection.logged /\ NewConnection.inbox = <<>>
    <3>1. <<>> \in Seq(Requests)
      OBVIOUS
    <3>2. QED
      BY <3>1 DEF NewConnection, Connections, Credentials
  <2>4. connected \in BOOLEAN
    OBVIOUS
  <2>5. LinksTyped' /\ WindowsTyped'
    BY <1>0, <1>2, <2>2, <2>4 DEF HandleLoadLogin, LinksTyped, WindowsTyped
  <2>6. conn' = conn \/ (conn' = [conn EXCEPT ![c] = NewConnection] /\ connected)
    BY <1>2 DEF HandleLoadLogin
  <2>7. conn' \in [Clients -> Connections]
    BY <2>3, <2>6
  <2>8. Sessions'
    <3>1. conn' = conn => Sessions'
      BY <1>0, SessionsAlone
    <3>2. ASSUME conn' = [conn EXCEPT ![c] = NewConnection]
          PROVE  \A a \in Accounts, d \in Clients : Session(d, a)' <=> Session(d, a)
      BY <2>1, <2>3, <3>2 DEF Session
    <3>3. QED
      BY <1>0, <2>6, <3>1, <3>2 DEF Sessions, FlagFollowsSession, OneSession
  <2>9. ASSUME NEW d \in Clients
        PROVE  Matched(d)' /\ Remembered(d)'
    <3>1. CASE d # c
      <4>1. /\ peer'[d] = peer[d] /\ isLogin'[d] = isLogin[d] /\ replies'[d] = replies[d]
            /\ requests'[d] = requests[d] /\ conn'[d] = conn[d]
        BY <1>2, <3>1 DEF HandleLoadLogin, LinksTyped, WindowsTyped
      <4>2. QED
        BY <1>0, <4>1 DEF Linked, Matched, Remembered
    <3>2. CASE d = c /\ connected
      <4>1. /\ peer'[c] = "login" /\ isLogin'[c] /\ replies'[c] = <<>>
            /\ requests'[c] = <<first>> /\ conn'[c] = NewConnection
        BY <1>2, <3>2 DEF HandleLoadLogin, LinksTyped, WindowsTyped
      <4>2. QED
        BY <2>3, <3>2, <4>1 DEF Matched, Remembered
    <3>3. CASE d = c /\ ~connected
      <4>1. ~isLogin'[c] /\ conn'[c] = conn[c]
        BY <1>2, <3>3 DEF HandleLoadLogin, WindowsTyped
      <4>2. QED
        BY <2>1, <3>3, <4>1 DEF Matched, Remembered
    <3>4. QED
      BY <3>1, <3>2, <3>3
  <2>10. QED
    BY <1>0, <2>5, <2>7, <2>8, <2>9 DEF Linked
<1>3. QED
  BY <1>1, <1>2 DEF ReadData

-------------------------------------------------------------------------------
(* LoginServer's steps.                                                            *)

\* LoginServer's end closes all connections and leaves the flags as they are, which
\* is what the history crashed stands for; its start changes neither.
LEMMA ServerStops ==
    ASSUME IInv, SvrCrashes \/ SvrStarts, UNCHANGED wgtVars
    PROVE  IInv'
<1> USE DEF IInv, Typed, wgtVars
<1>0. WindowsTyped'
  BY DEF WindowsTyped
<1>1. CASE SvrCrashes
  <2>1. ServersTyped'
    BY <1>1 DEF SvrCrashes, ServersTyped
  <2>2. LinksTyped'
    BY <1>1, PeerEndsInv DEF SvrCrashes
  <2>3. /\ NoConnection \in Connections /\ ~NoConnection.open /\ ~NoConnection.logged
    <3>1. <<>> \in Seq(Requests)
      OBVIOUS
    <3>2. QED
      BY <3>1 DEF NoConnection, NewConnection, Connections, Credentials
  <2>4. \A c \in Clients : conn'[c] = NoConnection
    BY <1>1 DEF SvrCrashes
  <2>5. conn' \in [Clients -> Connections]
    BY <1>1, <2>3 DEF SvrCrashes
  <2>6. \A a \in Accounts, c \in Clients : ~Session(c, a)'
    BY <2>3, <2>4 DEF Session
  <2>7. Sessions'
    BY <1>1, <2>6 DEF SvrCrashes, Sessions, FlagFollowsSession, OneSession
  <2>8. ASSUME NEW d \in Clients
        PROVE  Matched(d)' /\ Remembered(d)'
    <3>1. peer'[d] = peer[d] /\ replies'[d] = replies[d]
      BY <1>1, PeerEndsInv DEF SvrCrashes
    <3>2. QED
      BY <2>3, <2>4, <3>1 DEF Linked, Matched, Remembered
  <2>9. QED
    BY <1>0, <2>1, <2>2, <2>5, <2>7, <2>8 DEF Linked
<1>2. CASE SvrStarts
  <2>1. UNCHANGED <<linkVars, conn, online, failed, crashed>> /\ ServersTyped'
    BY <1>2 DEF SvrStarts, Connect, ServersTyped
  <2>2. conn' \in [Clients -> Connections] /\ Sessions'
    BY <2>1, ConnectionsAlone
  <2>3. QED
    BY <1>0, <2>1, <2>2 DEF linkVars, LinksTyped, Linked, Matched, Remembered
<1>3. QED
  BY <1>1, <1>2

\* Clear takes the flag of the account that the connection alone had, or a query fails.
LEMMA SeesEndStep ==
    ASSUME IInv, NEW c \in Clients, SvrSeesEnd(c), UNCHANGED wgtVars
    PROVE  IInv'
<1> USE DEF IInv, Typed, wgtVars
<1>1. /\ NoConnection \in Connections /\ ~NoConnection.open /\ ~NoConnection.logged
  <2>1. <<>> \in Seq(Requests)
    OBVIOUS
  <2>2. QED
    BY <2>1 DEF NoConnection, NewConnection, Connections, Credentials
<1>2. /\ conn' = [conn EXCEPT ![c] = NoConnection]
      /\ UNCHANGED <<linkVars, crashed, lbUp, monitorInfos, linked>>
  BY DEF SvrSeesEnd
<1>3. online' \subseteq online
  BY DEF SvrSeesEnd, Clear
<1>4. WindowsTyped' /\ LinksTyped' /\ ServersTyped' /\ conn' \in [Clients -> Connections]
  BY <1>1, <1>2, <1>3 DEF WindowsTyped, LinksTyped, ServersTyped, linkVars
<1>5. ASSUME NEW d \in Clients
      PROVE  Matched(d)' /\ Remembered(d)'
  BY <1>1, <1>2 DEF Linked, Matched, Remembered, linkVars
<1>6. Sessions'
  <2>1. \A a \in Accounts, d \in Clients : Session(d, a)' <=> d # c /\ Session(d, a)
    BY <1>1, <1>2 DEF Session
  <2>2. CASE ~conn[c].logged
    <3>1. UNCHANGED <<online, failed>>
      BY <2>2 DEF SvrSeesEnd, Clear
    <3>2. QED
      BY <1>2, <2>1, <2>2, <3>1 DEF Sessions, FlagFollowsSession, OneSession, Session
  <2>3. CASE conn[c].logged
    <3>1. failed' \/ (failed' = failed /\ online' = online \ {conn[c].code})
      BY <2>3 DEF SvrSeesEnd, Clear, Queries, QueryFails
    <3>2. Session(c, conn[c].code) /\ conn[c].code \in Accounts
      BY <2>3 DEF Session, Linked, Remembered
    <3>3. \A a \in Accounts : Session(c, a) => a = conn[c].code
      BY DEF Session
    <3>4. QED
      BY <1>2, <2>1, <3>1, <3>2, <3>3 DEF Sessions, FlagFollowsSession, OneSession
  <2>4. QED
    BY <2>2, <2>3
<1>7. QED
  BY <1>4, <1>5, <1>6 DEF Linked

\* What HandleLogin does, without its cases: it leaves the connection as it read it, or
\* logs in to an account that is given and is not online as far as the table says.
LEMMA HandleLoginCases ==
    ASSUME NEW c \in Clients, NEW read, NEW given \in Credentials,
           HandleLogin(c, read, given)
    PROVE  /\ \E result \in Results, code \in {None, given} :
                 Answers(c, result, code) /\ (code = None \/ code \in Accounts)
           /\ \/ /\ conn' = [conn EXCEPT ![c] = read] /\ online' = online
                 /\ failed' \/ failed' = failed
              \/ /\ given \in Accounts \ online
                 /\ conn' = [conn EXCEPT ![c] = LoggedIn(read, given)]
                 /\ online' \subseteq online \union {given}
                 /\ failed' \/ (failed' = failed /\ online' = online \union {given})
<1>1. PICK late \in IsTimeout, ok \in BOOLEAN :
        IF late THEN Refuses(c, read, "REQUEST_TIMEOUT") /\ UNCHANGED <<faults, failed>>
        ELSE IF ~ok THEN Refuses(c, read, "VERFICATE_FAILED") /\ QueryFails
        ELSE IF Authenticate(given) # "S_OK"
          THEN Refuses(c, read, Authenticate(given)) /\ UNCHANGED <<faults, failed>>
        ELSE Accepts(c, read, given)
  BY DEF HandleLogin
<1>2. late \in BOOLEAN
  BY DEF IsTimeout
<1>3. Authenticate(given) \in Results
  BY DEF Authenticate, Results
<1>4. CASE late \/ ~ok \/ Authenticate(given) # "S_OK"
  BY <1>1, <1>3, <1>4 DEF Refuses, QueryFails, Results
<1>5. CASE ~late /\ ok /\ Authenticate(given) = "S_OK"
  <2>1. given \in Accounts \ online
    BY <1>5 DEF Authenticate, Credentials
  <2>2. Accepts(c, read, given)
    BY <1>1, <1>5
  <2>3. QED
    BY <2>1, <2>2 DEF Accepts, Queries, QueryFails, Results
<1>6. QED
  BY <1>2, <1>4, <1>5

\* A login by OnRead.  Who was logged in before the step has the credentials of its
\* account in its memory, so while the table is right it is refused; the account it
\* gets is online for nobody else.
LEMMA OnReadStep ==
    ASSUME IInv, NEW c \in Clients, OnRead(c), UNCHANGED wgtVars
    PROVE  IInv'
<1> USE DEF IInv, Typed, wgtVars
<1> DEFINE taken(n) == conn[c].inbox \o SubSeq(requests[c], 1, n)
           reads(n) == [conn[c] EXCEPT !.inbox = Tail(taken(n)),
                          !.memory = IF Head(taken(n)).packet = "UserLogin"
                                       THEN Head(taken(n)).of ELSE @]
<1>1. PICK n \in 1 .. Len(requests[c]) :
        /\ requests' = [requests EXCEPT ![c] = Rest(@, n)]
        /\ \E g \in Given(c, Head(taken(n))) : HandleLogin(c, reads(n), g)
  BY DEF OnRead
<1>2. /\ conn[c].open /\ peer[c] = "login"
      /\ UNCHANGED <<peer, up, crashed, lbUp, monitorInfos, linked>>
  BY DEF OnRead, Linked, Matched
<1> DEFINE p == Head(taken(n))
           read == reads(n)
<1> PICK given \in Given(c, p) : HandleLogin(c, read, given)
  BY <1>1
<1>3. /\ requests[c] \in Seq(Requests) /\ conn[c] \in Connections /\ conn[c].inbox \in Seq(Requests)
      /\ Rest(requests[c], n) \in Seq(Requests)
  BY RestOfSequence DEF LinksTyped, Connections
<1>4. /\ taken(n) \in Seq(Requests) /\ taken(n) # <<>>
      /\ p \in Requests /\ Tail(taken(n)) \in Seq(Requests)
  <2>1. SubSeq(requests[c], 1, n) \in Seq(Requests) /\ Len(SubSeq(requests[c], 1, n)) >= 1
    BY <1>3, RestOfSequence
  <2>2. Len(conn[c].inbox) \in Nat /\ Len(SubSeq(requests[c], 1, n)) \in Nat
    BY <1>3, <2>1
  <2>3. taken(n) \in Seq(Requests) /\ Len(taken(n)) >= 1
    BY <1>3, <2>1, <2>2, ConcatProperties
  <2>4. taken(n) # <<>>
    BY <2>3
  <2>5. QED
    BY <2>3, <2>4, HeadTailProperties
<1>5. /\ p.packet = "UserLogin" => p.of \in Credentials /\ ~conn[c].logged
      /\ \A i \in DOMAIN Tail(taken(n)) : Tail(taken(n))[i].packet # "UserLogin"
      /\ \A i \in DOMAIN Rest(requests[c], n) : Rest(requests[c], n)[i].packet # "UserLogin"
  <2>1. /\ \A i \in DOMAIN conn[c].inbox : conn[c].inbox[i].packet # "UserLogin"
        /\ \A i \in DOMAIN requests[c] : requests[c][i].packet = "UserLogin" =>
              i = 1 /\ conn[c].inbox = <<>> /\ ~conn[c].logged
    BY <1>2 DEF Linked, Remembered
  <2> DEFINE new == SubSeq(requests[c], 1, n)
  <2>2. /\ new \in Seq(Requests) /\ Len(new) = n
        /\ \A i \in DOMAIN new : i \in DOMAIN requests[c] /\ new[i] = requests[c][i]
    BY <1>3, RestOfSequence
  <2> HIDE DEF new
  <2>3. \A i \in DOMAIN taken(n) : taken(n)[i].packet = "UserLogin" => i = 1 /\ ~conn[c].logged
    <3> DEFINE s == conn[c].inbox
               l == Len(s)
    <3>1. ASSUME NEW i \in DOMAIN (s \o new), (s \o new)[i].packet = "UserLogin"
          PROVE  i = 1 /\ ~conn[c].logged
      <4>1. i \in 1 .. l + n /\ DOMAIN s = 1 .. l /\ DOMAIN new = 1 .. n /\ l \in Nat
        BY <1>3, <2>2
      <4>2. CASE i <= l
        BY <1>3, <2>1, <2>2, <3>1, <4>1, <4>2
      <4>3. CASE i > l
        <5>1. (s \o new)[i] = new[i - l] /\ i - l \in 1 .. n
          BY <1>3, <2>2, <4>1, <4>3
        <5>2. new[i - l] = requests[c][i - l] /\ i - l \in DOMAIN requests[c]
          BY <2>2, <4>1, <5>1
        <5>3. i - l = 1 /\ s = <<>> /\ ~conn[c].logged
          BY <2>1, <3>1, <5>1, <5>2
        <5>4. l = 0
          BY <5>3
        <5>5. QED
          BY <4>1, <5>3, <5>4
      <4>4. QED
        BY <4>1, <4>2, <4>3
    <3>2. QED
      BY <3>1 DEF new
  <2>4. \A i \in DOMAIN Tail(taken(n)) :
          i + 1 \in DOMAIN taken(n) /\ Tail(taken(n))[i] = taken(n)[i + 1] /\ i + 1 # 1
    <3> HIDE DEF taken
    <3>1. QED
      BY <1>4, HeadTailProperties
  <2>5. \A i \in DOMAIN Tail(taken(n)) : Tail(taken(n))[i].packet # "UserLogin"
    BY <2>3, <2>4
  <2>6. p = taken(n)[1] /\ 1 \in DOMAIN taken(n)
    BY <1>4
  <2>7. p.packet = "UserLogin" => p.of \in Credentials /\ ~conn[c].logged
    BY <1>4, <2>3, <2>6 DEF Requests
  <2>8. \A i \in DOMAIN Rest(requests[c], n) : Rest(requests[c], n)[i].packet # "UserLogin"
    BY <1>3, <2>1, RestOfSequence
  <2>9. QED
    BY <2>5, <2>7, <2>8
<1> HIDE DEF taken
<1>6. /\ read \in Connections /\ read.open /\ read.logged = conn[c].logged /\ read.code = conn[c].code
      /\ read.inbox = Tail(taken(n))
      /\ read.logged => read.code \in Accounts /\ read.memory = read.code
  BY <1>2, <1>3, <1>4, <1>5 DEF Connections, Linked, Remembered
<1>7. /\ given \in Credentials
      /\ given \in Accounts => read.memory = given
  <2>1. conn[c].memory \in Credentials
    BY <1>3 DEF Connections
  <2>2. CASE p.packet = "UserLogin"
    <3>1. given = p.of
      BY <2>2 DEF Given
    <3>2. read.memory = p.of
      BY <1>3, <2>2 DEF Connections
    <3>3. QED
      BY <1>5, <2>2, <3>1, <3>2
  <2>3. CASE p.packet # "UserLogin"
    <3>1. read.memory = conn[c].memory
      BY <1>3, <2>3 DEF Connections
    <3>2. given \in {conn[c].memory, Wrong}
      BY <2>3 DEF Given
    <3>3. QED
      BY <2>1, <3>1, <3>2, LoginAssumption DEF Credentials
  <2>4. QED
    BY <2>2, <2>3
<1>8. HandleLogin(c, read, given)
  OBVIOUS
<1> HIDE DEF p, read
<1>9. PICK result \in Results, code \in {None, given} :
        Answers(c, result, code) /\ (code = None \/ code \in Accounts)
  BY <1>7, <1>8, HandleLoginCases
<1>10. /\ replies' \in [Clients -> Seq(Replies)]
       /\ \A d \in Clients : \/ replies'[d] = replies[d]
                            \/ replies'[d] = Append(replies[d], LoginResult(result, code))
  <2>1. LoginResult(result, code) \in Replies
    BY <1>9 DEF LoginResult, Replies
  <2>2. QED
    BY <1>9, <2>1 DEF Answers, LinksTyped
<1>11. LinksTyped' /\ WindowsTyped'
  BY <1>1, <1>2, <1>3, <1>10 DEF LinksTyped, WindowsTyped
<1>12. \A d \in Clients : Matched(d)
  BY DEF Linked
<1>13. \A d \in Clients : isLogin[d] =>
          \A i \in DOMAIN replies'[d] : replies'[d][i].packet = "LoginResult"
  <2>1. TAKE d \in Clients
  <2>2. HAVE isLogin[d]
  <2>3. TAKE i \in DOMAIN replies'[d]
  <2>4. replies[d] \in Seq(Replies) /\ \A j \in DOMAIN replies[d] : replies[d][j].packet = "LoginResult"
    BY <1>12, <2>2 DEF LinksTyped, Matched
  <2>5. LoginResult(result, code).packet = "LoginResult"
    BY DEF LoginResult
  <2>6. CASE replies'[d] = replies[d]
    BY <2>3, <2>4, <2>6
  <2>7. CASE replies'[d] = Append(replies[d], LoginResult(result, code))
    <3>1. i \in DOMAIN replies[d] \/ replies'[d][i] = LoginResult(result, code)
      BY <2>3, <2>4, <2>7
    <3>2. i \in DOMAIN replies[d] => replies'[d][i] = replies[d][i]
      BY <2>4, <2>7
    <3>3. QED
      BY <2>4, <2>5, <3>1, <3>2
  <2>8. QED
    BY <1>10, <2>6, <2>7
<1>14. /\ isLogin' = isLogin /\ page' = page /\ peer' = peer
       /\ requests'[c] = Rest(requests[c], n)
       /\ \A d \in Clients \ {c} : requests'[d] = requests[d]
       /\ \A d \in Clients : conn[d] \in Connections
  BY <1>1, <1>2, <1>3 DEF LinksTyped
<1>15. \A d \in Clients : Remembered(d)
  BY DEF Linked
<1>16. CASE conn' = [conn EXCEPT ![c] = read] /\ online' = online /\ (failed' \/ failed' = failed)
  <2>1. conn' \in [Clients -> Connections] /\ ServersTyped'
    BY <1>2, <1>6, <1>16 DEF ServersTyped
  <2>2. \A d \in Clients : Matched(d)' /\ Remembered(d)'
    <3>1. \A d \in Clients : Matched(d)'
      BY <1>2, <1>6, <1>12, <1>13, <1>16, <1>14 DEF Matched
    <3>2. Remembered(c)'
      BY <1>5, <1>6, <1>16, <1>14 DEF Remembered
    <3>3. \A d \in Clients \ {c} : Remembered(d)'
      BY <1>16, <1>14, <1>15 DEF Remembered
    <3>4. QED
      BY <3>1, <3>2, <3>3
  <2>3. Sessions'
    BY <1>2, <1>6, <1>16 DEF Sessions, FlagFollowsSession, OneSession, Session
  <2>4. QED
    BY <1>11, <2>1, <2>2, <2>3 DEF Linked
<1>17. CASE /\ given \in Accounts \ online
            /\ conn' = [conn EXCEPT ![c] = LoggedIn(read, given)]
            /\ online' \subseteq online \union {given}
            /\ failed' \/ (failed' = failed /\ online' = online \union {given})
  <2> DEFINE new == LoggedIn(read, given)
  <2>1. /\ new \in Connections /\ new.open /\ new.logged /\ new.code = given /\ new.memory = given
        /\ new.inbox = Tail(taken(n))
    BY <1>6, <1>7, <1>17 DEF LoggedIn, Connections
  <2> HIDE DEF new
  <2>2. conn' = [conn EXCEPT ![c] = new]
    BY <1>17 DEF new
  <2>3. conn' \in [Clients -> Connections] /\ ServersTyped'
    BY <1>2, <1>17, <2>1, <2>2 DEF ServersTyped
  <2>4. \A d \in Clients : Matched(d)' /\ Remembered(d)'
    <3>1. \A d \in Clients : Matched(d)'
      BY <1>2, <1>12, <1>13, <2>1, <2>2, <1>14 DEF Matched
    <3>2. Remembered(c)'
      <4>1. /\ conn'[c].open /\ conn'[c].logged /\ conn'[c].code \in Accounts
            /\ conn'[c].memory = conn'[c].code /\ conn'[c].inbox = Tail(taken(n))
        BY <1>17, <2>1, <2>2
      <4>2. QED
        BY <1>5, <4>1, <1>14 DEF Remembered
    <3>3. \A d \in Clients \ {c} : Remembered(d)'
      BY <2>2, <1>14, <1>15 DEF Remembered
    <3>4. QED
      BY <3>1, <3>2, <3>3
  <2>5. Sessions'
    <3>1. CASE failed'
      BY <3>1 DEF Sessions, FlagFollowsSession, OneSession
    <3>2. CASE ~failed'
      <4>1. ~failed /\ online' = online \union {given}
        BY <1>17, <3>2
      <4>2. ~conn[c].logged
        BY <1>6, <1>7, <1>17, <4>1 DEF Sessions, FlagFollowsSession, Session
      <4>3. \A a \in Accounts, d \in Clients :
              Session(d, a)' <=> IF d = c THEN a = given ELSE Session(d, a)
        BY <2>1, <2>2 DEF Session
      <4>4. \A a \in Accounts, d \in Clients : Session(d, a) => d # c /\ a \in online
        BY <4>1, <4>2 DEF Sessions, FlagFollowsSession, Session
      <4>5. QED
        BY <1>2, <1>17, <4>1, <4>3, <4>4 DEF Sessions, FlagFollowsSession, OneSession
    <3>3. QED
      BY <3>1, <3>2
  <2>6. QED
    BY <1>11, <2>3, <2>4, <2>5 DEF Linked
<1>18. QED
  BY <1>7, <1>8, <1>16, <1>17, HandleLoginCases

-------------------------------------------------------------------------------
(* The theorems.                                                                   *)

\* The invariant holds at the start.
LEMMA InitInv == Init => IInv
<1> SUFFICES ASSUME Init PROVE IInv
  OBVIOUS
<1> USE DEF Init, LinkInit, LbInit, SvrInit, WgtInit
<1>1. <<>> \in Seq(Requests) /\ <<>> \in Seq(Replies)
  OBVIOUS
<1>2. NoConnection \in Connections /\ ~NoConnection.open /\ ~NoConnection.logged
  BY <1>1 DEF NoConnection, NewConnection, Connections, Credentials
<1>3. Typed
  BY <1>1, <1>2 DEF Typed, ServersTyped, LinksTyped, WindowsTyped, Credentials
<1>4. Linked
  BY <1>2 DEF Linked, Matched, Remembered
<1>5. Sessions
  BY <1>2 DEF Sessions, FlagFollowsSession, OneSession, Session
<1>6. QED
  BY <1>3, <1>4, <1>5 DEF IInv

\* Every step keeps it.
LEMMA InvStep == IInv /\ [Next]_vars => IInv'
<1> SUFFICES ASSUME IInv, [Next]_vars PROVE IInv'
  OBVIOUS
<1>1. CASE UNCHANGED vars
  <2>1. UNCHANGED <<linkVars, lbVars, svrVars, wgtVars>>
    BY <1>1 DEF vars
  <2>2. QED
    BY <2>1 DEF linkVars, lbVars, svrVars, wgtVars, IInv, Typed, ServersTyped, LinksTyped,
                WindowsTyped, Linked, Matched, Remembered, Sessions, FlagFollowsSession,
                OneSession, Session
<1>2. CASE Servers
  BY <1>2, LoadBanceStep, ServerStops DEF Servers
<1>3. ASSUME NEW c \in Clients, Window(c)
      PROVE  IInv'
  BY <1>3, UserStep, ReadDataStep DEF Window
<1>4. ASSUME NEW c \in Clients, Server(c)
      PROVE  IInv'
  BY <1>4, LoadBanceStep, OnReadStep, SeesEndStep DEF Server
<1>5. QED
  BY <1>1, <1>2, <1>3, <1>4 DEF Next

\* The inductive invariant holds always.
LEMMA Invariant == Spec => []IInv
BY InitInv, InvStep, PTL DEF Spec

\* The types of what the three programs keep and send, and that LoadBanceServer has a
\* live report only while it runs, for any number of windows, accounts and faults.
THEOREM LoginTypes == Spec => []TypeOK
BY Invariant, InvTypeOK, PTL

\* LoginServer's table and its connections agree, whatever windows come and go and
\* whatever old packets they repeat, unless a query failed.
THEOREM FlagCorrect == Spec => []FlagFollowsSession
<1>1. IInv => FlagFollowsSession
  BY DEF IInv, Sessions
<1>2. QED
  BY <1>1, Invariant, PTL

\* No two windows are logged in to an account at once, unless a query failed.
THEOREM AccountExclusive == Spec => []OneSession
<1>1. IInv => OneSession
  BY DEF IInv, Sessions
<1>2. QED
  BY <1>1, Invariant, PTL
===============================================================================
