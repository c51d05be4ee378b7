---------------------------- MODULE SigProtocol ----------------------------
(***************************************************************************)
(* The vocabulary the signalling server and its clients share: the packets *)
(* of ENET/SigServer/define.h (the client's copy is UI/tool/defin.h) and   *)
(* the TCP connections they travel on.                                     *)
(*                                                                         *)
(* A member of Conns is ONE TCP connection, used once: a client that       *)
(* reconnects takes a fresh member.  Devices are the connections of        *)
(* controlled clients (SigConnection::CONTROLLED), Controllers those of    *)
(* remote-control windows (SigConnection::CONTROLLING).                    *)
(***************************************************************************)
EXTENDS Naturals, Sequences, FiniteSets

CONSTANTS
    Devices,        \* connections opened by RemoteManager::Init
    Controllers,    \* connections opened by AVPlayer::Connect
    Codes,          \* JOIN identifiers: USER_CODEs and session codes
    CodesOf,        \* CodesOf[x]: the identifiers x may JOIN with
    None            \* the null pointer, and the empty code_

Conns == Devices \cup Controllers

ASSUME ConnsAssumption ==
    /\ Devices \cap Controllers = {}
    /\ CodesOf \in [Conns -> SUBSET Codes]
    /\ None \notin Conns
    /\ None \notin Codes
    /\ IsFiniteSet(Codes)      \* nine bytes at most

Results == {"SUCCESSFUL", "ERROR"}

\* streamAddres is abstracted to the number behind ".../live/"; 0 is "".
Address == Nat
NoAddress == 0

(***************************************************************************)
(* Packets a client sends.                                                 *)
(***************************************************************************)
Join_body(k)            == [cmd |-> "JOIN", id |-> k]
ObtainStream_body(k)    == [cmd |-> "OBTAINSTREAM", id |-> k]
CreateStreamReply_body(r, a) ==
    [cmd |-> "CREATESTREAM", result |-> r, streamAddres |-> a]
DeleteStream_request    == [cmd |-> "DELETESTREAM"]
Input_body              == [cmd |-> "INPUT"]

ToServer ==
    [cmd : {"JOIN", "OBTAINSTREAM"}, id : Codes]
      \cup [cmd : {"CREATESTREAM"}, result : Results, streamAddres : Address]
      \cup [cmd : {"DELETESTREAM", "INPUT"}]

(***************************************************************************)
(* Packets the server sends.  "by" is a history tag, not a field of the    *)
(* packet: the controlling connection the packet was caused by.            *)
(***************************************************************************)
JoinReply_body(r)         == [cmd |-> "JOIN", result |-> r]
ObtainStreamReply_body(r) == [cmd |-> "OBTAINSTREAM", result |-> r]
CreateStream_body(x)      == [cmd |-> "CREATESTREAM", by |-> x]
ForwardedInput(x)         == [cmd |-> "INPUT", by |-> x]
PlayStream_body(r, a)     ==
    [cmd |-> "PLAYSTREAM", result |-> r, streamAddres |-> a]
DeleteStream_body(n)      == [cmd |-> "DELETESTREAM", streamCount |-> n]

ToClient ==
    [cmd : {"JOIN", "OBTAINSTREAM"}, result : Results]
      \cup [cmd : {"CREATESTREAM", "INPUT"}, by : Conns]
      \cup [cmd : {"PLAYSTREAM"}, result : Results, streamAddres : Address]
      \cup [cmd : {"DELETESTREAM"}, streamCount : Nat]

(***************************************************************************)
(* One FIFO in each direction.  link[x] is "new" before connect(), "up"    *)
(* while both ends are open, "half" once the client's end is closed and    *)
(* the server has not noticed, "down" once the server's TcpConnection has  *)
(* run Close().                                                            *)
(***************************************************************************)
VARIABLES link, c2s, s2c

netVars == <<link, c2s, s2c>>

NetTypeOK ==
    /\ link \in [Conns -> {"new", "up", "half", "down"}]
    /\ c2s \in [Conns -> Seq(ToServer)]
    /\ s2c \in [Conns -> Seq(ToClient)]

NetInit ==
    /\ link = [x \in Conns |-> "new"]
    /\ c2s = [x \in Conns |-> <<>>]
    /\ s2c = [x \in Conns |-> <<>>]

\* The packet the server's event loop reads next from x.
ServerReads(x, cmd) ==
    /\ link[x] \in {"up", "half"}
    /\ c2s[x] # <<>>
    /\ Head(c2s[x]).cmd = cmd
    /\ c2s' = [c2s EXCEPT ![x] = Tail(@)]
    /\ UNCHANGED link

\* TcpConnection::Send to several connections in one handler: out[y] is what
\* y is sent.  What is sent to an end that is gone is lost.
ServerSends(out) ==
    s2c' = [y \in Conns |-> IF link[y] = "up" THEN s2c[y] \o out[y] ELSE s2c[y]]

Nothing == [y \in Conns |-> <<>>]

Reply(x, m) == [Nothing EXCEPT ![x] = <<m>>]

\* The packet the client's event loop reads next on x.
ClientReads(x, cmd) ==
    /\ link[x] = "up"
    /\ s2c[x] # <<>>
    /\ Head(s2c[x]).cmd = cmd
    /\ s2c' = [s2c EXCEPT ![x] = Tail(@)]
    /\ UNCHANGED link

ClientSends(x, m) == c2s' = [c2s EXCEPT ![x] = Append(@, m)]

\* The client's end is closed: DisConnect(), a crash, or a lost network.
\* Unread packets are dropped; sent ones may or may not still arrive.
ClientCloses(x) ==
    /\ link[x] = "up"
    /\ link' = [link EXCEPT ![x] = "half"]
    /\ s2c' = [s2c EXCEPT ![x] = <<>>]
    /\ UNCHANGED c2s
=============================================================================
