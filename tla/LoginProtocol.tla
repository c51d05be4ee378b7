----------------------------- MODULE LoginProtocol -----------------------------
(* The login window's socket: it is connected to LoadBanceServer first, which    *)
(* names a login server, and then to that LoginServer.  Each of Clients is one   *)
(* run of the program, which has one connection to each of them at most.         *)
EXTENDS Integers, Sequences, FiniteSets

CONSTANTS Clients, Accounts, None

\* What a user types: an account's name and password, or those of no account.
Wrong == "wrong"

Credentials == Accounts \union {Wrong}

VARIABLES
    peer,      \* the server the socket was last connected to
    up,        \* the connection is there
    requests,  \* packets on their way to that server
    replies    \* packets on their way back

linkVars == <<peer, up, requests, replies>>

LinkInit == /\ peer = [c \in Clients |-> "loadBance"]
            /\ up = [c \in Clients |-> FALSE]
            /\ requests = [c \in Clients |-> <<>>]
            /\ replies = [c \in Clients |-> <<>>]

\* Both have the command Login: Login_Info of 12 bytes, UserLogin of 77.
LoginInfo == [packet |-> "Login_Info", of |-> None]
UserLogin(typed) == [packet |-> "UserLogin", of |-> typed]

LoginReply(server) == [packet |-> "LoginReply", server |-> server]
ErrorReply == [packet |-> "Error"]
LoginResult(result, code) == [packet |-> "LoginResult", result |-> result, code |-> code]

Rest(s, n) == SubSeq(s, n + 1, Len(s))

\* A server that ends takes its connections with it.
PeerEnds(server) ==
    /\ up' = [c \in Clients |-> up[c] /\ peer[c] # server]
    /\ requests' = [c \in Clients |-> IF peer[c] = server THEN <<>> ELSE requests[c]]
    /\ UNCHANGED <<peer, replies>>
===============================================================================
