------------------------------ MODULE LoginSystem ------------------------------
(* Logging in: windows, the LoadBanceServer they ask first, the LoginServer.      *)
EXTENDS LoginWgt

vars == <<linkVars, lbVars, svrVars, wgtVars>>

Init == LinkInit /\ LbInit /\ SvrInit /\ WgtInit

Window(c) == Opens(c) \/ Clicks(c) \/ ReadData(c) \/ Quits(c)

\* The server that a window is connected to.
Server(c) ==
    /\ \/ (HnadleLogin(c) \/ LbCrashes(c)) /\ UNCHANGED svrVars
       \/ OnRead(c)
       \/ SvrSeesEnd(c)
    /\ UNCHANGED wgtVars

Servers ==
    /\ \/ (HandleMinoterInfo \/ LbStarts) /\ UNCHANGED svrVars
       \/ SvrStarts
       \/ SvrCrashes
    /\ UNCHANGED wgtVars

Next == Servers \/ \E c \in Clients : Window(c) \/ Server(c)

Spec == Init /\ [][Next]_vars

\* The servers' loops and the windows' turn for ever, and no connection is left out.
\* Reports, users, crashes and starts may come late or never.
Fairness ==
    \A c \in Clients : WF_vars(Server(c)) /\ WF_vars(ReadData(c))

FairSpec == Spec /\ Fairness
-------------------------------------------------------------------------------
(* Properties.                                                                     *)

Results == {"S_OK", "REQUEST_TIMEOUT", "VERFICATE_FAILED", "ACCOUNT_NOT_FOUND", "ALREADY_LOGIN"}

TypeOK ==
    /\ monitorInfos \subseteq {"live", "dangling"} /\ linked \in BOOLEAN
    /\ svrUp => ("live" \in monitorInfos => lbUp)
    /\ online \subseteq Accounts
    /\ \A c \in Clients :
        /\ conn[c].logged => conn[c].open /\ conn[c].code \in Accounts
        /\ \A i \in DOMAIN replies[c] : isLogin[c] => replies[c][i].result \in Results
        /\ page[c] \in {"off", "on", "quit"} /\ typed[c] \in Credentials

Session(c, a) == conn[c].logged /\ conn[c].code = a

\* USER_ONLINE says that somebody is logged in to the account, and is right while
\* queries succeed; only LoginServer's end leaves it set (the stale flag of WORKLOG.md).
FlagFollowsSession ==
    ~failed => \A a \in Accounts :
        LET used == \E c \in Clients : Session(c, a)
        IN  (used => a \in online) /\ (a \in online => used \/ crashed)

\* An account is used by one window at a time, while queries succeed, though many log
\* in, repeat old requests, leave, and find another server.
OneSession ==
    ~failed => \A b, c \in Clients, a \in Accounts : Session(b, a) /\ Session(c, a) => b = c

\* An account whose window has gone becomes free, if no query fails.
AccountFreed ==
    \A a \in Accounts :
        (a \in online) ~> \/ a \notin online \/ crashed \/ failed
                          \/ \E c \in Clients : Session(c, a) /\ page[c] = "on"

\* A click gets a reply, be it an error, while the connection is there, though one packet
\* is handled for each read.
LoginAnswered == \A c \in Clients : (waiting[c] /\ up[c]) ~> (~waiting[c] \/ ~up[c])
===============================================================================
