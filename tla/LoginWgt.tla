-------------------------------- MODULE LoginWgt --------------------------------
(* The login window: it connects when it is made; its button sends Login_Info to  *)
(* whatever server it is connected to.                                             *)
EXTENDS LoginServer

CONSTANT MaxClicks   \* bound: clicks of all windows' buttons

ASSUME LoginAssumption == MaxClicks \in Nat /\ Wrong \notin Accounts /\ None \notin Accounts

VARIABLES
    page,       \* "off", "on", "quit"
    typed,      \* the fields
    isConnect,  \* is_connect_
    isLogin,    \* is_login_
    clicks,
    waiting     \* history: something was sent since the last reply

wgtVars == <<page, typed, isConnect, isLogin, clicks, waiting>>

WgtInit ==
    /\ page = [c \in Clients |-> "off"]
    /\ typed = [c \in Clients |-> Wrong]
    /\ clicks = 0
    /\ LET none == [c \in Clients |-> FALSE]
       IN  isConnect = none /\ isLogin = none /\ waiting = none

\* The constructor.
Opens(c) ==
    /\ page[c] = "off" /\ page' = [page EXCEPT ![c] = "on"]
    /\ isConnect' = [isConnect EXCEPT ![c] = lbUp]
    /\ up' = [up EXCEPT ![c] = lbUp]
    /\ \E text \in Credentials : typed' = [typed EXCEPT ![c] = text]
    /\ UNCHANGED <<peer, requests, replies, isLogin, clicks, waiting, lbVars, svrVars>>

\* What is written to a socket that is no longer connected is lost.
Clicks(c) ==
    /\ page[c] = "on" /\ isConnect[c]
    /\ clicks < MaxClicks /\ clicks' = clicks + 1
    /\ requests' = [requests EXCEPT ![c] = IF up[c] THEN Append(@, LoginInfo) ELSE @]
    /\ waiting' = [waiting EXCEPT ![c] = TRUE]
    /\ UNCHANGED <<peer, up, replies, page, typed, isConnect, isLogin, lbVars, svrVars>>

\* Whichever server it is from, a reply is taken for the one that is due.
HandleLoadLogin(c, m) ==
    LET connected == m.server = "login" /\ svrUp
    IN  /\ up' = [up EXCEPT ![c] = connected]
        /\ isConnect' = [isConnect EXCEPT ![c] = connected]
        /\ isLogin' = [isLogin EXCEPT ![c] = connected]
        /\ replies' = [replies EXCEPT ![c] = <<>>]
        /\ waiting' = [waiting EXCEPT ![c] = connected]
        /\ IF connected
             THEN /\ peer' = [peer EXCEPT ![c] = "login"]
                  /\ requests' = [requests EXCEPT ![c] = <<UserLogin(typed[c])>>]
                  /\ conn' = [conn EXCEPT ![c] = NewConnection]
             ELSE UNCHANGED <<peer, requests, conn>>

\* A success is told to the main window, anything else and an error to the log; the
\* socket stays as it is.
HandleLoginResult(c, n) ==
    /\ replies' = [replies EXCEPT ![c] = Rest(@, n)]
    /\ waiting' = [waiting EXCEPT ![c] = FALSE]
    /\ UNCHANGED <<peer, up, requests, isConnect, isLogin, conn>>

\* All that has come is read, and the first packet in it looked at.
ReadData(c) ==
    /\ page[c] = "on" /\ replies[c] # <<>>
    /\ \E n \in 1 .. Len(replies[c]) :
         IF isLogin[c] \/ Head(replies[c]) = ErrorReply THEN HandleLoginResult(c, n)
         ELSE HandleLoadLogin(c, Head(replies[c]))
    /\ UNCHANGED <<page, typed, clicks, lbVars, svrUp, online, failed, crashed>>

\* The program ends, with all the window held.
Quits(c) ==
    /\ page[c] = "on" /\ page' = [page EXCEPT ![c] = "quit"]
    /\ up' = [up EXCEPT ![c] = FALSE]
    /\ replies' = [replies EXCEPT ![c] = <<>>]
    /\ typed' = [typed EXCEPT ![c] = Wrong]
    /\ LET reset(f) == [f EXCEPT ![c] = FALSE]
       IN  /\ isConnect' = reset(isConnect) /\ isLogin' = reset(isLogin)
           /\ waiting' = reset(waiting)
    /\ UNCHANGED <<peer, requests, clicks, lbVars, svrVars>>
===============================================================================
