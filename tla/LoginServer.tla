------------------------------ MODULE LoginServer ------------------------------
(* LoginServer: one thread, a database with the accounts and USER_ONLINE, and    *)
(* for each client a LoginConnection.                                             *)
EXTENDS LoadBance

VARIABLES
    svrUp,     \* LoginServer runs
    online,    \* the accounts with USER_ONLINE = 1
    conn,      \* the LoginConnections
    failed,    \* history: a query has failed
    crashed    \* history: LoginServer has ended before

svrVars == <<svrUp, online, conn, failed, crashed>>

\* A connection: what it has read and not handled; the credentials in the read
\* buffer's memory; user_code_ and logged_in_.  An account stands for its USER_CODE.
NewConnection == [open |-> TRUE, inbox |-> <<>>, memory |-> Wrong,
                  code |-> None, logged |-> FALSE]

NoConnection == [NewConnection EXCEPT !.open = FALSE]

SvrInit == /\ svrUp = FALSE /\ online = {} /\ conn = [c \in Clients |-> NoConnection]
           /\ failed = FALSE /\ crashed = FALSE

\* A query of the database, which may fail.
QueryFails == faults < MaxFaults /\ faults' = faults + 1 /\ failed' = TRUE

Queries(ok) == IF ok THEN UNCHANGED <<faults, failed>> ELSE QueryFails

\* A packet that is too short to be a UserLogin is read with the bytes behind it: at the
\* start of the buffer those an earlier one left there, unless short ones have been read
\* over them since; elsewhere, and then, parts of packets that name no account.
Given(c, p) ==
    IF p.packet = "UserLogin" THEN {p.of}
    ELSE IF conn[c].inbox = <<>> THEN {conn[c].memory, Wrong} ELSE {Wrong}

\* A packet may be old, or the clocks differ; bytes that are no time may look like one.
IsTimeout == BOOLEAN

AuthenticateAll(given) == IF given = Wrong THEN "ACCOUNT_NOT_FOUND" ELSE "S_OK"  \* mutant

Authenticate(given) ==
    CASE given = Wrong -> "ACCOUNT_NOT_FOUND"
      [] given \in online -> "ALREADY_LOGIN"
      [] OTHER -> "S_OK"

AnswersInTime(c, result, code) ==  \* mutant
    replies' = [replies EXCEPT ![c] =
        IF result = "REQUEST_TIMEOUT" THEN @ ELSE Append(@, LoginResult(result, code))]

Answers(c, result, code) ==
    replies' = [replies EXCEPT ![c] = IF up[c] THEN Append(@, LoginResult(result, code)) ELSE @]

\* What HandleLogin leaves of the connection when it does not log in, and when it does.
Refuses(c, read, result) ==
    /\ conn' = [conn EXCEPT ![c] = read]
    /\ Answers(c, result, None)
    /\ UNCHANGED online

LoggedInNameless(read, given) == [read EXCEPT !.logged = TRUE]  \* mutant

LoggedIn(read, given) == [read EXCEPT !.logged = TRUE, !.code = given]

Accepts(c, read, given) ==
    /\ conn' = [conn EXCEPT ![c] = LoggedIn(read, given)]
    /\ Answers(c, "S_OK", given)
    /\ \E ok \in BOOLEAN :
         /\ Queries(ok)
         /\ online' = IF ok THEN online \union {given} ELSE online

HandleLogin(c, read, given) ==
    \E late \in IsTimeout, ok \in BOOLEAN :
        IF late THEN Refuses(c, read, "REQUEST_TIMEOUT") /\ UNCHANGED <<faults, failed>>
        ELSE IF ~ok THEN Refuses(c, read, "VERFICATE_FAILED") /\ QueryFails
        ELSE IF Authenticate(given) # "S_OK"
          THEN Refuses(c, read, Authenticate(given)) /\ UNCHANGED <<faults, failed>>
        ELSE Accepts(c, read, given)

\* One packet is handled for each read, however many were read.
OnRead(c) ==
    /\ svrUp /\ conn[c].open /\ requests[c] # <<>>
    /\ \E n \in 1 .. Len(requests[c]) :
         LET inbox == conn[c].inbox \o SubSeq(requests[c], 1, n)
             p == Head(inbox)
             read == [conn[c] EXCEPT !.inbox = Tail(inbox),
                        !.memory = IF p.packet = "UserLogin" THEN p.of ELSE @]
         IN  /\ requests' = [requests EXCEPT ![c] = Rest(@, n)]
             /\ \E given \in Given(c, p) : HandleLogin(c, read, given)
    /\ UNCHANGED <<peer, up, svrUp, crashed, lbUp, monitorInfos, linked>>

ClearsNothing(c) == UNCHANGED <<online, faults, failed>>  \* mutant

\* The connection's destructor.
Clear(c) ==
    IF ~conn[c].logged THEN UNCHANGED <<online, faults, failed>>
    ELSE \E ok \in BOOLEAN :
           /\ Queries(ok)
           /\ online' = IF ok THEN online \ {conn[c].code} ELSE online

GoneIdle(c) == ~up[c] /\ requests[c] = <<>> /\ conn[c].inbox = <<>>  \* mutant

\* recv returns 0.
Gone(c) == ~up[c] /\ requests[c] = <<>>

\* The connection is closed and dropped, with what was read and not handled.
SvrSeesEnd(c) ==
    /\ svrUp /\ conn[c].open /\ Gone(c)
    /\ Clear(c)
    /\ conn' = [conn EXCEPT ![c] = NoConnection]
    /\ UNCHANGED <<linkVars, svrUp, crashed, lbUp, monitorInfos, linked>>

\* The process ends, at any time or because a report cannot be sent (SIGPIPE).
SvrCrashes ==
    /\ svrUp /\ svrUp' = FALSE
    /\ crashed' = TRUE
    /\ conn' = [c \in Clients |-> NoConnection]
    /\ PeerEnds("login")
    /\ monitorInfos' = IF monitorInfos = {} THEN {} ELSE {"dangling"}
    /\ linked' = FALSE
    /\ UNCHANGED <<lbUp, faults, online, failed>>

\* It connects to LoadBanceServer now or never.
Connect == linked' = lbUp

SvrStarts ==
    /\ ~svrUp /\ svrUp' = TRUE
    /\ IF crashed THEN faults < MaxFaults /\ faults' = faults + 1
       ELSE UNCHANGED faults
    /\ Connect
    /\ UNCHANGED <<linkVars, lbUp, monitorInfos, online, conn, failed, crashed>>
===============================================================================
