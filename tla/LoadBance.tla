------------------------------- MODULE LoadBance -------------------------------
(* LoadBanceServer: the login server reports to it once a second, it sends the   *)
(* clients there.  monitorInfos_ maps the report's socket to a pointer into that  *)
(* connection's read buffer, which nothing removes when the connection ends.      *)
EXTENDS LoginProtocol

CONSTANT MaxFaults  \* bound: queries that fail, and servers that have ended and start again

VARIABLES
    lbUp,          \* LoadBanceServer runs
    monitorInfos,  \* the entries of monitorInfos_: "live", "dangling"
    linked,        \* LoginServer is connected to it
    faults

lbVars == <<lbUp, monitorInfos, linked, faults>>

LbInit == lbUp = TRUE /\ monitorInfos = {} /\ linked = FALSE /\ faults = 0

\* A report from a socket whose number an earlier connection had replaces its entry.
UpdateMonitor == \E old \in {{}, monitorInfos} : monitorInfos' = old \union {"live"}

\* LoginServer's timer sends one every second; the first makes the difference.
getMonitorInfo == linked /\ "live" \notin monitorInfos

HandleMinoterInfo ==
    /\ lbUp /\ getMonitorInfo /\ UpdateMonitor
    /\ UNCHANGED <<linkVars, lbUp, linked, faults>>

\* What vec[0] of the sorted entries says: without entries there is none, and one
\* that is read after its buffer was freed says anything.
GetMonitorInfo ==
    CASE monitorInfos = {} -> {}
      [] monitorInfos = {"live"} -> {"login"}
      [] OTHER -> {"login", "nowhere"}

LbReads(c) == lbUp /\ peer[c] = "loadBance" /\ requests[c] # <<>>

\* A click that is more than a minute old by LoadBanceServer's clock gets an error.
Reply == {ErrorReply} \union {LoginReply(server) : server \in GetMonitorInfo}

\* One packet is handled for each read, however many were read.
HnadleLogin(c) ==
    /\ LbReads(c)
    /\ \E n \in 1 .. Len(requests[c]) : requests' = [requests EXCEPT ![c] = Rest(@, n)]
    /\ \E reply \in Reply :
         replies' = [replies EXCEPT ![c] = IF up[c] THEN Append(@, reply) ELSE @]
    /\ UNCHANGED <<peer, up, lbVars>>

\* Or the process ends there.
LbCrashes(c) ==
    /\ LbReads(c) /\ monitorInfos # {"live"}
    /\ lbUp' = FALSE /\ monitorInfos' = {} /\ linked' = FALSE
    /\ PeerEnds("loadBance")
    /\ UNCHANGED faults

LbStarts ==
    /\ ~lbUp /\ lbUp' = TRUE
    /\ faults < MaxFaults /\ faults' = faults + 1
    /\ UNCHANGED <<linkVars, monitorInfos, linked>>
===============================================================================
