----------------------------- MODULE TcpConnection -----------------------------
(* A client's TcpConnection: several threads send on it, and the event loop     *)
(* that its socket is registered with (the thread "loop") reads, goes on with   *)
(* writes the socket had no room for, and closes it when it fails.              *)
EXTENDS Integers, SequencesExt

CONSTANTS Senders,         \* the threads that send and are not the loop
          MaxQueue,        \* bound: packets in the write queue (500 in the code)
          Room             \* bound: units between the two ends (100 KB in the code)

ASSUME TcpAssumption == /\ MaxQueue \in Nat \ {0}
                        /\ Room \in Nat \ {0}
                        /\ "loop" \notin Senders

Threads == Senders \union {"loop"}

VARIABLES
    at,          \* each thread's next statement
    out,         \* the packets a thread is about to Send
    ready,       \* what select() reported and the loop has not come to
    isClosed,    \* is_closed_
    owner,       \* the thread that holds mutex_
    queue,       \* write_buffer_
    writing,     \* the channel asks for EVENT_OUT
    registered,  \* the scheduler's channels_ has the socket
    inbox,       \* read_buffer_
    refused,     \* the read callback returned false
    gone,        \* the publisher has given the connection up: it is destroyed
    c2s, s2c,    \* units on their way
    link         \* the server's end: "up", closed ("fin"), or reset ("rst")

threadVars == <<at, out, ready, owner>>
connVars == <<isClosed, queue, writing, registered, inbox, refused, gone>>
netVars == <<c2s, s2c, link>>
tcpVars == <<threadVars, connVars, netVars>>

Nobody == "nobody"

TcpInit == /\ at = [t \in Threads |-> IF t = "loop" THEN "select" ELSE "start"]
           /\ out = [t \in Threads |-> <<>>]
           /\ ready = {} /\ owner = Nobody
           /\ isClosed = FALSE /\ queue = <<>> /\ writing = FALSE /\ registered = FALSE
           /\ inbox = <<>> /\ refused = FALSE /\ gone = FALSE
           /\ c2s = <<>> /\ s2c = <<>> /\ link = "up"

Goes(t, here, there) == at[t] = here /\ at' = [at EXCEPT ![t] = there]

\* What a thread does when rest is left of what it has to send: it sends that, and
\* then returns.  The loop closes a connection whose callback failed, or goes on to
\* EVENT_OUT.  HandleWrite first looks whether the connection is closed: a thread at
\* "write" has seen it open, or is about to look.
After(t, rest, fails) ==
    CASE rest # <<>> -> "append"
      [] rest = <<>> /\ t # "loop" -> "done"
      [] rest = <<>> /\ t = "loop" /\ fails -> "shut"
      [] OTHER -> IF "OUT" \in ready /\ ~isClosed' THEN "write" ELSE "select"

Resumes(t, rest, fails) ==
    /\ out' = [out EXCEPT ![t] = rest]
    /\ at' = [at EXCEPT ![t] = After(t, rest, fails)]
    /\ ready' = IF t = "loop" /\ rest = <<>> THEN {} ELSE ready
-------------------------------------------------------------------------------
(* Sending.                                                                       *)

\* BufferWriter::Append, which drops what does not fit.
AppendedAlways(packet) == Append(queue, packet)  \* mutant

Appended(packet) == IF Len(queue) < MaxQueue THEN Append(queue, packet) ELSE queue

\* The queue when n of its units are written: packets go one after the other.
WrittenWhole(packets, n) == IF n = 0 THEN packets ELSE Tail(packets)  \* mutant

Written(packets, n) ==
    FoldLeft(LAMBDA x, packet :
               IF x.n >= Len(packet) THEN [x EXCEPT !.n = @ - Len(packet)]
               ELSE [n |-> 0, rest |-> Append(x.rest, SubSeq(packet, x.n + 1, Len(packet)))],
             [n |-> n, rest |-> <<>>], packets).rest

\* Close, under mutex_.  It does nothing the second time.  is_closed_ is set first:
\* what the close callback sends (DeleteStream) is not sent, and does not ask for
\* mutex_ again.
Closes(t) ==
    /\ isClosed' = TRUE
    /\ registered' = (registered /\ isClosed)
    /\ owner' = Nobody

\* Send puts the packet into the queue, unless the connection is closed.
Appends(t) ==
    /\ at[t] = "append"
    /\ UNCHANGED <<owner, isClosed, writing, registered, inbox, refused, gone, netVars>>
    /\ IF isClosed
         THEN Resumes(t, Tail(out[t]), refused) /\ UNCHANGED queue
         ELSE /\ owner = Nobody
              /\ queue' = Appended(Head(out[t]))
              /\ out' = [out EXCEPT ![t] = Tail(@)]
              /\ Goes(t, "append", "write")
              /\ UNCHANGED ready

\* HandleWrite, called by Send and for EVENT_OUT, tries the lock ...
GetsLock(t) ==
    /\ owner = Nobody /\ owner' = t
    /\ Goes(t, "write", "flush")
    /\ UNCHANGED <<out, ready, connVars, netVars>>

\* ... and leaves when another thread has it: one that writes, appends, or reads.
\* It also leaves when it looks after a close.
HandleWriteFails(t) ==
    /\ at[t] = "write"
    /\ isClosed \/ owner # Nobody \/ \E u \in Threads \ {t} : at[u] = "append"
    /\ UNCHANGED <<owner, isClosed, queue, writing, registered, inbox, refused, gone, netVars>>
    /\ Resumes(t, out[t], refused)

AsksNever(packets) == FALSE  \* mutant

\* Whether the channel asks for EVENT_OUT, with packets left.
Asks(packets) == packets # <<>>

\* It writes what there is room for, and asks for EVENT_OUT while something is
\* left; UpdateChannel registers a socket that is not registered, that of a
\* connection closed meanwhile too.  A server that has closed answers with a reset.
Flushes(t) ==
    LET units == FlattenSeq(queue)
        room == Room - Len(c2s)
        n == IF link = "fin" \/ Len(units) < room THEN Len(units) ELSE room
    IN  /\ at[t] = "flush"
        /\ link # "rst" \/ queue = <<>>
        /\ queue' = Written(queue, n)
        /\ writing' = Asks(queue')
        /\ registered' = (registered \/ writing' # writing)
        /\ IF link = "up" \/ n = 0
             THEN c2s' = c2s \o SubSeq(units, 1, n) /\ UNCHANGED link
             ELSE link' = "rst" /\ UNCHANGED c2s
        /\ owner' = Nobody
        /\ UNCHANGED <<isClosed, inbox, refused, gone, s2c>>
        /\ Resumes(t, out[t], refused)

\* After a reset, or with the socket closed by the destructor.
WriteFails(t) ==
    /\ at[t] = "flush"
    /\ link = "rst" \/ gone
    /\ queue # <<>>
    /\ Closes(t)
    /\ Resumes(t, out[t], refused)
    /\ UNCHANGED <<queue, writing, inbox, refused, gone, netVars>>

Sending(t) == \/ Appends(t) \/ GetsLock(t) \/ HandleWriteFails(t)
              \/ Flushes(t) \/ WriteFails(t)
-------------------------------------------------------------------------------
(* The loop.                                                                      *)

Events == (IF s2c # <<>> \/ link # "up" THEN {"IN"} ELSE {})
          \union (IF writing /\ (Len(c2s) < Room \/ link # "up") THEN {"OUT"} ELSE {})

\* HandleWrite of a closed connection does nothing.
Selects ==
    /\ registered
    /\ "IN" \in Events \/ ("OUT" \in Events /\ ~isClosed)
    /\ IF "IN" \in Events
         THEN Goes("loop", "select", "read") /\ ready' = Events \ {"IN"}
         ELSE Goes("loop", "select", "write") /\ ready' = {}
    /\ UNCHANGED <<out, owner, connVars, netVars>>

\* HandleRead under mutex_.
HandleRead ==
    /\ owner = Nobody /\ owner' = "loop"
    /\ Goes("loop", "read", "recv")
    /\ UNCHANGED <<out, ready, connVars, netVars>>

ReadsNothing ==
    /\ isClosed /\ at["loop"] = "recv"
    /\ owner' = Nobody
    /\ UNCHANGED <<connVars, netVars>>
    /\ Resumes("loop", <<>>, refused)

ReadFails ==
    /\ ~isClosed /\ at["loop"] = "recv" /\ link = "rst"
    /\ Closes("loop")
    /\ Resumes("loop", <<>>, refused)
    /\ UNCHANGED <<queue, writing, inbox, refused, gone, netVars>>

\* The n units it gets are put to what the callback has left; of that the callback
\* leaves rest, it sends packets, and returns ok.  A server's close ("fin") reads as
\* nothing, and is not looked at.
Reads(n, rest, packets, ok) ==
    /\ at["loop"] = "recv" /\ ~isClosed /\ link # "rst"
    /\ n > 0 \/ s2c = <<>>
    /\ s2c' = SubSeq(s2c, n + 1, Len(s2c))
    /\ inbox' = rest
    /\ refused' = ~ok
    /\ owner' = Nobody
    /\ UNCHANGED <<isClosed, queue, writing, registered, gone, c2s, link>>
    /\ Resumes("loop", packets, ~ok)

\* A callback that returns false closes the connection.
Shuts ==
    /\ owner = Nobody
    /\ Goes("loop", "shut", "select")
    /\ Closes("loop")
    /\ UNCHANGED <<out, ready, queue, writing, inbox, refused, gone, netVars>>

Looping == Selects \/ HandleRead \/ ReadsNothing \/ ReadFails \/ Shuts \/ Sending("loop")
-------------------------------------------------------------------------------
(* Letting go, by the thread that made the connection.  The loop may be in one of  *)
(* its handlers: in the read callback it has a reference of its own, otherwise what *)
(* it goes on with is destroyed.  It goes on as if the memory were what it was, and *)
(* its socket closed or not yet; a crash is an end of such a behaviour.              *)

DisConnects(t) ==
    /\ owner = Nobody
    /\ Goes(t, "disconnect", "drop")
    /\ Closes(t)
    /\ UNCHANGED <<out, ready, queue, writing, inbox, refused, gone, netVars>>

Drops(t) ==
    /\ Goes(t, "drop", "end")
    /\ gone' = TRUE
    /\ UNCHANGED <<out, ready, owner, isClosed, queue, writing, registered, inbox, refused, netVars>>
===============================================================================
