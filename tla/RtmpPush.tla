------------------------------- MODULE RtmpPush -------------------------------
(* Publishing a stream over RTMP: RtmpPushManager's Open and Close (the thread   *)
(* "open") and its two encoding threads push through RtmpPublisher on one        *)
(* TcpConnection, whose loop runs the client's RtmpConnection; at the other end  *)
(* the RTMP server's RtmpConnection, which is one step for each of its reads.    *)
(* What the server does with the media is in RtmpServer.                         *)
EXTENDS TcpConnection, RtmpChunk

CONSTANTS
    MaxVideo, MaxAudio   \* bounds: frames each encoding thread sends, one of them a key frame

ASSUME RtmpPushAssumption == /\ Senders = {"open", "video", "audio"}
                             /\ MaxVideo \in Nat /\ MaxAudio \in Nat

VARIABLES
    exit,         \* exit_
    hasKeyFrame,  \* has_key_frame_
    pushed,       \* the frames a thread has encoded
    client, svr,  \* the two RtmpConnections
    built,        \* how far the constructor of the server's has come
    dropped       \* history: a packet found the queue full

pushVars == <<exit, hasKeyFrame, pushed>>
rtmpVars == <<client, svr, built>>
vars == <<tcpVars, pushVars, rtmpVars, dropped>>

DefaultSize == 1         \* 128 in the code
ChunkSize == 2           \* max_chunk_size_, 60000

\* A connection: the state of its handshake, state_, whether it is (or, for the
\* server, has) a publisher, its readers and its out_chunk_size_, and of one call
\* of OnRead the packets it sends and whether it succeeds.  The name a server's
\* client asks for may be taken.
NewConnection(hs, taken) ==
    [hs |-> hs, state |-> "HANDSHAKE", publishing |-> FALSE,
     reader |-> NewReader(DefaultSize), size |-> DefaultSize,
     out |-> <<>>, ok |-> TRUE, taken |-> taken, delivered |-> <<>>]

InitWith(progress) ==
    /\ TcpInit
    /\ exit = FALSE /\ hasKeyFrame = FALSE
    /\ pushed = [t \in {"video", "audio"} |-> 0]
    /\ client = NewConnection("S0S1S2", FALSE)
    /\ \E taken \in BOOLEAN : svr = NewConnection("C0C1", taken)
    /\ built = progress
    /\ dropped = FALSE

Init == InitWith("done")
-------------------------------------------------------------------------------
(* Messages.                                                                      *)

SetChunkSize == Message(2, 1, "chunk_size")
Connect == Message(3, 2, "connect")
CreateStream == Message(3, 1, "createStream")
Publish == Message(3, 1, "publish")
AvcHeader == Message(5, 1, "avc")
AacHeader == Message(4, 1, "aac")
Picture(key) == Message(5, IF key THEN 3 ELSE 1, IF key THEN "key" ELSE "inter")
Sound == Message(4, 1, "sound")

Media == {AvcHeader, AacHeader, Picture(TRUE), Picture(FALSE), Sound}

Acknowledgement == Message(2, 1, "ack")
PeerBandWidth == Message(2, 1, "bandwidth")
ConnectResult == Message(3, 2, "_result")
CreateStreamResult == Message(3, 1, "_result")
OnStatus(code) == Message(3, 1, code)

\* No message is None.
ASSUME NoneAssumption ==
    None \notin Media \union {SetChunkSize, Connect, CreateStream, Publish, Acknowledgement,
                             PeerBandWidth, ConnectResult, CreateStreamResult, Garbled,
                             OnStatus("Start"), OnStatus("BadName")}

\* SendRtmpChunks.
Sends(c, m) == [c EXCEPT !.out = Append(@, CreateChunk(m, c.size))]

SendsChunkSize(c) == Sends([c EXCEPT !.size = ChunkSize], SetChunkSize)

SetInChunkSize(c) == [c EXCEPT !.reader.size = ChunkSize]

\* The handshake's packets.
Greeting(name, n) == [i \in 1 .. n |-> [unit |-> name, no |-> i]]
C0C1 == Greeting("C0C1", 2)
S0S1S2 == Greeting("S0S1S2", 2)
C2 == Greeting("C2", 1)

Awaited == [C0C1 |-> 2, S0S1S2 |-> 2, C2 |-> 1]

Arrived(c) == Len(c.reader.buf) >= Awaited[c.hs]

\* RtmpHandshake::Parse, and what the caller sends of it.  Both ends send version 3.
Shakes(c) ==
    LET d == [c EXCEPT !.reader = Used(@, Awaited[c.hs])]
    IN  CASE c.hs = "C0C1" -> [d EXCEPT !.hs = "C2", !.out = <<S0S1S2>>]
          [] c.hs = "C2" -> [d EXCEPT !.hs = "COMPLETE"]
          [] c.hs = "S0S1S2" -> [d EXCEPT !.hs = "COMPLETE", !.out = <<C2>>]
-------------------------------------------------------------------------------
(* The client's connection.                                                       *)

HandleResultOnce(c) ==  \* mutant
    IF c.state # "START_CONNECT" THEN c
    ELSE Sends([c EXCEPT !.state = "START_CREATE_STREAM"], CreateStream)

HandleResult(c) ==
    CASE c.state = "START_CONNECT" ->
           Sends([c EXCEPT !.state = "START_CREATE_STREAM"], CreateStream)
      [] c.state = "START_CREATE_STREAM" ->
           Sends([c EXCEPT !.state = "START_PUBLISH"], Publish)
      [] OTHER -> c

HandleOnStatus(c, code) ==
    IF c.state # "START_PUBLISH" THEN c
    ELSE [c EXCEPT !.publishing = (code = "Start"), !.ok = (code = "Start")]

ClientHandles(c, m) ==
    CASE m = SetChunkSize -> SetInChunkSize(c)
      [] m \in {ConnectResult, CreateStreamResult} -> HandleResult(c)
      [] m \in {OnStatus("Start"), OnStatus("BadName")} -> HandleOnStatus(c, m.body)
      [] m = Garbled -> [c EXCEPT !.ok = FALSE]
      [] OTHER -> c

\* When the handshake is complete: SetChunkSize and Connect.
Asking(c) == Sends(SendsChunkSize([c EXCEPT !.state = "START_CONNECT"]), Connect)

ClientHandleChunk(c) == HandleChunk(c, ClientHandles)

ClientOnRead(c) ==
    IF c.hs = "COMPLETE" THEN ClientHandleChunk(c)
    ELSE IF ~Arrived(c) THEN c
    ELSE Once(ClientHandleChunk(Shakes(c)), Asking)

\* The read callback.
OnRead ==
    /\ UNCHANGED <<pushVars, svr, built, dropped>>
    /\ \E n \in 0 .. Len(s2c) :
         \E c \in {ClientOnRead([client EXCEPT !.reader.buf = inbox \o SubSeq(s2c, 1, n)])} :
             /\ Reads(n, c.reader.buf, c.out, c.ok)
             /\ client' = [c EXCEPT !.reader.buf = <<>>, !.out = <<>>, !.ok = TRUE]
-------------------------------------------------------------------------------
(* The server's.                                                                  *)

HandleConnect(c) ==
    Sends(SendsChunkSize(Sends(Sends(c, Acknowledgement), PeerBandWidth)), ConnectResult)

HandlePublish(c) ==
    IF c.taken THEN [Sends(c, OnStatus("BadName")) EXCEPT !.ok = FALSE]
    ELSE [Sends(c, OnStatus("Start")) EXCEPT !.publishing = TRUE]

\* Media without a session make HandleVideo and HandleAudio fail.
ServerHandles(c, m) ==
    LET d == [c EXCEPT !.delivered = Append(@, m)]
    IN  CASE m = SetChunkSize -> SetInChunkSize(d)
          [] m = Connect -> HandleConnect(d)
          [] m = CreateStream -> Sends(d, CreateStreamResult)
          [] m = Publish -> HandlePublish(d)
          [] m \in Media -> [d EXCEPT !.ok = d.publishing]
          [] OTHER -> [d EXCEPT !.ok = FALSE]

ServerHandleChunk(c) == HandleChunk(c, ServerHandles)

\* What follows C2 in the same read is handled at once.
HandlesRest(c) == IF c.hs = "COMPLETE" THEN ServerHandleChunk(c) ELSE c

ServerOnRead(c) ==
    IF c.hs = "COMPLETE" THEN ServerHandleChunk(c)
    ELSE IF ~Arrived(c) THEN c
    ELSE Once(Shakes(c), HandlesRest)

\* The server's socket is closed, with a reset if something was still to be read.
ServerCloses(unread) ==
    /\ link' = IF unread = <<>> THEN "fin" ELSE "rst"
    /\ c2s' = <<>>

\* The server reads what has come.
ServerReads ==
    /\ built = "done" /\ link = "up" /\ c2s # <<>>
    /\ UNCHANGED <<threadVars, connVars, pushVars, client, built, dropped>>
    /\ \E c \in {ServerOnRead([svr EXCEPT !.reader.buf = @ \o c2s])} :
         /\ svr' = [c EXCEPT !.out = <<>>]
         /\ s2c' = s2c \o FlattenSeq(c.out)
         /\ IF c.ok THEN c2s' = <<>> /\ UNCHANGED link ELSE ServerCloses(<<>>)

ServerLeaves ==
    /\ link = "up"
    /\ ServerCloses(c2s)
    /\ UNCHANGED <<threadVars, connVars, s2c, pushVars, rtmpVars, dropped>>

\* recv returns 0.
ServerSeesEnd ==
    /\ gone /\ c2s = <<>>
    /\ ServerLeaves

\* TcpConnection's constructor registers the socket with its loop, which is not the
\* acceptor's: it may read before RtmpConnection's constructor has set the read
\* callback, and before shared_from_this() is possible, when it throws.
OnAccept ==
    /\ built = "listening" /\ registered
    /\ built' = "registered"
    /\ UNCHANGED <<tcpVars, pushVars, client, svr, dropped>>

ServerBuilds ==
    /\ built' = IF built = "registered" THEN "callbacks" ELSE "done"
    /\ built \in {"registered", "callbacks"}
    /\ UNCHANGED <<tcpVars, pushVars, client, svr, dropped>>

ServerReadsTooEarly ==
    /\ built \in {"registered", "callbacks"} /\ link = "up" /\ c2s # <<>>
    /\ svr' = [svr EXCEPT !.reader.buf = @ \o c2s]
    /\ c2s' = <<>>
    /\ built' = IF built = "registered" THEN built ELSE "thrown"
    /\ UNCHANGED <<threadVars, connVars, s2c, link, pushVars, client, dropped>>
-------------------------------------------------------------------------------
(* RtmpPushManager::Open and Close.                                               *)

\* OpenUrl: the connection is registered, and C0C1 sent.
OpenUrl ==
    /\ Goes("open", "start", "append")
    /\ registered' = TRUE
    /\ out' = [out EXCEPT !["open"] = <<C0C1>>]
    /\ UNCHANGED <<ready, owner, isClosed, queue, writing, inbox, refused, gone,
                   netVars, pushVars, rtmpVars, dropped>>

\* OnClose resets is_publishing_.
IsPublishing == client.publishing /\ ~isClosed

\* The encoding threads start when the server has accepted the stream ...
Opened ==
    /\ at["open"] = "done" /\ IsPublishing
    /\ at' = [at EXCEPT !["open"] = "stream", !["video"] = "frame", !["audio"] = "frame"]
    /\ UNCHANGED <<out, ready, owner, connVars, netVars, pushVars, rtmpVars, dropped>>

\* ... and Open fails when the connection is closed, or in any case after 5 s.
Leaves(here) ==
    /\ Goes("open", here, "join")
    /\ exit' = TRUE
    /\ UNCHANGED <<out, ready, owner, connVars, netVars, hasKeyFrame, pushed, rtmpVars, dropped>>

NotConnected == isClosed /\ Leaves("done")

TimesOut == ~IsPublishing /\ Leaves("done")

Stops == Leaves("stream")

\* Close joins the threads, then disconnects if that is still to be done.
StopEncoder ==
    /\ at["video"] \in {"start", "end"} /\ at["audio"] \in {"start", "end"}
    /\ Goes("open", "join", IF isClosed THEN "drop" ELSE "disconnect")
    /\ UNCHANGED <<out, ready, owner, connVars, netVars, pushVars, rtmpVars, dropped>>

Closing == /\ StopEncoder \/ DisConnects("open") \/ Drops("open")
           /\ UNCHANGED <<pushVars, rtmpVars, dropped>>
-------------------------------------------------------------------------------
(* EncodeVideo and EncodeAudio.                                                   *)

Pushes(t, messages) ==
    /\ ~exit /\ ~isClosed
    /\ Goes(t, "frame", "append")
    /\ out' = [out EXCEPT ![t] = [i \in DOMAIN messages |-> CreateChunk(messages[i], client.size)]]
    /\ pushed' = [pushed EXCEPT ![t] = @ + 1]
    /\ UNCHANGED <<ready, owner, connVars, netVars, exit, rtmpVars, dropped>>

HeadersAfter == <<Picture(TRUE), AvcHeader, AacHeader>>  \* mutant

\* The first key frame's packets, and those of a later picture.
FirstPackets == <<AvcHeader, AacHeader, Picture(TRUE)>>

\* What comes before the first key frame is not sent.
PushVideoFrame ==
    /\ pushed["video"] < MaxVideo
    /\ hasKeyFrame' = TRUE
    /\ Pushes("video", IF hasKeyFrame THEN <<Picture(FALSE)>> ELSE FirstPackets)

PushAudioFrame ==
    /\ pushed["audio"] < MaxAudio
    /\ hasKeyFrame /\ UNCHANGED hasKeyFrame
    /\ Pushes("audio", <<Sound>>)

\* A thread's frame is pushed, or it sees exit_.
NextFrame(t) ==
    /\ Goes(t, "done", "frame")
    /\ UNCHANGED <<out, ready, owner, connVars, netVars, pushVars, rtmpVars, dropped>>

Finishes(t) ==
    /\ exit
    /\ Goes(t, "frame", "end")
    /\ UNCHANGED <<out, ready, owner, connVars, netVars, pushVars, rtmpVars, dropped>>

Encoding(t) == NextFrame(t) \/ Finishes(t)
-------------------------------------------------------------------------------
\* A packet finds the queue full.
Overflows(t) == at[t] = "append" /\ ~isClosed /\ Len(queue) = MaxQueue

Transmits(t) == /\ Sending(t)
                /\ dropped' = (dropped \/ Overflows(t))
                /\ UNCHANGED <<pushVars, rtmpVars>>

Loops == \/ Looping /\ dropped' = (dropped \/ Overflows("loop")) /\ UNCHANGED <<pushVars, rtmpVars>>
         \/ OnRead

Serves == ServerReads \/ ServerSeesEnd

\* What a thread does by itself.
Thread(t) ==
    \/ Transmits(t)
    \/ t = "open" /\ (Opened \/ NotConnected \/ Closing)
    \/ t # "open" /\ Encoding(t)

Next ==
    \/ OpenUrl \/ TimesOut \/ Stops
    \/ PushVideoFrame \/ PushAudioFrame
    \/ \E t \in Senders : Thread(t)
    \/ Loops
    \/ Serves \/ ServerLeaves

Spec == Init /\ [][Next]_vars

\* With the server's acceptance of the connection.
SpecWhileBuilding ==
    InitWith("listening") /\ [][Next \/ OnAccept \/ ServerBuilds \/ ServerReadsTooEarly]_vars

\* Both loops turn for ever and threads run; a thread that waits for mutex_ gets it
\* if it is freed again and again.  Frames, users, the time-out and the server's
\* departure may never come.
Fairness ==
    /\ WF_vars(Loops)
    /\ WF_vars(Serves)
    /\ \A t \in Senders : SF_vars(Thread(t))

FairSpec == Spec /\ Fairness
-------------------------------------------------------------------------------
(* Properties.                                                                    *)

\* The client's own callback gives up while no other thread is about to send: the
\* server refuses a stream before the encoding threads start, and nothing later.
RefusedAlone ==
    at["loop"] = "shut" => \A t \in Senders : at[t] \notin {"append", "write", "flush"}

\* The ranges of the state and the limits of the queue and of the socket; and
\* RefusedAlone, which the proofs about closing start from.
TypeOK ==
    /\ at \in [Threads -> {"start", "append", "write", "flush", "done", "select", "read",
                           "recv", "shut", "frame", "stream", "join", "disconnect",
                           "drop", "end"}]
    /\ ready \subseteq {"OUT"} /\ owner \in Threads \union {Nobody}
    /\ \A b \in {isClosed, writing, registered, refused, gone, exit, hasKeyFrame, dropped} :
          b \in BOOLEAN
    /\ Len(queue) <= MaxQueue /\ Len(c2s) <= Room /\ link \in {"up", "fin", "rst"}
    /\ client.state \in {"HANDSHAKE", "START_CONNECT", "START_CREATE_STREAM", "START_PUBLISH"}
    /\ built \in {"listening", "registered", "callbacks", "done", "thrown"}
    /\ RefusedAlone

\* Nobody will write what the queue of a closed connection has left.
Abandoned == isClosed /\ \A t \in Threads : at[t] \notin {"write", "flush"}

\* The messages the client sent that the server has not handled: in its reader,
\* between the two, in the write queue.
inTransit ==
    IF link # "up" THEN <<>>
    ELSE Ended(svr.reader.buf \o c2s \o IF Abandoned THEN <<>> ELSE FlattenSeq(queue))

Channel == INSTANCE MessageChannel WITH
    delivered <- svr.delivered, broken <- (isClosed \/ link # "up")

\* What three threads put into chunks and packets, and partial writes and reads cut
\* anywhere, comes out of the server's reader as the same messages in the same order.
ImplementsMessageChannel == Channel!Spec

Before(i, m) == \E j \in 1 .. i - 1 : svr.delivered[j] = m

\* Media reach the server after the request to publish (WORKLOG.md: "preventing
\* audio/video data from being sent before the RTMP server accepts the publisher"),
\* a picture after a key frame (or it is one), a key frame after both headers, unless
\* a full queue has dropped packets.
HeadersFirst ==
    \A i \in DOMAIN svr.delivered :
        /\ svr.delivered[i] \in Media => Before(i, Publish) /\ svr.publishing
        /\ ~dropped /\ svr.delivered[i] = Picture(FALSE) => Before(i, Picture(TRUE))
        /\ ~dropped /\ svr.delivered[i] = Picture(TRUE) =>
             Before(i, AvcHeader) /\ Before(i, AacHeader)

\* The server's connection throws no std::bad_weak_ptr (WORKLOG.md lists it among
\* what a connection must go without).
NoBadWeakPtr == built # "thrown"

\* A name that is free is published, and one that is taken refused, while the
\* server stays; nobody has to wait for the time-out.
PublishAnswered ==
    (at["open"] = "done" /\ link = "up") ~> (at["open"] # "done" \/ link # "up")

\* What is in the queue is written, though HandleWrite does not wait for mutex_ and
\* the socket may have no room, unless the connection closes or the server leaves.
QueuedIsSent == (queue # <<>>) ~> (queue = <<>> \/ isClosed \/ link # "up")
===============================================================================
