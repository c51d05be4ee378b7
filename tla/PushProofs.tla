---------------------------- MODULE PushProofs ----------------------------
(*************************************************************************)
(* Proofs about RtmpPush, the third part: the invariant of the whole system *)
(* and what follows from it.  For any number of frames and any size of the *)
(* write queue and of the socket's buffer, the server handles headers before *)
(* the frames that need them, and what the threads send is delivered as by a *)
(* channel of messages, though the connection is closed and released while  *)
(* its loop may be at work on it.                                          *)
(*************************************************************************)
EXTENDS ReadProofs

----------------------------------------------------------------------------
\* The statements of the threads.
Stages == {"start", "append", "write", "flush", "done", "select", "read", "recv", "shut",
           "frame", "stream", "join", "disconnect", "drop", "end"}

\* What every variable ranges over.
Shape ==
    /\ at \in [Threads -> Stages] /\ ready \subseteq {"OUT"}
    /\ owner \in Threads \union {Nobody} /\ out \in [Threads -> Seq(Wires)]
    /\ isClosed \in BOOLEAN /\ writing \in BOOLEAN /\ registered \in BOOLEAN
    /\ refused \in BOOLEAN /\ gone \in BOOLEAN /\ exit \in BOOLEAN
    /\ hasKeyFrame \in BOOLEAN /\ dropped \in BOOLEAN
    /\ queue \in Seq(Wires) /\ Len(queue) <= MaxQueue
    /\ c2s \in Streams /\ Len(c2s) <= Room /\ s2c \in Streams /\ inbox \in Streams
    /\ link \in {"up", "fin", "rst"} /\ built = "done"

\* Of a connection that is not in OnRead.
Resting ==
    /\ Connected(client) /\ client.reader.buf = <<>> /\ client.out = <<>> /\ client.ok
    /\ client.reader.size \in {1, 2}
    /\ Connected(svr) /\ svr.out = <<>>

\* A thread has packets in hand only while it sends.
Hands ==
    /\ \A t \in Threads : at[t] = "append" => out[t] # <<>>
    /\ at["loop"] \in {"select", "read", "recv", "shut"} => out["loop"] = <<>>
    /\ \A t \in {"video", "audio"} : at[t] \in {"start", "frame", "done", "end"} => out[t] = <<>>
    /\ at["open"] # "append" => out["open"] = <<>>

\* The publisher is accepted at one end after the other, and no frame is sent before both;
\* a refused one has found its name taken.
Answers ==
    /\ client.publishing => svr.publishing
    /\ svr.publishing => ~ svr.taken /\ Publish \in Range(svr.delivered)
    /\ ~ client.publishing => at["video"] = "start" /\ at["audio"] = "start" /\ ~ hasKeyFrame
    /\ refused => svr.taken
    /\ at["loop"] = "shut" => refused
    /\ link = "up" => svr.ok

\* Until OpenUrl has sent C0C1, nothing but it is on its way.
Opening ==
    /\ at["open"] \in {"start", "append", "write", "flush", "done"} =>
         at["video"] = "start" /\ at["audio"] = "start" /\ ~ hasKeyFrame
    /\ at["open"] \in {"start", "append", "write", "flush"} =>
         /\ svr.hs = "C0C1" /\ svr.reader.buf = <<>>
         /\ s2c = <<>> /\ inbox = <<>> /\ c2s = <<>> /\ client.hs = "S0S1S2" /\ ~ refused
         /\ at["loop"] \in {"select", "read", "recv"} /\ ready = {} /\ ~ writing
         /\ at["open"] \in {"start", "append"} => queue = <<>>
         /\ at["open"] = "append" => out["open"] = <<C0C1>>

\* What the server has answered and the client not handled.
Heard(Q) ==
    /\ Q \in Seq(FromServer) /\ Receives(s2c, Q) /\ SizesOK(Q, client.reader.size)
    /\ OnStatus("BadName") \in Range(Q) => svr.taken
    /\ OnStatus("Start") \in Range(Q) => svr.publishing

\* The way from the server: the client follows the handshake, and what is on its way to it
\* are the server's answers.
Downstream ==
    /\ client.hs = "S0S1S2" => client = NewConnection("S0S1S2", FALSE)
    /\ client.hs # "S0S1S2" => client.hs = "COMPLETE" /\ client.size = 2 /\ svr.hs # "C0C1"
    /\ svr.hs = "C0C1" => inbox = <<>> /\ s2c = <<>>
    /\ svr.hs # "C0C1" => \E Q : Heard(Q)

\* The way to the server: with the packets in the queue, on the wire and in the threads' hands
\* it is the messages that Flows tells of.
Upstream ==
    /\ svr.hs \in {"C0C1", "C2", "COMPLETE"}
    /\ link = "up" =>
         \E V \in Seq(Media), A \in Seq({Sound}) :
           /\ out["video"] = Packets(V) /\ out["audio"] = Packets(A)
           /\ Flows(client.hs, svr, out["loop"], isClosed, dropped, hasKeyFrame,
                    c2s \o FlattenSeq(queue), V)

\* What the server has handled came in order.
InOrder == First(svr.delivered, svr.publishing, dropped)

\* The invariant.
PushInv ==
    /\ Shape /\ Resting /\ Hands /\ Answers /\ Opening
    /\ Downstream /\ Upstream /\ InOrder

\* The threads, spelt out.
LEMMA ThreadsAre ==
    /\ Threads = {"open", "video", "audio", "loop"}
    /\ Senders = {"open", "video", "audio"}
BY RtmpPushAssumption DEF Threads

\* Nothing but the flags changes: a packet was lost, or the connection closed, or a key frame
\* is no longer promised.
LEMMA FlowsStays ==
    ASSUME NEW hs, NEW sv, NEW loop, NEW closed, NEW lost, NEW key, NEW way, NEW V,
           Flows(hs, sv, loop, closed, lost, key, way, V),
           NEW closed2, NEW lost2, NEW key2,
           closed => closed2, lost => lost2, key2 => key
    PROVE  Flows(hs, sv, loop, closed2, lost2, key2, way, V)
<1>1. PICK L \in Seq(Requests) :
        \/ hs = "COMPLETE" /\ Broken(sv, loop, way, L)
        \/ \E P \in Seq(FromClient) :
             /\ Sane(Range(sv.delivered), sv.publishing, P, V, closed, lost, key)
             /\ Spoken(hs, sv, loop, closed, way, P, L)
  BY DEF Flows
<1>2. CASE hs = "COMPLETE" /\ Broken(sv, loop, way, L)
  BY <1>2 DEF Flows
<1>3. ASSUME NEW P \in Seq(FromClient),
             Sane(Range(sv.delivered), sv.publishing, P, V, closed, lost, key),
             Spoken(hs, sv, loop, closed, way, P, L)
      PROVE  Flows(hs, sv, loop, closed2, lost2, key2, way, V)
  <2>1. Sane(Range(sv.delivered), sv.publishing, P, V, closed2, lost2, key2)
    BY <1>3 DEF Sane
  <2>2. Spoken(hs, sv, loop, closed2, way, P, L)
    BY <1>3 DEF Spoken, Entering
  <2>3. QED
    BY <2>1, <2>2 DEF Flows
<1>4. QED
  BY <1>1, <1>2, <1>3

\* What a step that moves nothing between the two ends leaves as it is.
LEMMA Afar ==
    ASSUME PushInv, UNCHANGED <<client, svr, inbox, s2c>>, dropped => dropped'
    PROVE  Resting' /\ Downstream' /\ InOrder'
<1>1. Resting'
  BY DEF PushInv, Resting
<1>2. Downstream'
  BY DEF PushInv, Downstream, Heard, Receives
<1>3. InOrder'
  BY DEF PushInv, InOrder, First
<1>4. QED
  BY <1>1, <1>2, <1>3

\* ... and what leaves the packets on their way as they are.
LEMMA UpstreamStays ==
    ASSUME PushInv, UNCHANGED <<client, svr>>,
           out'["video"] = out["video"], out'["audio"] = out["audio"], out'["loop"] = out["loop"],
           dropped => dropped', isClosed => isClosed', hasKeyFrame' => hasKeyFrame,
           link' = "up" => /\ link = "up"
                           /\ c2s' \o FlattenSeq(queue') = c2s \o FlattenSeq(queue)
    PROVE  Upstream'
<1>1. svr.hs \in {"C0C1", "C2", "COMPLETE"}
  BY DEF PushInv, Upstream
<1>2. ASSUME link' = "up"
      PROVE  \E V \in Seq(Media), A \in Seq({Sound}) :
               /\ out'["video"] = Packets(V) /\ out'["audio"] = Packets(A)
               /\ Flows(client'.hs, svr', out'["loop"], isClosed', dropped', hasKeyFrame',
                        c2s' \o FlattenSeq(queue'), V)
  <2>1. PICK V \in Seq(Media), A \in Seq({Sound}) :
          /\ out["video"] = Packets(V) /\ out["audio"] = Packets(A)
          /\ Flows(client.hs, svr, out["loop"], isClosed, dropped, hasKeyFrame,
                   c2s \o FlattenSeq(queue), V)
    BY <1>2 DEF PushInv, Upstream
  <2> DEFINE way == c2s \o FlattenSeq(queue)
             h == client.hs
             loop == out["loop"]
  <2>2. Flows(h, svr, loop, isClosed, dropped, hasKeyFrame, way, V)
    BY <2>1
  <2> HIDE DEF way, h, loop
  <2>3. Flows(h, svr, loop, isClosed', dropped', hasKeyFrame', way, V)
    BY <2>2, FlowsStays
  <2>4. way = c2s' \o FlattenSeq(queue')
    BY <1>2 DEF way
  <2>5. QED
    BY <2>1, <2>3, <2>4 DEF h, loop
<1>3. QED
  BY <1>1, <1>2 DEF Upstream

\* Opening and closing.
LEMMA OpenUrlHolds ==
    ASSUME PushInv, OpenUrl
    PROVE  PushInv'
<1>1. /\ at["open"] = "start" /\ at' = [at EXCEPT !["open"] = "append"]
      /\ out' = [out EXCEPT !["open"] = <<C0C1>>] /\ registered' = TRUE
      /\ UNCHANGED <<ready, owner, isClosed, queue, writing, inbox, refused, gone, c2s, s2c,
                     link, exit, hasKeyFrame, client, svr, built, dropped>>
  BY DEF OpenUrl, Goes, netVars, pushVars, rtmpVars
<1>2. <<C0C1>> \in Seq(Wires) /\ <<C0C1>> # <<>>
  BY GreetingsAre
<1>3. Shape'
  BY <1>1, <1>2, ThreadsAre DEF PushInv, Shape, Stages
<1>4. Hands'
  BY <1>1, <1>2, ThreadsAre DEF PushInv, Shape, Hands
<1>5. Answers'
  BY <1>1, ThreadsAre DEF PushInv, Shape, Answers
<1>6. Opening'
  BY <1>1, ThreadsAre DEF PushInv, Shape, Opening
<1>7. Resting' /\ Downstream' /\ InOrder'
  BY <1>1, Afar
<1>8. Upstream'
  <2>1. out'["video"] = out["video"] /\ out'["audio"] = out["audio"] /\ out'["loop"] = out["loop"]
    BY <1>1, ThreadsAre DEF PushInv, Shape
  <2>2. QED
    BY <1>1, <2>1, UpstreamStays
<1>9. QED
  BY <1>3, <1>4, <1>5, <1>6, <1>7, <1>8 DEF PushInv

\* A thread's statement that moves no packets.
LEMMA ControlHolds ==
    ASSUME PushInv,
           UNCHANGED <<out, queue, writing, inbox, c2s, s2c, link, hasKeyFrame, client, svr,
                       built, dropped, refused>>,
           at' \in [Threads -> Stages], ready' \subseteq {"OUT"},
           owner' \in Threads \union {Nobody}, isClosed' \in BOOLEAN, registered' \in BOOLEAN,
           gone' \in BOOLEAN, exit' \in BOOLEAN, isClosed => isClosed', 
           Hands', Answers', Opening'
    PROVE  PushInv'
<1>1. Shape'
  BY DEF PushInv, Shape
<1>2. Resting' /\ Downstream' /\ InOrder'
  BY Afar
<1>3. Upstream'
  BY UpstreamStays
<1>4. QED
  BY <1>1, <1>2, <1>3 DEF PushInv

\* Opening and closing after OpenUrl.
LEMMA OpenCloseHolds ==
    ASSUME PushInv, Opened \/ TimesOut \/ Stops \/ NotConnected \/ Closing
    PROVE  PushInv'
<1>1. CASE Opened
  <2>1. /\ at["open"] = "done" /\ client.publishing
        /\ at' = [at EXCEPT !["open"] = "stream", !["video"] = "frame", !["audio"] = "frame"]
        /\ UNCHANGED <<out, ready, owner, isClosed, queue, writing, registered, inbox, refused,
                       gone, c2s, s2c, link, exit, hasKeyFrame, client, svr, built, dropped>>
    BY <1>1 DEF Opened, IsPublishing, connVars, netVars, pushVars, rtmpVars
  <2>2. at' \in [Threads -> Stages]
    BY <2>1, ThreadsAre DEF PushInv, Shape, Stages
  <2>3. Hands'
    BY <2>1, ThreadsAre DEF PushInv, Shape, Hands, Opening
  <2>4. Answers' /\ Opening'
    BY <2>1, ThreadsAre DEF PushInv, Shape, Answers, Opening
  <2>5. QED
    BY <2>1, <2>2, <2>3, <2>4, ControlHolds DEF PushInv, Shape
<1>2. CASE TimesOut \/ Stops \/ NotConnected \/ Closing
  <2>1. PICK s \in {"join", "disconnect", "drop", "end"} :
          /\ at["open"] \in {"done", "stream", "join", "disconnect", "drop"}
          /\ at' = [at EXCEPT !["open"] = s]
          /\ isClosed' \in BOOLEAN /\ registered' \in BOOLEAN /\ gone' \in BOOLEAN
          /\ exit' \in BOOLEAN /\ owner' \in {owner, Nobody}
          /\ isClosed => isClosed'
          /\ UNCHANGED <<out, ready, queue, writing, inbox, refused,
                         c2s, s2c, link, hasKeyFrame, client, svr, built, dropped>>
    BY <1>2 DEF TimesOut, Stops, NotConnected, Leaves, Closing, StopEncoder, DisConnects, Drops,
       Closes, Goes, connVars, netVars, pushVars, rtmpVars, PushInv, Shape
  <2>2. at' \in [Threads -> Stages]
    BY <2>1, ThreadsAre DEF PushInv, Shape, Stages
  <2>3. Hands'
    BY <2>1, ThreadsAre DEF PushInv, Shape, Hands
  <2>4. Answers' /\ Opening'
    BY <2>1, ThreadsAre DEF PushInv, Shape, Answers, Opening
  <2>5. QED
    BY <2>1, <2>2, <2>3, <2>4, ControlHolds DEF PushInv, Shape
<1>3. QED
  BY <1>1, <1>2

\* An encoding thread, but for what it pushes.
LEMMA EncodingHolds ==
    ASSUME PushInv, NEW t \in {"video", "audio"}, Encoding(t)
    PROVE  PushInv'
<1>1. PICK s \in {"frame", "end"} :
        /\ at[t] \in {"done", "frame"} /\ at' = [at EXCEPT ![t] = s]
        /\ UNCHANGED <<out, ready, owner, isClosed, queue, writing, registered, inbox, refused,
                       gone, c2s, s2c, link, exit, hasKeyFrame, client, svr, built, dropped>>
  BY DEF Encoding, NextFrame, Finishes, Goes, connVars, netVars, pushVars, rtmpVars
<1>2. at' \in [Threads -> Stages]
  BY <1>1, ThreadsAre DEF PushInv, Shape, Stages
<1>3. Hands'
  BY <1>1, ThreadsAre DEF PushInv, Shape, Hands
<1>4. Answers' /\ Opening'
  BY <1>1, ThreadsAre DEF PushInv, Shape, Answers, Opening
<1>5. QED
  BY <1>1, <1>2, <1>3, <1>4, ControlHolds DEF PushInv, Shape

\* Where a thread goes on.
LEMMA AfterIs ==
    ASSUME NEW t \in Threads, NEW rest, NEW fails
    PROVE  /\ After(t, rest, fails) \in Stages
           /\ After(t, rest, fails) = "append" <=> rest # <<>>
           /\ t # "loop" => After(t, rest, fails) \in {"append", "done"}
           /\ t = "loop" => After(t, rest, fails) \in {"append", "shut", "write", "select"}
           /\ After(t, rest, fails) = "shut" => fails
           /\ t = "loop" /\ rest = <<>> /\ ~ fails /\ ready = {} =>
                After(t, rest, fails) = "select"
BY DEF After, Stages

\* The loop, where it neither sends nor reads.
LEMMA LoopHolds ==
    ASSUME PushInv, dropped' = dropped, UNCHANGED <<pushVars, rtmpVars>>,
           Selects \/ HandleRead \/ ReadsNothing \/ ReadFails \/ Shuts
    PROVE  PushInv'
<1> DEFINE Turns(s) ==
             /\ at["loop"] \in {"select", "read", "recv", "shut"}
             /\ at' = [at EXCEPT !["loop"] = s]
             /\ s = "shut" => refused
             /\ at["open"] \in {"start", "append", "write", "flush"} =>
                  s \in {"select", "read", "recv"}
             /\ ready' \subseteq {"OUT"}
             /\ ~ writing /\ ready = {} => ready' = {}
             /\ owner' \in Threads \union {Nobody}
             /\ isClosed' \in BOOLEAN /\ registered' \in BOOLEAN
             /\ isClosed => isClosed'
             /\ UNCHANGED <<out, queue, writing, inbox, refused, gone, exit,
                            c2s, s2c, link, hasKeyFrame, client, svr, built, dropped>>
<1>0. \E s \in {"read", "write", "select", "shut", "recv"} : Turns(s)
  <2>1. CASE Selects
    <3>1. PICK s \in {"read", "write"} :
            /\ at["loop"] = "select" /\ at' = [at EXCEPT !["loop"] = s]
            /\ ready' \subseteq {"OUT"}
            /\ ~ writing => ready' = {} /\ s = "read"
            /\ UNCHANGED <<out, owner, isClosed, queue, writing, registered, inbox, refused,
                           gone, exit, c2s, s2c, link, hasKeyFrame, client, svr, built, dropped>>
      BY <2>1 DEF Selects, Events, Goes, connVars, netVars, pushVars, rtmpVars
    <3>2. at["open"] \in {"start", "append", "write", "flush"} => s = "read"
      BY <3>1 DEF PushInv, Opening
    <3>3. owner' \in Threads \union {Nobody} /\ isClosed' \in BOOLEAN /\ registered' \in BOOLEAN
      BY <3>1 DEF PushInv, Shape
    <3>4. Turns(s)
      BY <3>1, <3>2, <3>3
    <3>5. QED
      BY <3>4
  <2>2. CASE HandleRead
    <3>1. /\ at["loop"] = "read" /\ at' = [at EXCEPT !["loop"] = "recv"] /\ owner' = "loop"
          /\ UNCHANGED <<out, ready, isClosed, queue, writing, registered, inbox, refused,
                         gone, exit, c2s, s2c, link, hasKeyFrame, client, svr, built, dropped>>
      BY <2>2 DEF HandleRead, Goes, connVars, netVars, pushVars, rtmpVars
    <3>2. Turns("recv")
      BY <3>1, ThreadsAre DEF PushInv, Shape, Opening
    <3>3. QED
      BY <3>2
  <2>3. CASE ReadsNothing \/ ReadFails
    <3> DEFINE s == After("loop", <<>>, refused)
    <3>1. /\ at["loop"] = "recv" /\ at' = [at EXCEPT !["loop"] = s] /\ owner' = Nobody
          /\ out' = [out EXCEPT !["loop"] = <<>>] /\ ready' = {}
          /\ isClosed' \in BOOLEAN /\ registered' \in BOOLEAN
          /\ isClosed => isClosed'
          /\ UNCHANGED <<queue, writing, inbox, refused,
                         gone, exit, c2s, s2c, link, hasKeyFrame, client, svr, built, dropped>>
      BY <2>3 DEF ReadsNothing, ReadFails, Resumes, Closes, connVars, netVars, pushVars, rtmpVars,
         PushInv, Shape
    <3>2. out' = out
      BY <3>1 DEF PushInv, Shape, Hands
    <3>3. /\ s \in {"shut", "write", "select"}
          /\ s = "shut" => refused
          /\ ~ refused /\ ready = {} => s = "select"
      BY ThreadsAre, AfterIs
    <3> HIDE DEF s
    <3>4. Turns(s)
      BY <3>1, <3>2, <3>3 DEF PushInv, Shape, Opening
    <3>5. QED
      BY <3>3, <3>4
  <2>4. CASE Shuts
    <3>1. /\ at["loop"] = "shut" /\ at' = [at EXCEPT !["loop"] = "select"] /\ owner' = Nobody
          /\ isClosed' = TRUE /\ registered' \in BOOLEAN
          /\ UNCHANGED <<out, ready, queue, writing, inbox, refused,
                         gone, exit, c2s, s2c, link, hasKeyFrame, client, svr, built, dropped>>
      BY <2>4 DEF Shuts, Goes, Closes, netVars, pushVars, rtmpVars, PushInv, Shape
    <3>2. Turns("select")
      BY <3>1 DEF PushInv, Shape
    <3>3. QED
      BY <3>2
  <2>5. QED
    BY <2>1, <2>2, <2>3, <2>4
<1>1. PICK s \in {"read", "write", "select", "shut", "recv"} : Turns(s)
  BY <1>0
<1>2. at' \in [Threads -> Stages]
  BY <1>1, ThreadsAre DEF PushInv, Shape, Stages
<1>3. Hands'
  BY <1>1, ThreadsAre DEF PushInv, Shape, Hands
<1>4. Answers' /\ Opening'
  BY <1>1, ThreadsAre DEF PushInv, Shape, Answers, Opening
<1>5. QED
  BY <1>1, <1>2, <1>3, <1>4, ControlHolds DEF PushInv, Shape

\* A packet of the video thread is dropped.
LEMMA FlowsWithout ==
    ASSUME NEW hs, NEW sv, NEW loop, NEW closed, NEW lost, NEW key, NEW way, NEW V,
           Flows(hs, sv, loop, closed, lost, key, way, V),
           NEW lost2, NEW W, lost => lost2, closed \/ lost2
    PROVE  Flows(hs, sv, loop, closed, lost2, key, way, W)
<1>1. PICK L \in Seq(Requests) :
        \/ hs = "COMPLETE" /\ Broken(sv, loop, way, L)
        \/ \E P \in Seq(FromClient) :
             /\ Sane(Range(sv.delivered), sv.publishing, P, V, closed, lost, key)
             /\ Spoken(hs, sv, loop, closed, way, P, L)
  BY DEF Flows
<1>2. CASE hs = "COMPLETE" /\ Broken(sv, loop, way, L)
  BY <1>2 DEF Flows
<1>3. ASSUME NEW P \in Seq(FromClient),
             Sane(Range(sv.delivered), sv.publishing, P, V, closed, lost, key),
             Spoken(hs, sv, loop, closed, way, P, L)
      PROVE  Flows(hs, sv, loop, closed, lost2, key, way, W)
  <2>1. Sane(Range(sv.delivered), sv.publishing, P, W, closed, lost2, key)
    BY <1>3 DEF Sane
  <2>2. QED
    BY <1>3, <2>1 DEF Flows
<1>4. QED
  BY <1>1, <1>2, <1>3

\* One request less to send.
LEMMA SaysLess ==
    ASSUME NEW o, NEW L, Says(FALSE, o, L), o # <<>>
    PROVE  /\ L # <<>> /\ Head(L) \in Requests /\ Head(o) = Packet(Head(L))
           /\ Says(FALSE, Tail(o), Tail(L))
<1>1. L \in Seq(Requests) /\ o = Packets(L)
  BY DEF Says
<1>2. L # <<>>
  BY <1>1, ChunksNone
<1>3. L \in Seq(Messages)
  <2>1. \A m \in Requests : m \in Messages
    BY Apart
  <2>2. QED
    BY <1>1, <2>1, SeqWider
<1>4. Head(o) = Packet(Head(L)) /\ Tail(o) = Packets(Tail(L))
  BY <1>1, <1>2, <1>3, PacketsHead
<1>5. Head(L) \in Requests /\ Tail(L) \in Seq(Requests)
  BY <1>1, <1>2
<1>6. QED
  BY <1>2, <1>4, <1>5 DEF Says

\* The loop's packet is dropped.
LEMMA FlowsLoopWithout ==
    ASSUME NEW hs, NEW sv, NEW loop, NEW closed, NEW lost, NEW key, NEW way, NEW V,
           Flows(hs, sv, loop, closed, lost, key, way, V), loop # <<>>,
           NEW lost2, lost => lost2, closed \/ way # <<>>
    PROVE  Flows(hs, sv, Tail(loop), closed, lost2, key, way, V)
<1>1. PICK L \in Seq(Requests) :
        \/ hs = "COMPLETE" /\ Broken(sv, loop, way, L)
        \/ \E P \in Seq(FromClient) :
             /\ Sane(Range(sv.delivered), sv.publishing, P, V, closed, lost, key)
             /\ Spoken(hs, sv, loop, closed, way, P, L)
  BY DEF Flows
<1>2. Says(FALSE, loop, L) => Says(FALSE, Tail(loop), Tail(L)) /\ Tail(L) \in Seq(Requests)
  BY SaysLess DEF Says
<1>3. Says(TRUE, loop, L) => Says(FALSE, Tail(loop), L)
  <2> DEFINE yes == TRUE
             no == FALSE
  <2>1. yes /\ yes \in BOOLEAN
    OBVIOUS
  <2>2. ~ no /\ no \in BOOLEAN
    OBVIOUS
  <2> HIDE DEF yes, no
  <2>3. Says(yes, loop, L) => Says(no, Tail(loop), L)
    BY <2>1, <2>2 DEF Says
  <2>4. QED
    BY <2>3 DEF yes, no
<1>4. CASE hs = "COMPLETE" /\ Broken(sv, loop, way, L)
  <2>1. Broken(sv, Tail(loop), way, Tail(L)) /\ Tail(L) \in Seq(Requests)
    BY <1>2, <1>4 DEF Broken
  <2>2. QED
    BY <1>4, <2>1 DEF Flows
<1>5. ASSUME NEW P \in Seq(FromClient),
             Sane(Range(sv.delivered), sv.publishing, P, V, closed, lost, key),
             Spoken(hs, sv, loop, closed, way, P, L)
      PROVE  Flows(hs, sv, Tail(loop), closed, lost2, key, way, V)
  <2>1. Sane(Range(sv.delivered), sv.publishing, P, V, closed, lost2, key)
    BY <1>5 DEF Sane
  <2>2. \E K \in Seq(Requests) : Spoken(hs, sv, Tail(loop), closed, way, P, K)
    <3>1. CASE hs = "S0S1S2" /\ Knocking(sv, loop, way)
      BY <3>1 DEF Knocking
    <3>2. CASE hs = "COMPLETE" /\ Talking(sv, loop, way, P, L)
      <4>1. Talking(sv, Tail(loop), way, P, Tail(L)) /\ Tail(L) \in Seq(Requests)
        BY <1>2, <3>2 DEF Talking
      <4>2. QED
        BY <3>2, <4>1 DEF Spoken
    <3>3. CASE hs = "COMPLETE" /\ Entering(sv, loop, closed, way, P, L)
      <4>1. CASE Says(TRUE, loop, L) /\ P = <<>> /\ Joined(sv.reader.buf, way, <<>>)
        <5>1. closed
          <6>1. way = <<>>
            <7>1. way \in Streams /\ sv.reader.buf \in Streams
                  /\ Len(sv.reader.buf \o way) = Len(sv.reader.buf) + Len(way)
                  /\ Len(sv.reader.buf) \in Nat /\ Len(way) \in Nat /\ Len(<<>>) = 0
              BY <4>1, StreamJoins DEF Joined
            <7> DEFINE n == Len(sv.reader.buf)
                       k == Len(way)
            <7>2. n \in Nat /\ k \in Nat /\ 0 = n + k
              BY <4>1, <7>1 DEF Joined
            <7> HIDE DEF n, k
            <7>3. k = 0
              BY <7>2
            <7>4. QED
              BY <7>1, <7>3, StreamNone DEF k
          <6>2. QED
            BY <6>1
        <5>2. Entering(sv, Tail(loop), closed, way, P, L)
          BY <1>3, <3>3, <4>1, <5>1 DEF Entering
        <5>3. QED
          BY <3>3, <5>2 DEF Spoken
      <4>2. CASE /\ Says(FALSE, loop, L)
                 /\ \/ P = <<>> /\ closed /\ Joined(sv.reader.buf, way, <<>>)
                    \/ Joined(sv.reader.buf, way, C2 \o Chunks(P))
        <5>1. Entering(sv, Tail(loop), closed, way, P, Tail(L)) /\ Tail(L) \in Seq(Requests)
          BY <1>2, <3>3, <4>2 DEF Entering
        <5>2. QED
          BY <3>3, <5>1 DEF Spoken
      <4>3. QED
        BY <3>3, <4>1, <4>2 DEF Entering
    <3>4. QED
      BY <1>5, <3>1, <3>2, <3>3 DEF Spoken
  <2>3. QED
    BY <2>1, <2>2 DEF Flows
<1>6. QED
  BY <1>1, <1>4, <1>5

\* A request is no media, an audio packet no picture.
LEMMA SaneMore ==
    ASSUME NEW seen, NEW accepted, NEW P \in Seq(FromClient), NEW V, NEW closed, NEW lost, NEW key,
           Sane(seen, accepted, P, V, closed, lost, key),
           NEW m \in Requests \union {Sound}, m = Sound => accepted
    PROVE  Sane(seen, accepted, Append(P, m), V, closed, lost, key)
<1>1. m \in FromClient
  BY DEF FromClient, Media
<1>2. Range(Append(P, m)) = Range(P) \union {m}
  BY <1>1, RangeMore
<1>3. ASSUME ~ accepted PROVE Range(Append(P, m)) \intersect Media = {}
  BY <1>2, <1>3, Apart DEF Sane
<1>4. m \notin {Picture(TRUE), Picture(FALSE)}
  BY DEF Requests, Sound, Picture, Message, SetChunkSize, Connect, CreateStream, Publish
<1>5. Allowed(seen \union Range(P), m)
  BY <1>4 DEF Allowed
<1>6. ASSUME ~ lost PROVE Leads(seen, Append(P, m))
  BY <1>1, <1>5, <1>6, LeadsMore DEF Sane
<1>7. ASSUME ~ lost, ~ closed
      PROVE  /\ Leads(seen \union Range(Append(P, m)), V)
             /\ key => Picture(TRUE) \in (seen \union Range(Append(P, m))) \union Range(V)
  <2>1. Leads(seen \union Range(P), V)
    BY <1>7 DEF Sane
  <2>2. seen \union Range(P) \subseteq seen \union Range(Append(P, m))
    BY <1>2
  <2>3. Leads(seen \union Range(Append(P, m)), V)
    BY <2>1, <2>2, LeadsGrows
  <2>4. QED
    BY <1>7, <2>2, <2>3 DEF Sane
<1>8. QED
  BY <1>3, <1>6, <1>7 DEF Sane

\* The video thread's next message is sent.
LEMMA SaneVideo ==
    ASSUME NEW seen, NEW accepted, NEW P \in Seq(FromClient), NEW V \in Seq(Media),
           NEW closed, NEW lost, NEW key,
           Sane(seen, accepted, P, V, closed, lost, key), V # <<>>, accepted, ~ closed
    PROVE  Sane(seen, accepted, Append(P, Head(V)), Tail(V), closed, lost, key)
<1> DEFINE m == Head(V)
           W == Tail(V)
<1>1. m \in Media /\ Range(V) = {m} \union Range(W)
  BY RangeLess
<1>2. m \in FromClient
  BY <1>1 DEF FromClient
<1>3. ASSUME ~ lost PROVE Allowed(seen \union Range(P), m)
                          /\ Leads((seen \union Range(P)) \union {m}, W)
  <2>1. Leads(seen \union Range(P), V)
    BY <1>3 DEF Sane
  <2>2. QED
    BY <2>1, LeadsLess
<1> HIDE DEF m, W
<1>4. Range(Append(P, m)) = Range(P) \union {m}
  BY <1>2, RangeMore
<1>5. ASSUME ~ lost PROVE Leads(seen, Append(P, m))
  BY <1>2, <1>3, <1>5, LeadsMore DEF Sane
<1>6. (seen \union Range(P)) \union {m} = seen \union Range(Append(P, m))
  BY <1>4
<1>7. ASSUME ~ lost
      PROVE  /\ Leads(seen \union Range(Append(P, m)), W)
             /\ key => Picture(TRUE) \in (seen \union Range(Append(P, m))) \union Range(W)
  <2>1. Leads(seen \union Range(Append(P, m)), W)
    BY <1>3, <1>6, <1>7
  <2>2. key => Picture(TRUE) \in (seen \union Range(P)) \union Range(V)
    BY <1>7 DEF Sane
  <2>3. QED
    BY <1>1, <1>4, <2>1, <2>2
<1>8. Sane(seen, accepted, Append(P, m), W, closed, lost, key)
  BY <1>5, <1>7 DEF Sane
<1>9. QED
  BY <1>8 DEF m, W

\* A message is put to those on their way.
LEMMA SpokenMore ==
    ASSUME NEW sv, NEW loop, NEW loop2, NEW closed, NEW way, NEW P \in Seq(FromClient), NEW L,
           NEW L2, NEW m \in FromClient, NEW way2, Grown(way, Packet(m), way2),
           Says(FALSE, loop2, L2)
    PROVE  /\ Talking(sv, loop, way, P, L) => Talking(sv, loop2, way2, Append(P, m), L2)
           /\ Broken(sv, loop, way, L) => Broken(sv, loop2, way2, L2)
           /\ /\ sv.hs = "C2" /\ sv.delivered = <<>> /\ sv.reader = Idle(sv.reader.buf, 1)
              /\ Joined(sv.reader.buf, way, C2 \o Chunks(P))
              => Entering(sv, loop2, closed, way2, Append(P, m), L2)
<1>1. m \in Messages /\ P \in Seq(Messages) /\ Packet(m) \in Streams
  <2>1. \A x \in FromClient : x \in Messages
    BY Apart
  <2>2. m \in Messages /\ P \in Seq(Messages)
    BY <2>1, SeqWider
  <2>3. QED
    BY <2>2, ChunksMore
<1>2. ASSUME Talking(sv, loop, way, P, L)
      PROVE  Talking(sv, loop2, way2, Append(P, m), L2)
  <2>1. Carries(sv.reader, way2, Append(P, m))
    BY <1>1, <1>2, CarriesMore DEF Talking
  <2>2. QED
    BY <1>2, <2>1 DEF Talking
<1>3. ASSUME Broken(sv, loop, way, L) PROVE Broken(sv, loop2, way2, L2)
  <2>1. Doomed(sv.reader, way2)
    BY <1>1, <1>3, DoomedMore DEF Broken
  <2>2. QED
    BY <1>3, <2>1 DEF Broken
<1>4. ASSUME sv.hs = "C2", sv.delivered = <<>>, sv.reader = Idle(sv.reader.buf, 1),
             Joined(sv.reader.buf, way, C2 \o Chunks(P))
      PROVE  Entering(sv, loop2, closed, way2, Append(P, m), L2)
  <2> DEFINE c == C2
             s == Chunks(P)
             p == Packet(m)
             s2 == Chunks(Append(P, m))
  <2>1. c \in Streams /\ s \in Streams /\ p \in Streams
    BY <1>1, ChunksMore, GreetingsAre, WiresAre
  <2>2. s2 = s \o p
    BY <1>1, ChunksMore DEF Grown
  <2>3. Joined(sv.reader.buf, way, c \o s)
    BY <1>4
  <2> HIDE DEF c, s, p, s2
  <2>4. (c \o s) \o p = c \o s2
    BY <2>1, <2>2, StreamAssociates
  <2>5. Grown(c \o s, p, c \o s2)
    BY <2>4 DEF Grown
  <2>6. Grown(way, p, way2)
    BY DEF p
  <2>7. Joined(sv.reader.buf, way2, c \o s2)
    BY <2>1, <2>3, <2>5, <2>6, JoinedMore
  <2>8. Joined(sv.reader.buf, way2, C2 \o Chunks(Append(P, m)))
    BY <2>7 DEF c, s2
  <2>9. QED
    BY <1>4, <2>8 DEF Entering
<1>5. QED
  BY <1>2, <1>3, <1>4

\* A message of an encoding thread is queued.
LEMMA FlowsMedia ==
    ASSUME NEW hs, NEW sv, NEW loop, NEW closed, NEW lost, NEW key, NEW way, NEW V, NEW W,
           Flows(hs, sv, loop, closed, lost, key, way, V), NEW m \in Media,
           NEW way2, Grown(way, Packet(m), way2), sv.delivered # <<>>,
           \A P \in Seq(FromClient) :
             Sane(Range(sv.delivered), sv.publishing, P, V, closed, lost, key)
               => Sane(Range(sv.delivered), sv.publishing, Append(P, m), W, closed, lost, key)
    PROVE  Flows(hs, sv, loop, closed, lost, key, way2, W)
<1>0. m \in FromClient
  BY DEF FromClient
<1>1. PICK L \in Seq(Requests) :
        \/ hs = "COMPLETE" /\ Broken(sv, loop, way, L)
        \/ \E P \in Seq(FromClient) :
             /\ Sane(Range(sv.delivered), sv.publishing, P, V, closed, lost, key)
             /\ Spoken(hs, sv, loop, closed, way, P, L)
  BY DEF Flows
<1>2. CASE hs = "COMPLETE" /\ Broken(sv, loop, way, L)
  <2>0. <<>> \in Seq(FromClient)
    OBVIOUS
  <2>1. Says(FALSE, loop, L)
    BY <1>2 DEF Broken
  <2>2. Broken(sv, loop, way2, L)
    BY <1>0, <1>2, <2>0, <2>1, SpokenMore
  <2>3. QED
    BY <1>2, <2>2 DEF Flows
<1>3. ASSUME NEW P \in Seq(FromClient),
             Sane(Range(sv.delivered), sv.publishing, P, V, closed, lost, key),
             Spoken(hs, sv, loop, closed, way, P, L)
      PROVE  Flows(hs, sv, loop, closed, lost, key, way2, W)
  <2>1. hs = "COMPLETE" /\ Talking(sv, loop, way, P, L)
    BY <1>3 DEF Spoken, Knocking, Entering
  <2>2. Says(FALSE, loop, L)
    BY <2>1 DEF Talking
  <2>3. Talking(sv, loop, way2, Append(P, m), L)
    BY <1>0, <2>1, <2>2, SpokenMore
  <2>4. Append(P, m) \in Seq(FromClient)
    BY <1>0
  <2>5. Spoken(hs, sv, loop, closed, way2, Append(P, m), L)
    BY <2>1, <2>3 DEF Spoken
  <2>6. Sane(Range(sv.delivered), sv.publishing, Append(P, m), W, closed, lost, key)
    BY <1>3
  <2>7. QED
    BY <2>4, <2>5, <2>6 DEF Flows
<1>4. QED
  BY <1>1, <1>2, <1>3

\* The first packet of a frame in the video thread's hands is queued, ...
LEMMA FlowsVideo ==
    ASSUME NEW hs, NEW sv, NEW loop, NEW closed, NEW lost, NEW key, NEW way,
           NEW V \in Seq(Media), V # <<>>, ~ closed, sv.publishing, sv.delivered # <<>>,
           Flows(hs, sv, loop, closed, lost, key, way, V),
           NEW way2, Grown(way, Packet(Head(V)), way2)
    PROVE  Flows(hs, sv, loop, closed, lost, key, way2, Tail(V))
<1>1. \A P \in Seq(FromClient) :
        Sane(Range(sv.delivered), sv.publishing, P, V, closed, lost, key)
          => Sane(Range(sv.delivered), sv.publishing, Append(P, Head(V)), Tail(V), closed, lost, key)
  BY SaneVideo
<1>2. Head(V) \in Media
  BY RangeLess
<1>3. QED
  BY <1>1, <1>2, FlowsMedia

\* ... or one of the audio thread.
LEMMA FlowsAudio ==
    ASSUME NEW hs, NEW sv, NEW loop, NEW closed, NEW lost, NEW key, NEW way,
           NEW V, sv.publishing, sv.delivered # <<>>,
           Flows(hs, sv, loop, closed, lost, key, way, V),
           NEW way2, Grown(way, Packet(Sound), way2)
    PROVE  Flows(hs, sv, loop, closed, lost, key, way2, V)
<1>1. \A P \in Seq(FromClient) :
        Sane(Range(sv.delivered), sv.publishing, P, V, closed, lost, key)
          => Sane(Range(sv.delivered), sv.publishing, Append(P, Sound), V, closed, lost, key)
  BY SaneMore
<1>2. Sound \in Media
  BY DEF Media
<1>3. QED
  BY <1>1, <1>2, FlowsMedia

\* A packet of the loop is queued.
LEMMA FlowsLoop ==
    ASSUME NEW hs, NEW sv, NEW loop, NEW closed, NEW lost, NEW key, NEW way, NEW V,
           Flows(hs, sv, loop, closed, lost, key, way, V), loop # <<>>, ~ closed,
           NEW way2, Grown(way, Head(loop), way2)
    PROVE  Flows(hs, sv, Tail(loop), closed, lost, key, way2, V)
<1>1. PICK L \in Seq(Requests) :
        \/ hs = "COMPLETE" /\ Broken(sv, loop, way, L)
        \/ \E P \in Seq(FromClient) :
             /\ Sane(Range(sv.delivered), sv.publishing, P, V, closed, lost, key)
             /\ Spoken(hs, sv, loop, closed, way, P, L)
  BY DEF Flows
<1> DEFINE m == Head(L)
           K == Tail(L)
<1>2. ASSUME Says(FALSE, loop, L)
      PROVE  /\ m \in Requests /\ m \in FromClient /\ Grown(way, Packet(m), way2)
             /\ Says(FALSE, Tail(loop), K) /\ K \in Seq(Requests) /\ L # <<>>
  BY <1>2, SaysLess DEF FromClient, Says
<1>3. ASSUME Says(TRUE, loop, L)
      PROVE  Head(loop) = C2 /\ Says(FALSE, Tail(loop), L)
  <2> DEFINE yes == TRUE
             no == FALSE
  <2>1. yes /\ yes \in BOOLEAN
    OBVIOUS
  <2>2. ~ no /\ no \in BOOLEAN
    OBVIOUS
  <2>3. Says(yes, loop, L)
    BY <1>3
  <2> HIDE DEF yes, no
  <2>4. Head(loop) = C2 /\ Says(no, Tail(loop), L)
    BY <2>1, <2>2, <2>3 DEF Says
  <2>5. QED
    BY <2>4 DEF no
<1> HIDE DEF m, K
<1>4. CASE hs = "COMPLETE" /\ Broken(sv, loop, way, L)
  <2>0. <<>> \in Seq(FromClient)
    OBVIOUS
  <2>1. Says(FALSE, loop, L)
    BY <1>4 DEF Broken
  <2>2. /\ m \in FromClient /\ Grown(way, Packet(m), way2)
        /\ Says(FALSE, Tail(loop), K) /\ K \in Seq(Requests)
    BY <1>2, <2>1
  <2>3. Broken(sv, Tail(loop), way2, K)
    BY <1>4, <2>0, <2>2, SpokenMore
  <2>4. QED
    BY <1>4, <2>2, <2>3 DEF Flows
<1>5. ASSUME NEW P \in Seq(FromClient),
             Sane(Range(sv.delivered), sv.publishing, P, V, closed, lost, key),
             Spoken(hs, sv, loop, closed, way, P, L)
      PROVE  Flows(hs, sv, Tail(loop), closed, lost, key, way2, V)
  <2>1. ASSUME Says(FALSE, loop, L),
               \/ Talking(sv, Tail(loop), way2, Append(P, m), K)
               \/ Entering(sv, Tail(loop), closed, way2, Append(P, m), K),
               hs = "COMPLETE"
        PROVE  Flows(hs, sv, Tail(loop), closed, lost, key, way2, V)
    <3>1. /\ m \in Requests /\ m \in FromClient /\ K \in Seq(Requests)
          /\ Append(P, m) \in Seq(FromClient)
      BY <1>2, <2>1
    <3>2. m # Sound
      BY <3>1 DEF Requests, Sound, Message, SetChunkSize, Connect, CreateStream, Publish
    <3>3. Sane(Range(sv.delivered), sv.publishing, Append(P, m), V, closed, lost, key)
      BY <1>5, <3>1, <3>2, SaneMore
    <3>4. Spoken(hs, sv, Tail(loop), closed, way2, Append(P, m), K)
      BY <2>1 DEF Spoken
    <3>5. QED
      BY <3>1, <3>3, <3>4 DEF Flows
  <2>2. CASE hs = "S0S1S2" /\ Knocking(sv, loop, way)
    BY <2>2 DEF Knocking
  <2>3. CASE hs = "COMPLETE" /\ Talking(sv, loop, way, P, L)
    <3>1. Says(FALSE, loop, L)
      BY <2>3 DEF Talking
    <3>2. Talking(sv, Tail(loop), way2, Append(P, m), K)
      BY <1>2, <2>3, <3>1, SpokenMore
    <3>3. QED
      BY <2>1, <2>3, <3>1, <3>2
  <2>4. CASE hs = "COMPLETE" /\ Entering(sv, loop, closed, way, P, L)
    <3>1. CASE Says(TRUE, loop, L) /\ P = <<>> /\ Joined(sv.reader.buf, way, <<>>)
      <4> DEFINE c == C2
                 b == sv.reader.buf
      <4>1. c \in Streams /\ Chunks(<<>>) = <<>> /\ <<>> \o c = c /\ c \o <<>> = c
        BY ChunksNone, GreetingsAre, WiresAre, StreamJoins
      <4>2. Grown(way, c, way2)
        BY <1>3, <3>1
      <4>3. Joined(b, way, <<>>)
        BY <3>1
      <4> HIDE DEF b, c
      <4>4. Grown(<<>>, c, c)
        BY <4>1 DEF Grown
      <4>5. Joined(b, way2, c)
        BY <4>1, <4>2, <4>3, <4>4, JoinedMore
      <4>6. Joined(sv.reader.buf, way2, C2 \o Chunks(P))
        BY <3>1, <4>1, <4>5 DEF b, c
      <4>7. Says(FALSE, Tail(loop), L)
        BY <1>3, <3>1
      <4>8. Entering(sv, Tail(loop), closed, way2, P, L)
        BY <2>4, <4>6, <4>7 DEF Entering
      <4>9. Spoken(hs, sv, Tail(loop), closed, way2, P, L)
        BY <2>4, <4>8 DEF Spoken
      <4>10. QED
        BY <1>5, <4>9 DEF Flows
    <3>2. CASE Says(FALSE, loop, L) /\ Joined(sv.reader.buf, way, C2 \o Chunks(P))
      <4>1. sv.hs = "C2" /\ sv.delivered = <<>> /\ sv.reader = Idle(sv.reader.buf, 1)
        BY <2>4 DEF Entering
      <4>2. Entering(sv, Tail(loop), closed, way2, Append(P, m), K)
        BY <1>2, <3>2, <4>1, SpokenMore
      <4>3. QED
        BY <2>1, <2>4, <3>2, <4>2
    <3>3. QED
      BY <2>4, <3>1, <3>2 DEF Entering
  <2>5. QED
    BY <1>5, <2>2, <2>3, <2>4 DEF Spoken
<1>6. QED
  BY <1>1, <1>4, <1>5

\* C0C1 is queued.
LEMMA FlowsOpen ==
    ASSUME NEW hs, NEW sv, NEW loop, NEW closed, NEW lost, NEW key, NEW way, NEW V,
           Flows(hs, sv, loop, closed, lost, key, way, V), hs = "S0S1S2", sv.hs = "C0C1",
           sv.reader.buf = <<>>
    PROVE  Flows(hs, sv, loop, closed, lost, key, C0C1, V)
<1>1. PICK L \in Seq(Requests), P \in Seq(FromClient) :
        /\ Sane(Range(sv.delivered), sv.publishing, P, V, closed, lost, key)
        /\ P = <<>> /\ Knocking(sv, loop, way)
  BY DEF Flows, Spoken
<1>2. Joined(sv.reader.buf, C0C1, C0C1)
  BY GreetingsAre, WiresAre, StreamJoins DEF Joined
<1>3. Knocking(sv, loop, C0C1)
  BY <1>1, <1>2 DEF Knocking
<1>4. Spoken(hs, sv, loop, closed, C0C1, P, L)
  BY <1>1, <1>3 DEF Spoken
<1>5. QED
  BY <1>1, <1>4 DEF Flows

\* What the encoding threads and the loop have in hand is what is on its way next.
LEMMA Media3 ==
    /\ Sound \in Media /\ Picture(FALSE) \in Media /\ Picture(TRUE) \in Media
    /\ AvcHeader \in Media /\ AacHeader \in Media
    /\ <<Picture(FALSE)>> \in Seq(Media) /\ FirstPackets \in Seq(Media)
    /\ <<Sound>> \in Seq({Sound})
    /\ Range(<<Picture(FALSE)>>) = {Picture(FALSE)}
    /\ Range(FirstPackets) = {AvcHeader, AacHeader, Picture(TRUE)}
<1>1. /\ Sound \in Media /\ Picture(FALSE) \in Media /\ Picture(TRUE) \in Media
      /\ AvcHeader \in Media /\ AacHeader \in Media
  BY DEF Media
<1> DEFINE a == AvcHeader
           b == AacHeader
           k == Picture(TRUE)
           i == Picture(FALSE)
           u == Sound
<1>2. {a, b, k, i} \subseteq Media
  BY <1>1
<1> HIDE DEF a, b, k, i, u
<1>3. <<a, b, k>> \in Seq(Media) /\ <<i>> \in Seq(Media) /\ <<u>> \in Seq({u})
  BY <1>2
<1>4. Range(<<i>>) = {i} /\ Range(<<a, b, k>>) = {a, b, k}
  <2>1. DOMAIN <<i>> = {1} /\ <<i>>[1] = i
    OBVIOUS
  <2>2. DOMAIN <<a, b, k>> = {1, 2, 3} /\ <<a, b, k>>[1] = a /\ <<a, b, k>>[2] = b
        /\ <<a, b, k>>[3] = k
    OBVIOUS
  <2>3. QED
    BY <2>1, <2>2 DEF Range
<1>5. QED
  BY <1>1, <1>3, <1>4 DEF FirstPackets, a, b, k, i, u

\* Packets of messages may be queued, ...
LEMMA PacketsWires ==
    ASSUME NEW P \in Seq(Messages)
    PROVE  Packets(P) \in Seq(Wires)
<1>1. \A i \in DOMAIN P : Packet(P[i]) \in Wires
  BY PacketWire
<1>2. Len(P) \in Nat /\ DOMAIN P = 1 .. Len(P)
  OBVIOUS
<1>3. [i \in 1 .. Len(P) |-> Packet(P[i])] \in Seq(Wires)
  BY <1>1, <1>2, IsASeq
<1>4. QED
  BY <1>2, <1>3 DEF Packets

\* ... and no packets are of no messages.
LEMMA PacketsNone ==
    ASSUME NEW V \in Seq(Messages), Packets(V) = <<>>
    PROVE  V = <<>>
<1>1. Len(Packets(V)) = Len(V)
  BY PacketsAre
<1>2. Len(V) = 0
  BY <1>1
<1>3. QED
  BY <1>2

\* The messages of an encoding thread as the packets of Push.
LEMMA PushesPackets ==
    ASSUME NEW M \in Seq(Media), client.size = 2
    PROVE  [i \in DOMAIN M |-> CreateChunk(M[i], client.size)] = Packets(M)
BY DEF Packets, Packet, ChunkSize

\* New messages in the video thread's hands.
LEMMA FlowsNewly ==
    ASSUME NEW hs, NEW sv, NEW loop, NEW closed, NEW lost, NEW key, NEW way,
           Flows(hs, sv, loop, closed, lost, key, way, <<>>),
           NEW key2, NEW V,
           key => V = <<Picture(FALSE)>>, ~ key => V = FirstPackets
    PROVE  Flows(hs, sv, loop, closed, lost, key2, way, V)
<1>1. PICK L \in Seq(Requests) :
        \/ hs = "COMPLETE" /\ Broken(sv, loop, way, L)
        \/ \E P \in Seq(FromClient) :
             /\ Sane(Range(sv.delivered), sv.publishing, P, <<>>, closed, lost, key)
             /\ Spoken(hs, sv, loop, closed, way, P, L)
  BY DEF Flows
<1>2. CASE hs = "COMPLETE" /\ Broken(sv, loop, way, L)
  BY <1>2 DEF Flows
<1>3. ASSUME NEW P \in Seq(FromClient),
             Sane(Range(sv.delivered), sv.publishing, P, <<>>, closed, lost, key),
             Spoken(hs, sv, loop, closed, way, P, L)
      PROVE  Flows(hs, sv, loop, closed, lost, key2, way, V)
  <2> DEFINE S == Range(sv.delivered) \union Range(P)
  <2>1. ASSUME ~ lost, ~ closed
        PROVE  Leads(S, V) /\ Picture(TRUE) \in S \union Range(V)
    <3>1. CASE key
      <4>1. Range(<<>>) = {}
        BY DEF Range
      <4>2. Picture(TRUE) \in S \union Range(<<>>)
        BY <1>3, <2>1, <3>1 DEF Sane
      <4>3. Picture(TRUE) \in S
        BY <4>1, <4>2
      <4>4. V = <<Picture(FALSE)>>
        BY <3>1
      <4> HIDE DEF S
      <4>5. Allowed(S, Picture(FALSE))
        BY <4>3 DEF Allowed, Picture, Message, AvcHeader, AacHeader
      <4>6. <<>> \in Seq(Media) /\ Leads(S, <<>>)
        BY DEF Leads
      <4>7. Leads(S, Append(<<>>, Picture(FALSE)))
        BY <4>1, <4>5, <4>6, Media3, LeadsMore
      <4>8. Append(<<>>, Picture(FALSE)) = <<Picture(FALSE)>>
        BY Media3, FewOne
      <4>9. QED
        BY <4>3, <4>4, <4>7, <4>8
    <3>2. CASE ~ key
      <4>1. V = FirstPackets
        BY <3>2
      <4> HIDE DEF S
      <4>2. Leads(S, FirstPackets)
        <5> DEFINE a == AvcHeader
                   b == AacHeader
                   k == Picture(TRUE)
        <5>1. a # Picture(FALSE) /\ b # Picture(FALSE) /\ k # Picture(FALSE)
          BY DEF Picture, Message, AvcHeader, AacHeader
        <5>2. a # Picture(TRUE) /\ b # Picture(TRUE)
          BY DEF Picture, Message, AvcHeader, AacHeader
        <5>3. {a, b, k} \subseteq Media
          BY Media3
        <5>4. Allowed(S, a) /\ Allowed(S \union {a}, b) /\ Allowed((S \union {a}) \union {b}, k)
          BY <5>1, <5>2 DEF Allowed
        <5> HIDE DEF a, b, k
        <5>5. /\ <<>> \in Seq(Media) /\ <<a>> \in Seq(Media) /\ <<a, b>> \in Seq(Media)
              /\ Append(<<>>, a) = <<a>> /\ Append(<<a>>, b) = <<a, b>>
              /\ Append(<<a, b>>, k) = <<a, b, k>>
          BY <5>3, FewOne, FewTwo, FewThree
        <5>6. Range(<<>>) = {}
          BY DEF Range
        <5>7. Range(<<a>>) = {a} /\ Range(<<a, b>>) = {a} \union {b}
          <6>1. DOMAIN <<a>> = {1} /\ <<a>>[1] = a
            OBVIOUS
          <6>2. DOMAIN <<a, b>> = {1, 2} /\ <<a, b>>[1] = a /\ <<a, b>>[2] = b
            OBVIOUS
          <6>3. QED
            BY <6>1, <6>2 DEF Range
        <5>9. Leads(S, <<>>)
          BY DEF Leads
        <5>10. Leads(S, <<a>>)
          <6>1. Allowed(S \union Range(<<>>), a)
            BY <5>4, <5>6
          <6>2. QED
            BY <5>3, <5>5, <5>9, <6>1, LeadsMore
        <5>11. Leads(S, <<a, b>>)
          <6>1. Allowed(S \union Range(<<a>>), b)
            BY <5>4, <5>7
          <6>2. QED
            BY <5>3, <5>5, <5>10, <6>1, LeadsMore
        <5>12. Leads(S, <<a, b, k>>)
          <6>1. S \union Range(<<a, b>>) = (S \union {a}) \union {b}
            BY <5>7
          <6>2. Allowed(S \union Range(<<a, b>>), k)
            BY <5>4, <6>1
          <6>3. QED
            BY <5>3, <5>5, <5>11, <6>2, LeadsMore
        <5>13. QED
          BY <5>12 DEF FirstPackets, a, b, k
      <4>3. QED
        BY <4>1, <4>2, Media3
    <3>3. QED
      BY <3>1, <3>2
  <2>2. Sane(Range(sv.delivered), sv.publishing, P, V, closed, lost, key2)
    BY <1>3, <2>1 DEF Sane
  <2>3. QED
    BY <1>3, <2>2 DEF Flows
<1>4. QED
  BY <1>1, <1>2, <1>3

\* An encoding thread that is at work has been accepted.
LEMMA AtWork ==
    ASSUME PushInv, at["video"] # "start" \/ at["audio"] # "start"
    PROVE  /\ client.publishing /\ svr.publishing /\ client.hs = "COMPLETE" /\ client.size = 2
           /\ svr.delivered # <<>> /\ svr.hs # "C0C1"
           /\ at["open"] \notin {"start", "append", "write", "flush", "done"}
<1>1. client.publishing /\ svr.publishing /\ Publish \in Range(svr.delivered)
  BY DEF PushInv, Answers
<1>2. client.hs # "S0S1S2"
  BY <1>1 DEF PushInv, Downstream, NewConnection
<1>3. svr.delivered # <<>>
  <2>1. Range(<<>>) = {}
    BY DEF Range
  <2>2. QED
    BY <1>1, <2>1
<1>4. QED
  BY <1>1, <1>2, <1>3 DEF PushInv, Downstream, Opening

\* What is on its way, and the messages in the encoding threads' hands.
LEMMA UpstreamIs ==
    ASSUME PushInv, link = "up"
    PROVE  \E V \in Seq(Media), A \in Seq({Sound}), way \in Streams :
             /\ way = c2s \o FlattenSeq(queue) /\ V \in Seq(Messages) /\ A \in Seq(Messages)
             /\ out["video"] = Packets(V) /\ out["audio"] = Packets(A)
             /\ Flows(client.hs, svr, out["loop"], isClosed, dropped, hasKeyFrame, way, V)
<1>1. PICK V \in Seq(Media), A \in Seq({Sound}) :
        /\ out["video"] = Packets(V) /\ out["audio"] = Packets(A)
        /\ Flows(client.hs, svr, out["loop"], isClosed, dropped, hasKeyFrame,
                 c2s \o FlattenSeq(queue), V)
  BY DEF PushInv, Upstream
<1>2. V \in Seq(Messages) /\ A \in Seq(Messages)
  <2>1. (\A m \in Media : m \in Messages) /\ (\A m \in {Sound} : m \in Messages)
    BY Apart, Media3
  <2>2. QED
    BY <2>1, SeqWider
<1>3. c2s \o FlattenSeq(queue) \in Streams
  <2>1. FlattenSeq(queue) \in Streams /\ c2s \in Streams
    BY FlatWires DEF PushInv, Shape
  <2>2. QED
    BY <2>1, StreamJoins
<1>4. QED
  BY <1>1, <1>2, <1>3

\* The same for the next state.
LEMMA UpstreamNext ==
    ASSUME svr'.hs \in {"C0C1", "C2", "COMPLETE"}, NEW V \in Seq(Media), NEW A \in Seq({Sound}),
           NEW way, way = c2s' \o FlattenSeq(queue'),
           out'["video"] = Packets(V), out'["audio"] = Packets(A),
           Flows(client'.hs, svr', out'["loop"], isClosed', dropped', hasKeyFrame', way, V)
    PROVE  Upstream'
BY DEF Upstream

\* A video frame is pushed.
LEMMA PushVideoHolds ==
    ASSUME PushInv, PushVideoFrame
    PROVE  PushInv'
<1> DEFINE M == IF hasKeyFrame THEN <<Picture(FALSE)>> ELSE FirstPackets
<1>1. /\ at["video"] = "frame" /\ at' = [at EXCEPT !["video"] = "append"]
      /\ out' = [out EXCEPT !["video"] = [i \in DOMAIN M |-> CreateChunk(M[i], client.size)]]
      /\ hasKeyFrame' = TRUE /\ ~ isClosed
      /\ UNCHANGED <<ready, owner, isClosed, queue, writing, registered, inbox, refused, gone,
                     c2s, s2c, link, exit, client, svr, built, dropped>>
  BY DEF PushVideoFrame, Pushes, Goes, connVars, netVars, rtmpVars
<1>2. M \in Seq(Media) /\ M # <<>>
  <2>1. FirstPackets # <<>> /\ <<Picture(FALSE)>> # <<>>
    BY DEF FirstPackets
  <2>2. QED
    BY <2>1, Media3
<1>3. /\ client.publishing /\ client.hs = "COMPLETE" /\ client.size = 2
      /\ at["open"] \notin {"start", "append", "write", "flush", "done"}
  BY <1>1, AtWork
<1>4. /\ hasKeyFrame => M = <<Picture(FALSE)>>
      /\ ~ hasKeyFrame => M = FirstPackets
  OBVIOUS
<1> HIDE DEF M
<1>5. [i \in DOMAIN M |-> CreateChunk(M[i], client.size)] = Packets(M)
  BY <1>2, <1>3, PushesPackets
<1>6. out' = [out EXCEPT !["video"] = Packets(M)]
  BY <1>1, <1>5
<1>7. M \in Seq(Messages) /\ Packets(M) \in Seq(Wires) /\ Packets(M) # <<>>
  <2>1. \A m \in Media : m \in Messages
    BY Apart
  <2>2. M \in Seq(Messages)
    BY <1>2, <2>1, SeqWider
  <2>3. Packets(M) # <<>>
    BY <1>2, <2>2, PacketsHead
  <2>4. Packets(M) \in Seq(Wires)
    BY <2>2, PacketsWires
  <2>5. QED
    BY <2>2, <2>3, <2>4
<1>8. Shape'
  BY <1>1, <1>6, <1>7, ThreadsAre DEF PushInv, Shape, Stages
<1>9. Hands'
  BY <1>1, <1>6, <1>7, ThreadsAre DEF PushInv, Shape, Hands
<1>10. Answers' /\ Opening'
  BY <1>1, <1>3, ThreadsAre DEF PushInv, Shape, Answers, Opening
<1>11. Resting' /\ Downstream' /\ InOrder'
  BY <1>1, Afar
<1>12. Upstream'
  <2>1. CASE link = "up"
    <3>1. PICK V \in Seq(Media), A \in Seq({Sound}), way \in Streams :
            /\ way = c2s \o FlattenSeq(queue) /\ V \in Seq(Messages)
            /\ out["video"] = Packets(V) /\ out["audio"] = Packets(A)
            /\ Flows(client.hs, svr, out["loop"], isClosed, dropped, hasKeyFrame, way, V)
      BY <2>1, UpstreamIs
    <3>2. V = <<>>
      <4>1. Packets(V) = <<>>
        BY <1>1, <3>1 DEF PushInv, Hands
      <4>2. QED
        BY <3>1, <4>1, PacketsNone
    <3> DEFINE h == client.hs
               loop == out["loop"]
    <3>3. Flows(h, svr, loop, isClosed, dropped, hasKeyFrame, way, <<>>)
      BY <3>1, <3>2
    <3> HIDE DEF h, loop
    <3>4. Flows(h, svr, loop, isClosed, dropped, hasKeyFrame', way, M)
      BY <1>4, <3>3, FlowsNewly
    <3>5. client' = client /\ svr' = svr /\ isClosed' = isClosed
          /\ dropped' = dropped /\ out'["loop"] = loop
          /\ out'["video"] = Packets(M) /\ out'["audio"] = Packets(A)
          /\ c2s' = c2s /\ queue' = queue
      BY <1>1, <1>6, <3>1, ThreadsAre DEF PushInv, Shape, loop
    <3>6. Flows(client'.hs, svr', out'["loop"], isClosed', dropped', hasKeyFrame', way, M)
      BY <3>4, <3>5 DEF h
    <3>7. svr'.hs \in {"C0C1", "C2", "COMPLETE"} /\ way = c2s' \o FlattenSeq(queue')
      BY <3>1, <3>5 DEF PushInv, Upstream
    <3>8. QED
      BY <1>2, <3>5, <3>6, <3>7, UpstreamNext
  <2>2. CASE link # "up"
    BY <1>1, <2>2 DEF PushInv, Upstream
  <2>3. QED
    BY <2>1, <2>2
<1>13. QED
  BY <1>8, <1>9, <1>10, <1>11, <1>12 DEF PushInv

\* A sound is pushed.
LEMMA PushAudioHolds ==
    ASSUME PushInv, PushAudioFrame
    PROVE  PushInv'
<1> DEFINE M == <<Sound>>
<1>1. /\ at["audio"] = "frame" /\ at' = [at EXCEPT !["audio"] = "append"]
      /\ out' = [out EXCEPT !["audio"] = [i \in DOMAIN M |-> CreateChunk(M[i], client.size)]]
      /\ UNCHANGED <<ready, owner, isClosed, queue, writing, registered, inbox, refused, gone,
                     c2s, s2c, link, exit, hasKeyFrame, client, svr, built, dropped>>
  BY DEF PushAudioFrame, Pushes, Goes, connVars, netVars, rtmpVars
<1>2. M \in Seq(Media) /\ M # <<>> /\ M \in Seq({Sound})
  BY Media3
<1>3. /\ client.publishing /\ client.hs = "COMPLETE" /\ client.size = 2
      /\ at["open"] \notin {"start", "append", "write", "flush", "done"}
  BY <1>1, AtWork
<1> HIDE DEF M
<1>5. [i \in DOMAIN M |-> CreateChunk(M[i], client.size)] = Packets(M)
  BY <1>2, <1>3, PushesPackets
<1>6. out' = [out EXCEPT !["audio"] = Packets(M)]
  BY <1>1, <1>5
<1>7. M \in Seq(Messages) /\ Packets(M) \in Seq(Wires) /\ Packets(M) # <<>>
  <2>1. \A m \in Media : m \in Messages
    BY Apart
  <2>2. M \in Seq(Messages)
    BY <1>2, <2>1, SeqWider
  <2>3. Packets(M) # <<>>
    BY <1>2, <2>2, PacketsHead
  <2>4. Packets(M) \in Seq(Wires)
    BY <2>2, PacketsWires
  <2>5. QED
    BY <2>2, <2>3, <2>4
<1>8. Shape'
  BY SMTT(30), <1>1, <1>6, <1>7, ThreadsAre DEF PushInv, Shape, Stages
<1>9. Hands'
  BY <1>1, <1>6, <1>7, ThreadsAre DEF PushInv, Shape, Hands
<1>10. Answers' /\ Opening'
  BY <1>1, <1>3, ThreadsAre DEF PushInv, Shape, Answers, Opening
<1>11. Resting' /\ Downstream' /\ InOrder'
  BY <1>1, Afar
<1>12. Upstream'
  <2>1. CASE link = "up"
    <3>1. PICK V \in Seq(Media), A \in Seq({Sound}), way \in Streams :
            /\ way = c2s \o FlattenSeq(queue)
            /\ out["video"] = Packets(V) /\ out["audio"] = Packets(A)
            /\ Flows(client.hs, svr, out["loop"], isClosed, dropped, hasKeyFrame, way, V)
      BY <2>1, UpstreamIs
    <3>2. hasKeyFrame' = hasKeyFrame /\ client' = client /\ svr' = svr /\ isClosed' = isClosed
          /\ dropped' = dropped /\ out'["loop"] = out["loop"]
          /\ out'["video"] = Packets(V) /\ out'["audio"] = Packets(M)
          /\ c2s' = c2s /\ queue' = queue
      BY <1>1, <1>6, <3>1, ThreadsAre DEF PushInv, Shape
    <3>3. Flows(client'.hs, svr', out'["loop"], isClosed', dropped', hasKeyFrame', way, V)
      BY <3>1, <3>2
    <3>4. svr'.hs \in {"C0C1", "C2", "COMPLETE"} /\ way = c2s' \o FlattenSeq(queue')
      BY <3>1, <3>2 DEF PushInv, Upstream
    <3>5. QED
      BY <1>2, <3>2, <3>3, <3>4, UpstreamNext
  <2>2. CASE link # "up"
    BY <1>1, <2>2 DEF PushInv, Upstream
  <2>3. QED
    BY <2>1, <2>2
<1>13. QED
  BY <1>8, <1>9, <1>10, <1>11, <1>12 DEF PushInv

\* Who sends, and what.
LEMMA AppendsPacket ==
    ASSUME PushInv, NEW t \in Threads, at[t] = "append"
    PROVE  /\ out[t] \in Seq(Wires) /\ out[t] # <<>>
           /\ Head(out[t]) \in Wires /\ Tail(out[t]) \in Seq(Wires)
           /\ t = "open" => Tail(out[t]) = <<>> /\ Head(out[t]) = C0C1
           /\ t # "open" => at["open"] \notin {"start", "append", "write", "flush"}
           /\ t \in {"video", "audio"} => at["open"] # "done"
<1>1. out[t] \in Seq(Wires) /\ out[t] # <<>>
  BY DEF PushInv, Shape, Hands
<1>2. Head(out[t]) \in Wires /\ Tail(out[t]) \in Seq(Wires)
  BY <1>1
<1>3. t = "open" => Tail(out[t]) = <<>> /\ Head(out[t]) = C0C1
  <2> DEFINE c == C0C1
  <2>1. at["open"] = "append" => out["open"] = <<c>>
    BY DEF PushInv, Opening
  <2> HIDE DEF c
  <2>2. Tail(<<c>>) = <<>> /\ Head(<<c>>) = c
    OBVIOUS
  <2>3. QED
    BY <2>1, <2>2, Zenon DEF c
<1>4. /\ t # "open" => at["open"] \notin {"start", "append", "write", "flush"}
      /\ t \in {"video", "audio"} => at["open"] # "done"
  BY ThreadsAre DEF PushInv, Opening
<1>5. QED
  BY <1>1, <1>2, <1>3, <1>4

\* The part of a packet's sending that is not about what is on its way.
LEMMA AppendsControl ==
    ASSUME PushInv, NEW t \in Threads, Appends(t), dropped' = (dropped \/ Overflows(t)),
           UNCHANGED <<pushVars, rtmpVars>>
    PROVE  /\ Shape' /\ Resting' /\ Hands' /\ Answers' /\ Opening' /\ Downstream' /\ InOrder'
           /\ out' = [out EXCEPT ![t] = Tail(out[t])] /\ at[t] = "append"
           /\ UNCHANGED <<client, svr, isClosed, hasKeyFrame, c2s, link>>
           /\ isClosed => queue' = queue /\ dropped' = dropped
           /\ ~ isClosed => \/ queue' = Append(queue, Head(out[t])) /\ dropped' = dropped
                            \/ queue' = queue /\ queue # <<>> /\ dropped'
<1>0. /\ at[t] = "append" /\ out' = [out EXCEPT ![t] = Tail(out[t])]
      /\ UNCHANGED <<owner, isClosed, writing, registered, inbox, refused, gone, c2s, s2c, link,
                     exit, hasKeyFrame, client, svr, built>>
  BY DEF Appends, Resumes, netVars, pushVars, rtmpVars
<1>1. /\ out[t] \in Seq(Wires) /\ out[t] # <<>>
      /\ Head(out[t]) \in Wires /\ Tail(out[t]) \in Seq(Wires)
      /\ t = "open" => Tail(out[t]) = <<>>
      /\ t # "open" => at["open"] \notin {"start", "append", "write", "flush"}
      /\ t \in {"video", "audio"} => at["open"] # "done"
  BY <1>0, AppendsPacket
<1>2. CASE isClosed
  <2> DEFINE s == After(t, Tail(out[t]), refused)
             o == Tail(out[t])
  <2>1. /\ at' = [at EXCEPT ![t] = s] /\ queue' = queue
        /\ ready' \subseteq ready
        /\ dropped' = dropped
    BY <1>2 DEF Appends, Resumes, Overflows, PushInv, Shape
  <2>2. /\ s \in Stages
        /\ s = "append" => o # <<>>
        /\ o # <<>> => s = "append"
        /\ t # "loop" => s \in {"append", "done"}
        /\ t = "loop" => s \in {"append", "shut", "write", "select"}
        /\ s = "shut" => refused
    BY AfterIs
  <2>3. o \in Seq(Wires) /\ (t = "open" => o = <<>>) /\ out' = [out EXCEPT ![t] = o]
    BY <1>0, <1>1
  <2> HIDE DEF s, o
  <2>4. Shape'
    BY <1>0, <2>1, <2>2, <2>3 DEF PushInv, Shape
  <2>5. Hands'
    BY ZenonT(60), <1>0, <1>1, <2>1, <2>2, <2>3, ThreadsAre DEF PushInv, Shape, Hands
  <2>6. Answers'
    BY <1>0, <2>1, <2>2, ThreadsAre DEF PushInv, Shape, Answers
  <2>7. Opening'
    BY <1>0, <1>1, <2>1, <2>2, <2>3, ThreadsAre DEF PushInv, Shape, Opening
  <2>8. Resting' /\ Downstream' /\ InOrder'
    BY <1>0, <2>1, Afar
  <2>9. QED
    BY <1>0, <1>2, <2>1, <2>4, <2>5, <2>6, <2>7, <2>8
<1>3. CASE ~ isClosed
  <2> DEFINE p == Head(out[t])
             o == Tail(out[t])
  <2>1. /\ at' = [at EXCEPT ![t] = "write"] /\ ready' = ready /\ queue' = Appended(p)
    BY <1>3 DEF Appends, Goes
  <2>2. Len(queue) \in Nat /\ Len(queue) <= MaxQueue /\ MaxQueue \in Nat \ {0}
    BY TcpAssumption DEF PushInv, Shape
  <2> HIDE DEF p
  <2>3a. ASSUME Len(queue) < MaxQueue
         PROVE  queue' = Append(queue, p) /\ dropped' = dropped
    <3>1. queue' = Append(queue, p)
      BY <2>1, <2>3a DEF Appended
    <3>2. ~ Overflows(t)
      BY <2>2, <2>3a DEF Overflows
    <3>3. dropped \in BOOLEAN
      BY DEF PushInv, Shape
    <3>4. QED
      BY <3>1, <3>2, <3>3
  <2>3b. ASSUME ~ Len(queue) < MaxQueue
         PROVE  queue' = queue /\ queue # <<>> /\ dropped' = TRUE
    <3>1. queue' = queue
      BY <2>1, <2>3b DEF Appended
    <3>2. Len(queue) = MaxQueue
      BY <2>2, <2>3b
    <3>3. queue # <<>>
      BY <2>2, <3>2
    <3>4. Overflows(t)
      BY <1>0, <1>3, <3>2 DEF Overflows
    <3>5. dropped' = TRUE
      BY <3>4
    <3>6. QED
      BY <3>1, <3>3, <3>5
  <2>3. \/ queue' = Append(queue, p) /\ dropped' = dropped /\ Len(queue) < MaxQueue
        \/ queue' = queue /\ queue # <<>> /\ dropped' = TRUE
    BY <2>3a, <2>3b
  <2>4. p \in Wires /\ o \in Seq(Wires) /\ out' = [out EXCEPT ![t] = o]
        /\ (t = "open" => o = <<>>)
    BY <1>0, <1>1 DEF p
  <2> HIDE DEF o
  <2>5. queue' \in Seq(Wires) /\ Len(queue') <= MaxQueue /\ dropped' \in BOOLEAN
        /\ (dropped => dropped')
    <3>1. queue \in Seq(Wires) /\ dropped \in BOOLEAN
      BY DEF PushInv, Shape
    <3>2. Append(queue, p) \in Seq(Wires) /\ Len(Append(queue, p)) = Len(queue) + 1
      BY <2>4, <3>1
    <3>3. CASE queue' = Append(queue, p) /\ dropped' = dropped /\ Len(queue) < MaxQueue
      BY <2>2, <3>1, <3>2, <3>3
    <3>4. CASE queue' = queue /\ queue # <<>> /\ dropped' = TRUE
      BY <2>2, <3>1, <3>4
    <3>5. QED
      BY <2>3, <3>3, <3>4
  <2>6. Shape'
    BY <1>0, <2>1, <2>4, <2>5 DEF PushInv, Shape, Stages
  <2>7. Hands'
    BY SMTT(30), <1>0, <1>1, <2>1, <2>4, ThreadsAre DEF PushInv, Shape, Hands
  <2>8. Answers'
    BY <1>0, <2>1, ThreadsAre DEF PushInv, Shape, Answers
  <2>9. Opening'
    BY <1>0, <1>1, <2>1, ThreadsAre DEF PushInv, Shape, Opening
  <2>10. Resting' /\ Downstream' /\ InOrder'
    BY <1>0, <2>5, Afar
  <2>11. QED
    BY <1>0, <1>3, <2>3, <2>6, <2>7, <2>8, <2>9, <2>10 DEF p
<1>4. QED
  BY <1>2, <1>3

\* The packet that is queued is the next on its way.
LEMMA QueuedNext ==
    ASSUME PushInv, NEW p \in Wires, NEW way, way = c2s \o FlattenSeq(queue)
    PROVE  \E way2 \in Streams : /\ way2 = c2s \o FlattenSeq(Append(queue, p))
                                 /\ Grown(way, p, way2)
<1>1. /\ queue \in Seq(Wires) /\ c2s \in Streams /\ p \in Streams
  BY WiresAre DEF PushInv, Shape
<1>2. FlattenSeq(queue) \in Streams /\ FlattenSeq(Append(queue, p)) = FlattenSeq(queue) \o p
  BY <1>1, FlatWires
<1> DEFINE f == FlattenSeq(queue)
<1>3. (c2s \o f) \o p = c2s \o (f \o p) /\ f \o p \in Streams /\ c2s \o (f \o p) \in Streams
  BY <1>1, <1>2, StreamAssociates, StreamJoins
<1>4. QED
  BY <1>2, <1>3 DEF Grown

\* A packet is sent.
LEMMA AppendsUpstream ==
    ASSUME PushInv, NEW t \in Threads, at[t] = "append", link = "up",
           out' = [out EXCEPT ![t] = Tail(out[t])],
           UNCHANGED <<client, svr, isClosed, hasKeyFrame, c2s>>, ~ isClosed,
           queue' = Append(queue, Head(out[t])), dropped' = dropped
    PROVE  Upstream'
<1>1. PICK V \in Seq(Media), A \in Seq({Sound}), way \in Streams :
        /\ way = c2s \o FlattenSeq(queue) /\ V \in Seq(Messages) /\ A \in Seq(Messages)
        /\ out["video"] = Packets(V) /\ out["audio"] = Packets(A)
        /\ Flows(client.hs, svr, out["loop"], isClosed, dropped, hasKeyFrame, way, V)
  BY UpstreamIs
<1>2. /\ out[t] \in Seq(Wires) /\ out[t] # <<>>
      /\ Head(out[t]) \in Wires /\ Tail(out[t]) \in Seq(Wires)
      /\ t = "open" => Tail(out[t]) = <<>> /\ Head(out[t]) = C0C1
  BY AppendsPacket
<1> DEFINE p == Head(out[t])
           h == client.hs
           loop == out["loop"]
<1>2a. p \in Wires
  BY <1>2
<1>2b. queue' = Append(queue, p)
  OBVIOUS
<1> HIDE DEF p
<1>3. PICK way2 \in Streams : /\ way2 = c2s \o FlattenSeq(Append(queue, p))
                              /\ Grown(way, p, way2)
  BY <1>1, <1>2a, QueuedNext
<1>4. Flows(h, svr, loop, isClosed, dropped, hasKeyFrame, way, V)
  BY <1>1
<1> HIDE DEF h, loop
<1>5. \A u \in Threads : u # t => out'[u] = out[u]
  BY DEF PushInv, Shape
<1>5a. out'[t] = Tail(out[t])
  BY DEF PushInv, Shape
<1>6. svr'.hs \in {"C0C1", "C2", "COMPLETE"} /\ way2 = c2s' \o FlattenSeq(queue')
  BY <1>2b, <1>3 DEF PushInv, Upstream
<1>7. CASE t = "open"
  <2>1. /\ svr.hs = "C0C1" /\ svr.reader.buf = <<>> /\ c2s = <<>> /\ h = "S0S1S2" /\ queue = <<>>
    BY <1>7 DEF PushInv, Opening, h
  <2>2. Flows(h, svr, loop, isClosed, dropped, hasKeyFrame, C0C1, V)
    BY <1>4, <2>1, FlowsOpen
  <2>3. way2 = C0C1
    <3>1. C0C1 \in Streams
      BY GreetingsAre, WiresAre
    <3> DEFINE g == C0C1
    <3>2. p = g /\ g \in Streams
      BY <1>2, <1>7, <3>1 DEF p
    <3> HIDE DEF g
    <3>3. way = <<>>
      BY <1>1, <2>1, FlatEmpty, StreamJoins
    <3>4. way2 = <<>> \o g
      BY <1>3, <3>2, <3>3 DEF Grown
    <3>5. <<>> \o g = g
      BY <3>2, StreamJoins
    <3>6. QED
      BY <3>4, <3>5 DEF g
  <2>4. Flows(h, svr, loop, isClosed, dropped, hasKeyFrame, way2, V)
    BY <2>2, <2>3
  <2>5. /\ out'["video"] = Packets(V) /\ out'["audio"] = Packets(A) /\ out'["loop"] = loop
    BY <1>1, <1>5, <1>7, ThreadsAre DEF loop
  <2>6. Flows(client'.hs, svr', out'["loop"], isClosed', dropped', hasKeyFrame', way2, V)
    BY <2>4, <2>5 DEF h
  <2>7. QED
    BY <1>6, <2>5, <2>6, UpstreamNext
<1>8. CASE t = "video"
  <2>1. svr.publishing /\ svr.delivered # <<>>
    BY <1>8, AtWork
  <2>2. /\ V # <<>> /\ p = Packet(Head(V)) /\ Tail(out["video"]) = Packets(Tail(V))
    <3>1. V # <<>>
      BY <1>1, <1>2, <1>8, ChunksNone
    <3>2. QED
      BY <1>1, <1>8, <3>1, PacketsHead DEF p
  <2>3. Flows(h, svr, loop, isClosed, dropped, hasKeyFrame, way2, Tail(V))
    <3>1. Grown(way, Packet(Head(V)), way2)
      BY <1>3, <2>2
    <3>2. QED
      BY <1>4, <2>1, <2>2, <3>1, FlowsVideo
  <2>4. /\ out'["video"] = Packets(Tail(V)) /\ out'["audio"] = Packets(A) /\ out'["loop"] = loop
    BY <1>1, <1>5, <1>5a, <1>8, <2>2, ThreadsAre DEF loop
  <2>5. Tail(V) \in Seq(Media)
    BY <2>2
  <2>6. Flows(client'.hs, svr', out'["loop"], isClosed', dropped', hasKeyFrame', way2, Tail(V))
    BY <2>3, <2>4 DEF h
  <2>7. QED
    BY <1>6, <2>4, <2>5, <2>6, UpstreamNext
<1>9. CASE t = "audio"
  <2>1. svr.publishing /\ svr.delivered # <<>>
    BY <1>9, AtWork
  <2>2. /\ A # <<>> /\ p = Packet(Head(A)) /\ Tail(out["audio"]) = Packets(Tail(A))
    <3>1. A # <<>>
      BY <1>1, <1>2, <1>9, ChunksNone
    <3>2. QED
      BY <1>1, <1>9, <3>1, PacketsHead DEF p
  <2>3. Head(A) = Sound /\ Tail(A) \in Seq({Sound})
    <3>1. Head(A) \in {Sound} /\ Tail(A) \in Seq({Sound})
      BY <2>2
    <3>2. QED
      BY <3>1
  <2>4. Flows(h, svr, loop, isClosed, dropped, hasKeyFrame, way2, V)
    <3>1. Grown(way, Packet(Sound), way2)
      BY <1>3, <2>2, <2>3
    <3>2. QED
      BY <1>4, <2>1, <3>1, FlowsAudio
  <2>5. /\ out'["video"] = Packets(V) /\ out'["audio"] = Packets(Tail(A)) /\ out'["loop"] = loop
    BY <1>1, <1>5, <1>5a, <1>9, <2>2, ThreadsAre DEF loop
  <2>6. Flows(client'.hs, svr', out'["loop"], isClosed', dropped', hasKeyFrame', way2, V)
    BY <2>4, <2>5 DEF h
  <2>7. QED
    BY <1>6, <2>3, <2>5, <2>6, UpstreamNext
<1>10. CASE t = "loop"
  <2>1. loop # <<>> /\ Grown(way, Head(loop), way2)
    BY <1>2, <1>3, <1>10 DEF p, loop
  <2>2. Flows(h, svr, Tail(loop), isClosed, dropped, hasKeyFrame, way2, V)
    BY <1>4, <2>1, FlowsLoop
  <2>3. /\ out'["video"] = Packets(V) /\ out'["audio"] = Packets(A) /\ out'["loop"] = Tail(loop)
    BY <1>1, <1>5, <1>5a, <1>10, ThreadsAre DEF loop
  <2>4. Flows(client'.hs, svr', out'["loop"], isClosed', dropped', hasKeyFrame', way2, V)
    BY <2>2, <2>3 DEF h
  <2>5. QED
    BY <1>6, <2>3, <2>4, UpstreamNext
<1>11. QED
  BY <1>7, <1>8, <1>9, <1>10, ThreadsAre

\* A packet is dropped, because the connection is closed or the queue full.
LEMMA DropsUpstream ==
    ASSUME PushInv, NEW t \in Threads, at[t] = "append", link = "up",
           out' = [out EXCEPT ![t] = Tail(out[t])],
           UNCHANGED <<client, svr, isClosed, hasKeyFrame, c2s, queue>>,
           dropped => dropped', isClosed \/ (dropped' /\ queue # <<>>)
    PROVE  Upstream'
<1>1. PICK V \in Seq(Media), A \in Seq({Sound}), way \in Streams :
        /\ way = c2s \o FlattenSeq(queue) /\ V \in Seq(Messages) /\ A \in Seq(Messages)
        /\ out["video"] = Packets(V) /\ out["audio"] = Packets(A)
        /\ Flows(client.hs, svr, out["loop"], isClosed, dropped, hasKeyFrame, way, V)
  BY UpstreamIs
<1>2. out[t] # <<>>
  BY AppendsPacket
<1> DEFINE h == client.hs
           loop == out["loop"]
<1>4. Flows(h, svr, loop, isClosed, dropped, hasKeyFrame, way, V)
  BY <1>1
<1> HIDE DEF h, loop
<1>4a. Flows(h, svr, loop, isClosed, dropped', hasKeyFrame, way, V)
  BY <1>4, FlowsStays
<1>5. \A u \in Threads : u # t => out'[u] = out[u]
  BY DEF PushInv, Shape
<1>5a. out'[t] = Tail(out[t])
  BY DEF PushInv, Shape
<1>6. svr'.hs \in {"C0C1", "C2", "COMPLETE"} /\ way = c2s' \o FlattenSeq(queue')
  BY <1>1 DEF PushInv, Upstream
<1>7. CASE t = "open"
  <2>1. /\ out'["video"] = Packets(V) /\ out'["audio"] = Packets(A) /\ out'["loop"] = loop
    BY <1>1, <1>5, <1>7, ThreadsAre DEF loop
  <2>2. Flows(client'.hs, svr', out'["loop"], isClosed', dropped', hasKeyFrame', way, V)
    BY <1>4a, <2>1 DEF h
  <2>3. QED
    BY <1>6, <2>1, <2>2, UpstreamNext
<1>8. CASE t = "video"
  <2>1. /\ V # <<>> /\ Tail(out["video"]) = Packets(Tail(V))
    <3>1. V # <<>>
      BY <1>1, <1>2, <1>8, ChunksNone
    <3>2. QED
      BY <1>1, <3>1, PacketsHead
  <2>2. Flows(h, svr, loop, isClosed, dropped', hasKeyFrame, way, Tail(V))
    BY <1>4, FlowsWithout
  <2>3. /\ out'["video"] = Packets(Tail(V)) /\ out'["audio"] = Packets(A) /\ out'["loop"] = loop
    BY <1>1, <1>5, <1>5a, <1>8, <2>1, ThreadsAre DEF loop
  <2>4. Tail(V) \in Seq(Media)
    BY <2>1
  <2>5. Flows(client'.hs, svr', out'["loop"], isClosed', dropped', hasKeyFrame', way, Tail(V))
    BY <2>2, <2>3 DEF h
  <2>6. QED
    BY <1>6, <2>3, <2>4, <2>5, UpstreamNext
<1>9. CASE t = "audio"
  <2>1. /\ A # <<>> /\ Tail(out["audio"]) = Packets(Tail(A))
    <3>1. A # <<>>
      BY <1>1, <1>2, <1>9, ChunksNone
    <3>2. QED
      BY <1>1, <3>1, PacketsHead
  <2>2. Tail(A) \in Seq({Sound})
    BY <2>1
  <2>3. /\ out'["video"] = Packets(V) /\ out'["audio"] = Packets(Tail(A)) /\ out'["loop"] = loop
    BY <1>1, <1>5, <1>5a, <1>9, <2>1, ThreadsAre DEF loop
  <2>4. Flows(client'.hs, svr', out'["loop"], isClosed', dropped', hasKeyFrame', way, V)
    BY <1>4a, <2>3 DEF h
  <2>5. QED
    BY <1>6, <2>2, <2>3, <2>4, UpstreamNext
<1>10. CASE t = "loop"
  <2>1. isClosed \/ way # <<>>
    <3>1. ASSUME queue # <<>> PROVE way # <<>>
      <4>1. FlattenSeq(queue) \in Streams /\ FlattenSeq(queue) # <<>> /\ c2s \in Streams
        BY <3>1, FlatWires DEF PushInv, Shape
      <4> DEFINE n == Len(c2s)
                 f == FlattenSeq(queue)
                 k == Len(f)
      <4>2. n \in Nat /\ k \in Nat /\ k # 0 /\ Len(way) = n + k /\ Len(<<>>) = 0
        BY <1>1, <4>1, StreamJoins, StreamNone
      <4> HIDE DEF n, k
      <4>3. Len(way) # Len(<<>>)
        BY <4>2
      <4>4. QED
        BY <4>3
    <3>2. QED
      BY <3>1
  <2>2. loop # <<>>
    BY <1>2, <1>10 DEF loop
  <2>3. Flows(h, svr, Tail(loop), isClosed, dropped', hasKeyFrame, way, V)
    BY <1>4, <2>1, <2>2, FlowsLoopWithout
  <2>4. /\ out'["video"] = Packets(V) /\ out'["audio"] = Packets(A) /\ out'["loop"] = Tail(loop)
    BY <1>1, <1>5, <1>5a, <1>10, ThreadsAre DEF loop
  <2>5. Flows(client'.hs, svr', out'["loop"], isClosed', dropped', hasKeyFrame', way, V)
    BY <2>3, <2>4 DEF h
  <2>6. QED
    BY <1>6, <2>4, <2>5, UpstreamNext
<1>11. QED
  BY <1>7, <1>8, <1>9, <1>10, ThreadsAre

\* SendDate appends a packet, or drops it.
LEMMA AppendsHolds ==
    ASSUME PushInv, NEW t \in Threads, Appends(t), dropped' = (dropped \/ Overflows(t)),
           UNCHANGED <<pushVars, rtmpVars>>
    PROVE  PushInv'
<1>1. /\ Shape' /\ Resting' /\ Hands' /\ Answers' /\ Opening' /\ Downstream' /\ InOrder'
      /\ out' = [out EXCEPT ![t] = Tail(out[t])] /\ at[t] = "append"
      /\ UNCHANGED <<client, svr, isClosed, hasKeyFrame, c2s, link>>
      /\ isClosed => queue' = queue /\ dropped' = dropped
      /\ ~ isClosed => \/ queue' = Append(queue, Head(out[t])) /\ dropped' = dropped
                       \/ queue' = queue /\ queue # <<>> /\ dropped'
  BY AppendsControl
<1>2. Upstream'
  <2>1. CASE link # "up"
    BY <1>1, <2>1 DEF PushInv, Upstream
  <2>2. CASE link = "up" /\ ~ isClosed /\ queue' = Append(queue, Head(out[t])) /\ dropped' = dropped
    BY <1>1, <2>2, AppendsUpstream
  <2>3. CASE link = "up" /\ queue' = queue /\ (isClosed \/ (dropped' /\ queue # <<>>))
    <3>1. dropped => dropped'
      BY <1>1 DEF PushInv, Shape
    <3>2. QED
      BY <1>1, <2>3, <3>1, DropsUpstream
  <2>4. QED
    BY <1>1, <2>1, <2>2, <2>3
<1>3. QED
  BY <1>1, <1>2 DEF PushInv

\* A thread leaves HandleWrite.
LEMMA ResumesIs ==
    ASSUME PushInv, NEW t \in Threads, at[t] \in {"write", "flush"},
           Resumes(t, out[t], refused), UNCHANGED <<client, svr, hasKeyFrame, refused>>,
           link' = "up" => link = "up"
    PROVE  /\ out' = out /\ at' \in [Threads -> Stages] /\ ready' \subseteq {"OUT"}
           /\ Hands' /\ Answers' /\ Opening'
<1> DEFINE s == After(t, out[t], refused)
<1>1. at' = [at EXCEPT ![t] = s] /\ out' = [out EXCEPT ![t] = out[t]] /\ ready' \subseteq ready
  BY DEF Resumes, PushInv, Shape
<1>2. /\ s \in Stages
      /\ s = "append" <=> out[t] # <<>>
      /\ t # "loop" => s \in {"append", "done"}
      /\ t = "loop" => s \in {"append", "shut", "write", "select"}
      /\ s = "shut" => refused
  BY AfterIs
<1> HIDE DEF s
<1>3. out' = out
  BY <1>1 DEF PushInv, Shape
<1>4. at' \in [Threads -> Stages] /\ ready' \subseteq {"OUT"}
  BY <1>1, <1>2 DEF PushInv, Shape
<1>5. t = "open" => s = "done"
  BY <1>2 DEF PushInv, Hands
<1>6. at["open"] \in {"start", "append", "write", "flush"} => t = "open"
  BY ThreadsAre DEF PushInv, Opening
<1>7. Hands'
  BY <1>1, <1>2, <1>3, <1>5, ThreadsAre DEF PushInv, Shape, Hands
<1>8. Answers'
  <2>1. \A u \in {"video", "audio"} : u = t => at[u] # "start"
    OBVIOUS
  <2>2. \A u \in {"video", "audio"} : at[u] = "start" => at'[u] = "start"
    BY <1>1, <2>1, ThreadsAre DEF PushInv, Shape
  <2>3. at'["loop"] = "shut" => refused
    BY <1>1, <1>2, ThreadsAre DEF PushInv, Shape, Answers
  <2>4. QED
    BY <2>2, <2>3 DEF PushInv, Answers
<1>9. Opening'
  <2>1. at'["open"] \notin {"start", "append", "write", "flush"}
    BY <1>1, <1>5, <1>6, ThreadsAre DEF PushInv, Shape
  <2>2. at'["open"] = "done" => at["open"] \in {"start", "append", "write", "flush", "done"}
    BY <1>1, ThreadsAre DEF PushInv, Shape
  <2>3. at'["open"] = "done" => at["video"] = "start" /\ at["audio"] = "start" /\ ~ hasKeyFrame
    BY <2>2 DEF PushInv, Opening
  <2>4. \A u \in {"video", "audio"} : at[u] = "start" => at'[u] = "start"
    BY <1>1, ThreadsAre DEF PushInv, Shape
  <2>5. QED
    BY <2>1, <2>3, <2>4 DEF Opening
<1>10. QED
  BY <1>3, <1>4, <1>7, <1>8, <1>9

\* HandleWrite, but for what it writes.
LEMMA LocksHold ==
    ASSUME PushInv, NEW t \in Threads, GetsLock(t) \/ HandleWriteFails(t) \/ WriteFails(t),
           dropped' = dropped, UNCHANGED <<pushVars, rtmpVars>>
    PROVE  PushInv'
<1>1. CASE GetsLock(t)
  <2>1. /\ at[t] = "write" /\ at' = [at EXCEPT ![t] = "flush"] /\ owner' = t
        /\ UNCHANGED <<out, ready, isClosed, queue, writing, registered, inbox, refused,
                       gone, exit, c2s, s2c, link, hasKeyFrame, client, svr, built, dropped>>
    BY <1>1 DEF GetsLock, Goes, connVars, netVars, pushVars, rtmpVars
  <2>2. at' \in [Threads -> Stages]
    BY <2>1, ThreadsAre DEF PushInv, Shape, Stages
  <2>3. Hands'
    BY <2>1, ThreadsAre DEF PushInv, Shape, Hands
  <2>4. Answers' /\ Opening'
    BY <2>1, ThreadsAre DEF PushInv, Shape, Answers, Opening
  <2>5. QED
    BY <2>1, <2>2, <2>3, <2>4, ControlHolds DEF PushInv, Shape
<1>2. CASE HandleWriteFails(t) \/ WriteFails(t)
  <2>1. /\ at[t] \in {"write", "flush"} /\ Resumes(t, out[t], refused)
        /\ owner' \in {owner, Nobody} /\ isClosed' \in BOOLEAN /\ registered' \in BOOLEAN
        /\ isClosed => isClosed'
        /\ UNCHANGED <<queue, writing, inbox, refused,
                       gone, exit, c2s, s2c, link, hasKeyFrame, client, svr, built, dropped>>
    BY <1>2 DEF HandleWriteFails, WriteFails, Closes, connVars, netVars, pushVars, rtmpVars,
       PushInv, Shape
  <2>2. /\ out' = out /\ at' \in [Threads -> Stages] /\ ready' \subseteq {"OUT"}
        /\ Hands' /\ Answers' /\ Opening'
    BY <2>1, ResumesIs
  <2>3. QED
    BY <2>1, <2>2, ControlHolds DEF PushInv, Shape
<1>3. QED
  BY <1>1, <1>2

\* The queue is written as far as there is room, and what is on its way the same.
LEMMA FlushesWay ==
    ASSUME PushInv, NEW t \in Threads, Flushes(t)
    PROVE  /\ queue' \in Seq(Wires) /\ Len(queue') <= MaxQueue
           /\ c2s' \in Streams /\ Len(c2s') <= Room /\ link' \in {link, "rst"}
           /\ link' = "up" => c2s' \o FlattenSeq(queue') = c2s \o FlattenSeq(queue)
<1> DEFINE units == FlattenSeq(queue)
           k == Len(units)
           room == Room - Len(c2s)
           n == IF link = "fin" \/ k < room THEN k ELSE room
<1>1. /\ link # "rst" \/ queue = <<>>
      /\ queue' = Written(queue, n)
      /\ link = "up" \/ n = 0 => c2s' = c2s \o SubSeq(units, 1, n) /\ link' = link
      /\ ~ (link = "up" \/ n = 0) => link' = "rst" /\ c2s' = c2s
  BY DEF Flushes
<1>2. /\ queue \in Seq(Wires) /\ Len(queue) \in Nat /\ MaxQueue \in Nat /\ Len(queue) <= MaxQueue
      /\ c2s \in Streams /\ Len(c2s) \in Nat /\ Room \in Nat /\ Len(c2s) <= Room
      /\ link \in {"up", "fin", "rst"}
  BY StreamJoins, TcpAssumption DEF PushInv, Shape
<1>3. units \in Streams /\ k \in Nat
  BY <1>2, FlatWires, StreamJoins
<1>4. n \in Nat /\ n <= k /\ (link = "up" => n <= room)
  BY <1>2, <1>3
<1>5. /\ Written(queue, n) \in Seq(Wires) /\ Len(Written(queue, n)) <= Len(queue)
      /\ Joined(SubSeq(units, 1, n), FlattenSeq(Written(queue, n)), units)
      /\ Len(SubSeq(units, 1, n)) = n
  BY <1>2, <1>4, WrittenIs
<1>6. queue = <<>> => k = 0
  BY FlatEmpty, StreamJoins
<1>7. link # "up" /\ n = 0 => n <= room
  BY <1>2
<1> DEFINE part == SubSeq(units, 1, n)
           q == Written(queue, n)
           rest == FlattenSeq(q)
<1>8. /\ part \in Streams /\ rest \in Streams /\ part \o rest = units /\ Len(part) = n
      /\ q \in Seq(Wires) /\ Len(q) <= Len(queue) /\ queue' = q
  BY <1>1, <1>5 DEF Joined
<1>9. (link = "up" \/ n = 0) => c2s' = c2s \o part /\ link' = link
  BY <1>1
<1> HIDE DEF part, q, rest
<1>10. /\ c2s \o part \in Streams /\ Len(c2s \o part) = Len(c2s) + n
       /\ (c2s \o part) \o rest = c2s \o (part \o rest)
  <2>1. c2s \in Streams /\ part \in Streams /\ rest \in Streams
    BY <1>2, <1>8
  <2>2. c2s \o part \in Streams /\ Len(c2s \o part) = Len(c2s) + Len(part)
    BY <2>1, StreamJoins, Zenon
  <2>3. (c2s \o part) \o rest = c2s \o (part \o rest)
    BY <2>1, StreamAssociates, Zenon
  <2>4. QED
    BY <1>8, <2>2, <2>3
<1>11. queue' \in Seq(Wires) /\ Len(queue') <= MaxQueue
  <2>1. Len(q) \in Nat
    BY <1>8
  <2>2. QED
    BY <1>2, <1>8, <2>1
<1>12. CASE link = "up" \/ n = 0
  <2>1. n <= room
    BY <1>4, <1>7, <1>12
  <2> DEFINE l == Len(c2s)
  <2>2. Len(c2s') = l + n /\ l \in Nat /\ n <= Room - l /\ c2s' \in Streams /\ link' = link
    BY <1>2, <1>9, <1>10, <1>12, <2>1
  <2>3. l + n <= Room
    BY <1>2, <1>4, <2>2
  <2>4. c2s' \o FlattenSeq(queue') = c2s \o FlattenSeq(queue)
    <3>1. (c2s \o part) \o rest = c2s \o units
      BY <1>8, <1>10
    <3>2. c2s' = c2s \o part /\ FlattenSeq(queue') = rest
      BY <1>8, <1>9, <1>12 DEF rest
    <3>3. QED
      BY <3>1, <3>2
  <2>5. QED
    BY <1>11, <2>2, <2>3, <2>4
<1>13. CASE ~ (link = "up" \/ n = 0)
  BY <1>1, <1>2, <1>11, <1>13
<1>14. QED
  BY <1>12, <1>13

\* HandleWrite moves units from the queue to the wire.
LEMMA FlushesHolds ==
    ASSUME PushInv, NEW t \in Threads, Flushes(t),
           dropped' = dropped, UNCHANGED <<pushVars, rtmpVars>>
    PROVE  PushInv'
<1>1. /\ queue' \in Seq(Wires) /\ Len(queue') <= MaxQueue
      /\ c2s' \in Streams /\ Len(c2s') <= Room /\ link' \in {link, "rst"}
      /\ link' = "up" => c2s' \o FlattenSeq(queue') = c2s \o FlattenSeq(queue)
  BY FlushesWay
<1>2. /\ at[t] = "flush" /\ Resumes(t, out[t], refused)
      /\ owner' = Nobody /\ writing' \in BOOLEAN /\ registered' \in BOOLEAN
      /\ UNCHANGED <<isClosed, inbox, refused, gone, exit, s2c, hasKeyFrame, client, svr, built,
                     dropped>>
  BY DEF Flushes, Asks, pushVars, rtmpVars, PushInv, Shape
<1>3. link' = "up" => link = "up"
  BY <1>1
<1>4. /\ out' = out /\ at' \in [Threads -> Stages] /\ ready' \subseteq {"OUT"}
      /\ Hands' /\ Answers' /\ Opening'
  BY <1>2, <1>3, ResumesIs
<1>5. Shape'
  BY <1>1, <1>2, <1>4 DEF PushInv, Shape
<1>6. Resting' /\ Downstream' /\ InOrder'
  BY <1>2, Afar
<1>7. Upstream'
  BY <1>1, <1>2, <1>3, <1>4, UpstreamStays
<1>8. QED
  BY <1>4, <1>5, <1>6, <1>7 DEF PushInv

\* A thread that sends, whatever its statement.
LEMMA SendingHolds ==
    ASSUME PushInv, NEW t \in Threads, Sending(t), dropped' = (dropped \/ Overflows(t)),
           UNCHANGED <<pushVars, rtmpVars>>
    PROVE  PushInv'
<1>1. CASE Appends(t)
  BY <1>1, AppendsHolds
<1>2. CASE at[t] # "append"
  <2>1. ~ Overflows(t)
    BY <1>2 DEF Overflows
  <2>2. dropped' = dropped
    BY <2>1 DEF PushInv, Shape
  <2>3. GetsLock(t) \/ HandleWriteFails(t) \/ WriteFails(t) \/ Flushes(t)
    BY <1>2 DEF Sending, Appends
  <2>4. QED
    BY <2>2, <2>3, LocksHold, FlushesHolds
<1>3. QED
  BY <1>1, <1>2 DEF Sending, GetsLock, Goes, HandleWriteFails, Flushes, WriteFails

\* The loop, but for what it reads.
LEMMA LoopingHolds ==
    ASSUME PushInv, Looping, dropped' = (dropped \/ Overflows("loop")),
           UNCHANGED <<pushVars, rtmpVars>>
    PROVE  PushInv'
<1>1. CASE Sending("loop")
  BY <1>1, ThreadsAre, SendingHolds
<1>2. CASE Selects \/ HandleRead \/ ReadsNothing \/ ReadFails \/ Shuts
  <2>1. at["loop"] # "append"
    BY <1>2 DEF Selects, HandleRead, ReadsNothing, ReadFails, Shuts, Goes
  <2>2. ~ Overflows("loop")
    BY <2>1 DEF Overflows
  <2>3. dropped' = dropped
    BY <2>2 DEF PushInv, Shape
  <2>4. QED
    BY <1>2, <2>3, LoopHolds
<1>3. QED
  BY <1>1, <1>2 DEF Looping

\* The server's connection between two reads, and what it has answered.
LEMMA ServerIs ==
    ASSUME PushInv, link = "up"
    PROVE  /\ Faithful(svr, dropped) /\ svr.ok /\ svr.out = <<>>
           /\ svr.hs # "C0C1" => \E Q : Hears(<<>>, svr.taken, svr.publishing, Q)
           /\ svr.hs = "C0C1" => s2c = <<>> /\ inbox = <<>> /\ client.hs = "S0S1S2"
<1>1. Faithful(svr, dropped) /\ svr.ok /\ svr.out = <<>>
  BY DEF PushInv, Resting, Upstream, Answers, InOrder, Faithful
<1>2. ASSUME svr.hs # "C0C1" PROVE \E Q : Hears(<<>>, svr.taken, svr.publishing, Q)
  <2>1. PICK Q : Heard(Q)
    BY <1>2 DEF PushInv, Downstream
  <2>2. s2c \in Streams /\ Grown(s2c, FlattenSeq(<<>>), s2c)
    <3>1. s2c \in Streams
      BY DEF PushInv, Shape
    <3>2. FlattenSeq(<<>>) = <<>> /\ s2c \o <<>> = s2c
      BY <3>1, FlatEmpty, StreamJoins
    <3>3. QED
      BY <3>1, <3>2 DEF Grown
  <2>3. Hears(<<>>, svr.taken, svr.publishing, Q)
    BY <2>1, <2>2 DEF Hears, Heard
  <2>4. QED
    BY <2>3
<1>3. svr.hs = "C0C1" => s2c = <<>> /\ inbox = <<>> /\ client.hs = "S0S1S2"
  BY DEF PushInv, Downstream
<1>4. QED
  BY <1>1, <1>2, <1>3

\* The server reads what has come.
LEMMA ServerReadsHolds ==
    ASSUME PushInv, ServerReads
    PROVE  PushInv'
<1> DEFINE c == ServerOnRead([svr EXCEPT !.reader.buf = @ \o c2s])
           rest == FlattenSeq(queue)
           way == c2s \o rest
           h == client.hs
           loop == out["loop"]
<1>1. /\ link = "up" /\ c2s # <<>>
      /\ svr' = [c EXCEPT !.out = <<>>]
      /\ s2c' = s2c \o FlattenSeq(c.out) /\ c2s' = <<>>
      /\ c.ok => link' = link
      /\ ~ c.ok => link' = "fin"
      /\ UNCHANGED <<at, out, ready, owner, isClosed, queue, writing, registered, inbox, refused,
                     gone, exit, hasKeyFrame, client, built, dropped>>
  BY DEF ServerReads, ServerCloses, threadVars, connVars, pushVars
<1>2. PICK V \in Seq(Media), A \in Seq({Sound}), w \in Streams :
        /\ w = way /\ V \in Seq(Messages) /\ A \in Seq(Messages)
        /\ out["video"] = Packets(V) /\ out["audio"] = Packets(A)
        /\ Flows(h, svr, loop, isClosed, dropped, hasKeyFrame, w, V)
  BY <1>1, UpstreamIs
<1>3. c2s \in Streams /\ rest \in Streams /\ s2c \in Streams /\ Grown(c2s, rest, w)
  BY <1>2, FlatWires DEF PushInv, Shape, Grown
<1>4. Served(c, svr, rest, loop, isClosed, dropped, hasKeyFrame, V)
  <2>1. /\ Faithful(svr, dropped) /\ svr.ok /\ svr.out = <<>>
        /\ svr.hs # "C0C1" => \E Q : Hears(<<>>, svr.taken, svr.publishing, Q)
        /\ svr.hs = "C0C1" => s2c = <<>> /\ inbox = <<>> /\ client.hs = "S0S1S2"
    BY <1>1, ServerIs
  <2> HIDE DEF rest, way, loop
  <2>2. Flows(client.hs, svr, loop, isClosed, dropped, hasKeyFrame, w, V)
    BY <1>2 DEF h
  <2>3. QED
    BY <1>3, <2>1, <2>2, ServerReadIs
<1> HIDE DEF c, way, loop
<1>5. /\ Faithful(c, dropped) /\ c.taken = svr.taken
      /\ svr.publishing => c.publishing
      /\ c.hs = "C0C1" => svr.hs = "C0C1" /\ c.out = <<>>
      /\ c.hs # "C0C1" => \E Q : Hears(c.out, c.taken, c.publishing, Q)
      /\ c.ok => Flows(client.hs, c, loop, isClosed, dropped, hasKeyFrame, rest, V)
  BY <1>4 DEF Served
<1>6. Connected(c) /\ c.out \in Seq(Wires)
  BY <1>5 DEF Faithful, Connected
<1>7. /\ Connected(svr') /\ svr'.hs = c.hs /\ svr'.publishing = c.publishing
      /\ svr'.reader = c.reader /\ svr'.out = <<>> /\ svr'.ok = c.ok
      /\ svr'.taken = c.taken /\ svr'.delivered = c.delivered
  <2>1. svr' = Saying(c, <<>>) /\ <<>> \in Seq(Wires)
    BY <1>1 DEF Saying
  <2> DEFINE e == <<>>
             d == Saying(c, e)
  <2>2. Connected(c) /\ e \in Seq(Wires) /\ svr' = d
    BY <1>6, <2>1
  <2> HIDE DEF e
  <2>3. /\ Connected(d) /\ d.hs = c.hs /\ d.publishing = c.publishing /\ d.reader = c.reader
        /\ d.out = e
    BY <2>2, SayingIs
  <2>4. d.ok = c.ok
    BY <2>2, SayingIs
  <2>5. d.taken = c.taken
    BY <2>2, SayingIs
  <2>6. d.delivered = c.delivered
    BY <2>2, SayingIs
  <2> HIDE DEF d
  <2>7. QED
    BY <2>2, <2>3, <2>4, <2>5, <2>6 DEF e
<1>8. FlattenSeq(c.out) \in Streams /\ s2c' \in Streams
  <2>1. FlattenSeq(c.out) \in Streams
    BY <1>6, FlatWires
  <2>2. QED
    BY <1>1, <1>3, <2>1, StreamJoins
<1>9. Shape'
  <2>1. <<>> \in Streams /\ Len(<<>>) <= Room /\ link' \in {"up", "fin", "rst"}
    BY <1>1, StreamJoins, TcpAssumption DEF PushInv, Shape
  <2>2. QED
    BY <1>1, <1>8, <2>1 DEF PushInv, Shape
<1>10. Resting'
  BY <1>1, <1>7 DEF PushInv, Resting
<1>11. Hands'
  BY <1>1 DEF PushInv, Hands
<1>12. Answers'
  BY <1>1, <1>5, <1>7 DEF PushInv, Answers, Faithful
<1>13. Opening'
  BY <1>1 DEF PushInv, Opening
<1>14. Downstream'
  <2>1. ASSUME c.hs # "C0C1" PROVE \E Q : Heard(Q)'
    <3>1. PICK Q : Hears(c.out, c.taken, c.publishing, Q)
      BY <1>5, <2>1
    <3>2. Receives(s2c', Q)
      BY <1>1, <3>1 DEF Hears, Grown
    <3>3. Receives(s2c, Q)'
      BY <1>1, <3>2 DEF Receives
    <3>4. Heard(Q)'
      BY <1>1, <1>7, <3>1, <3>3 DEF Hears, Heard
    <3>5. QED
      BY <3>4
  <2>2. c.hs = "C0C1" => inbox' = <<>> /\ s2c' = <<>>
    BY <1>1, <1>5, FlatEmpty, StreamJoins DEF PushInv, Downstream
  <2>3. client.hs # "S0S1S2" => c.hs # "C0C1"
    BY <1>5 DEF PushInv, Downstream
  <2>4. QED
    BY <1>1, <1>7, <2>1, <2>2, <2>3 DEF PushInv, Downstream
<1>15. InOrder'
  BY <1>1, <1>5, <1>7 DEF Faithful, InOrder
<1>16. Upstream'
  <2>1. svr'.hs \in {"C0C1", "C2", "COMPLETE"}
    BY <1>5, <1>7 DEF Faithful
  <2>2. CASE c.ok
    <3>1. Flows(h, c, loop, isClosed, dropped, hasKeyFrame, rest, V)
      BY <1>5, <2>2
    <3>2. Flows(h, svr', loop, isClosed, dropped, hasKeyFrame, rest, V)
      <4> HIDE DEF h, rest
      <4> DEFINE d == svr'
      <4>1. /\ d.hs = c.hs /\ d.publishing = c.publishing /\ d.reader = c.reader
            /\ d.delivered = c.delivered
        BY <1>7
      <4> HIDE DEF d
      <4>2. Flows(h, d, loop, isClosed, dropped, hasKeyFrame, rest, V)
        BY <3>1, <4>1 DEF Flows, Broken, Spoken, Knocking, Entering, Talking
      <4>3. QED
        BY <4>2 DEF d
    <3>3. rest = c2s' \o FlattenSeq(queue')
      BY <1>1, <1>3, StreamJoins
    <3>4. Flows(client'.hs, svr', out'["loop"], isClosed', dropped', hasKeyFrame', rest, V)
      BY <1>1, <3>2 DEF loop
    <3>5. out'["video"] = Packets(V) /\ out'["audio"] = Packets(A)
      BY <1>1, <1>2
    <3>6. QED
      BY <2>1, <3>3, <3>4, <3>5, UpstreamNext
  <2>3. CASE ~ c.ok
    BY <1>1, <2>1, <2>3 DEF Upstream
  <2>4. QED
    BY <2>2, <2>3
<1>17. QED
  BY <1>9, <1>10, <1>11, <1>12, <1>13, <1>14, <1>15, <1>16 DEF PushInv

\* The server closes its socket.
LEMMA ServerLeavesHolds ==
    ASSUME PushInv, ServerLeaves
    PROVE  PushInv'
<1>1. /\ link' \in {"fin", "rst"} /\ c2s' = <<>>
      /\ UNCHANGED <<at, out, ready, owner, isClosed, queue, writing, registered, inbox, refused,
                     gone, s2c, exit, hasKeyFrame, client, svr, built, dropped>>
  BY DEF ServerLeaves, ServerCloses, threadVars, connVars, pushVars, rtmpVars
<1>2. Shape'
  <2>1. <<>> \in Streams /\ Len(<<>>) <= Room
    BY StreamJoins, TcpAssumption
  <2>2. QED
    BY <1>1, <2>1 DEF PushInv, Shape
<1>3. Resting' /\ Downstream' /\ InOrder'
  BY <1>1, Afar
<1>4. Hands' /\ Answers'
  BY <1>1 DEF PushInv, Hands, Answers
<1>5. Opening'
  BY <1>1 DEF PushInv, Opening
<1>6. Upstream'
  BY <1>1 DEF PushInv, Upstream
<1>7. QED
  BY <1>2, <1>3, <1>4, <1>5, <1>6 DEF PushInv

\* What a reader that carries messages has in its buffer can be taken from it and be
\* put back.
LEMMA FedBack ==
    ASSUME NEW r, NEW rest, NEW Q, Carries(r, rest, Q)
    PROVE  /\ Fed(r, <<>>).buf = <<>> /\ Fed(r, <<>>).size = r.size
           /\ Fed(Fed(r, <<>>), r.buf) = r
<1>1. \/ \E size : r = Idle(r.buf, size)
      \/ \E size, m, got, state : r = InChunk(r.buf, size, m, got, state)
  BY DEF Carries, Within, Partial
<1>2. ASSUME NEW size, r = Idle(r.buf, size)
      PROVE  /\ Fed(r, <<>>).buf = <<>> /\ Fed(r, <<>>).size = r.size
             /\ Fed(Fed(r, <<>>), r.buf) = r
  <2> DEFINE b == r.buf
             d == Idle(<<>>, size)
  <2>1. Fed(r, <<>>) = d /\ r = Idle(b, size)
    BY <1>2, FedIs
  <2>2. d = Idle(d.buf, size) /\ d.buf = <<>> /\ d.size = size /\ r.size = size
    BY <2>1, IdleIs
  <2> HIDE DEF b, d
  <2>3. Fed(d, b) = Idle(b, size)
    BY <2>2, FedIs
  <2>4. QED
    BY <2>1, <2>2, <2>3 DEF b
<1>3. ASSUME NEW size, NEW m, NEW got, NEW state, r = InChunk(r.buf, size, m, got, state)
      PROVE  /\ Fed(r, <<>>).buf = <<>> /\ Fed(r, <<>>).size = r.size
             /\ Fed(Fed(r, <<>>), r.buf) = r
  <2> DEFINE b == r.buf
             d == InChunk(<<>>, size, m, got, state)
  <2>1. Fed(r, <<>>) = d /\ r = InChunk(b, size, m, got, state)
    BY <1>3, FedIs
  <2>2. /\ d = InChunk(d.buf, size, m, got, state) /\ d.buf = <<>> /\ d.size = size
        /\ r.size = size
    BY <2>1 DEF InChunk
  <2> HIDE DEF b, d
  <2>3. Fed(d, b) = InChunk(b, size, m, got, state)
    BY <2>2, FedIs
  <2>4. QED
    BY <2>1, <2>2, <2>3 DEF b
<1>4. QED
  BY <1>1, <1>2, <1>3

\* What the loop makes of a read.
LEMMA ClientReadIs ==
    ASSUME PushInv, NEW got \in Streams, NEW rest \in Streams, Grown(got, rest, s2c)
    PROVE  LET x == [client EXCEPT !.reader.buf = inbox \o got] IN
           \/ /\ ClientOnRead(x) = x /\ client.hs = "S0S1S2"
              /\ svr.hs = "C0C1" => got = <<>> /\ rest = <<>>
              /\ svr.hs # "C0C1" => \E Q : Waits(inbox \o got, rest, Q)
           \/ svr.hs # "C0C1" /\ Told(ClientOnRead(x), rest)
<1> DEFINE x == [client EXCEPT !.reader.buf = inbox \o got]
<1>1. Connected(client) /\ (svr.publishing => ~ svr.taken)
  BY DEF PushInv, Resting, Answers
<1>2. CASE client.hs = "S0S1S2" /\ svr.hs = "C0C1"
  <2>1. inbox = <<>> /\ s2c = <<>>
    BY <1>2 DEF PushInv, Downstream
  <2>2. got = <<>> /\ rest = <<>>
    <3>1. Len(got) \in Nat /\ Len(rest) \in Nat /\ Len(got \o rest) = Len(got) + Len(rest)
          /\ Len(<<>>) = 0 /\ got \o rest = <<>>
      BY <2>1, StreamJoins DEF Grown
    <3>2. Len(got) = 0 /\ Len(rest) = 0
      BY <3>1
    <3>3. QED
      BY <3>2 DEF Streams
  <2>3. inbox \o got = <<>>
    BY <2>1, <2>2, StreamJoins
  <2> DEFINE y == With(client, Fed(client.reader, <<>>))
  <2>4. x = y
    BY <1>1, <2>3, FedClient
  <2>5. client.reader = Idle(<<>>, 1)
    BY <1>2, FirstClient DEF PushInv, Downstream
  <2>6. Connected(y) /\ y.reader = Fed(client.reader, <<>>) /\ y.hs = client.hs
    <3> DEFINE r == Fed(client.reader, <<>>)
    <3>1. y = With(client, r)
      OBVIOUS
    <3> HIDE DEF r
    <3>2. Connected(With(client, r)) /\ With(client, r).reader = r
          /\ With(client, r).hs = client.hs
      BY <1>1, WithIs
    <3>3. QED
      BY <3>1, <3>2 DEF r
  <2>7. Fed(client.reader, <<>>) = Idle(<<>>, 1)
    BY <2>5 DEF Fed, Idle
  <2>8. y.reader.buf = <<>>
    BY <2>6, <2>7, IdleIs
  <2> HIDE DEF y
  <2>9. ~ Arrived(y)
    BY <1>2, <2>6, <2>8, StreamJoins DEF Arrived, Awaited
  <2>10. ClientOnRead(y) = y
    BY <1>2, <2>6, <2>9, OnceIs
  <2>11. QED
    BY <1>2, <2>2, <2>4, <2>10
<1>3. CASE client.hs = "S0S1S2" /\ svr.hs # "C0C1"
  <2>1. PICK Q : Heard(Q)
    BY <1>3 DEF PushInv, Downstream
  <2>2. Waits(inbox, s2c, Q)
    BY <1>3, <2>1 DEF Heard, Receives, Waits
  <2>3. client = NewConnection("S0S1S2", FALSE)
    BY <1>3 DEF PushInv, Downstream
  <2>4. \/ ClientOnRead(x) = x /\ Waits(inbox \o got, rest, Q)
        \/ Told(ClientOnRead(x), rest)
    BY <1>1, <2>2, <2>3, ClientEnters
  <2> HIDE DEF x
  <2>5. QED
    BY <1>3, <2>4 DEF x
<1>4. CASE client.hs # "S0S1S2"
  <2>1. svr.hs # "C0C1" /\ client.hs = "COMPLETE" /\ client.size = 2
    BY <1>4 DEF PushInv, Downstream
  <2>2. PICK Q : Heard(Q)
    BY <2>1 DEF PushInv, Downstream
  <2>3. /\ client.out = <<>> /\ client.ok /\ client.reader.size \in {1, 2}
        /\ client.publishing => svr.publishing
    BY DEF PushInv, Resting, Answers
  <2>4. Told(ClientOnRead(x), rest)
    BY <1>1, <2>1, <2>2, <2>3, ClientReadsOn DEF Heard
  <2>5. QED
    BY <2>1, <2>4
<1>5. QED
  BY <1>2, <1>3, <1>4

\* The client has read, and has packets to send.
LEMMA FlowsTold ==
    ASSUME NEW h \in {"S0S1S2", "COMPLETE"}, NEW sv, NEW closed, NEW lost, NEW key, NEW way,
           NEW V, Flows(h, sv, <<>>, closed, lost, key, way, V), sv.hs # "C0C1",
           NEW o, NEW K, Says(h = "S0S1S2", o, K)
    PROVE  Flows("COMPLETE", sv, o, closed, lost, key, way, V)
<1>1. PICK L \in Seq(Requests) :
        \/ h = "COMPLETE" /\ Broken(sv, <<>>, way, L)
        \/ \E P \in Seq(FromClient) :
             /\ Sane(Range(sv.delivered), sv.publishing, P, V, closed, lost, key)
             /\ Spoken(h, sv, <<>>, closed, way, P, L)
  BY DEF Flows
<1>2. K \in Seq(Requests)
  BY DEF Says
<1>3. h = "COMPLETE" => Says(FALSE, o, K)
  BY DEF Says
<1>4. h = "S0S1S2" => Says(TRUE, o, K)
  BY DEF Says
<1>5. CASE h = "COMPLETE" /\ Broken(sv, <<>>, way, L)
  <2>1. Broken(sv, o, way, K)
    BY <1>3, <1>5 DEF Broken
  <2>2. QED
    BY <1>2, <2>1 DEF Flows
<1>6. ASSUME NEW P \in Seq(FromClient),
             Sane(Range(sv.delivered), sv.publishing, P, V, closed, lost, key),
             Spoken(h, sv, <<>>, closed, way, P, L)
      PROVE  Flows("COMPLETE", sv, o, closed, lost, key, way, V)
  <2>1. CASE h = "S0S1S2"
    <3>1. Knocking(sv, <<>>, way) /\ P = <<>>
      BY <1>6, <2>1 DEF Spoken
    <3>2. Entering(sv, o, closed, way, P, K)
      BY <1>4, <2>1, <3>1 DEF Knocking, Entering
    <3>3. Spoken("COMPLETE", sv, o, closed, way, P, K)
      BY <3>2 DEF Spoken
    <3>4. QED
      BY <1>2, <1>6, <3>3 DEF Flows
  <2>2. CASE h = "COMPLETE"
    <3>1. ~ Says(TRUE, <<>>, L)
      BY DEF Says
    <3>2. \/ Entering(sv, <<>>, closed, way, P, L)
          \/ Talking(sv, <<>>, way, P, L)
      BY <1>6, <2>2 DEF Spoken
    <3>3. Entering(sv, <<>>, closed, way, P, L) => Entering(sv, o, closed, way, P, K)
      BY <1>3, <2>2, <3>1 DEF Entering
    <3>4. Talking(sv, <<>>, way, P, L) => Talking(sv, o, way, P, K)
      BY <1>3, <2>2 DEF Talking
    <3>5. Spoken("COMPLETE", sv, o, closed, way, P, K)
      BY <3>2, <3>3, <3>4 DEF Spoken
    <3>6. QED
      BY <1>2, <1>6, <3>5 DEF Flows
  <2>3. QED
    BY <2>1, <2>2
<1>7. QED
  BY <1>1, <1>5, <1>6

\* OnRead while the handshake's packet is awaited.
LEMMA WaitingHolds ==
    ASSUME PushInv, NEW got \in Streams, NEW rest \in Streams, at["loop"] = "recv",
           client.hs = "S0S1S2",
           svr.hs = "C0C1" => got = <<>> /\ rest = <<>>,
           svr.hs # "C0C1" => \E Q : Waits(inbox \o got, rest, Q),
           inbox' = inbox \o got, s2c' = rest, refused' = FALSE, client' = client,
           Resumes("loop", <<>>, FALSE), owner' = Nobody,
           UNCHANGED <<isClosed, queue, writing, registered, gone, c2s, link,
                       exit, hasKeyFrame, svr, built, dropped>>
    PROVE  PushInv'
<1> DEFINE s == After("loop", <<>>, FALSE)
<1>1. /\ at' = [at EXCEPT !["loop"] = s] /\ ready' = {}
      /\ out' = [out EXCEPT !["loop"] = <<>>]
  BY DEF Resumes
<1>2. s \in {"write", "select"} /\ (ready = {} => s = "select")
  BY DEF After
<1> HIDE DEF s
<1>3. out' = out
  BY <1>1 DEF PushInv, Shape, Hands
<1>4. inbox' \in Streams
  BY StreamJoins DEF PushInv, Shape
<1>5. Shape'
  BY <1>1, <1>2, <1>3, <1>4, ThreadsAre DEF PushInv, Shape, Stages
<1>6. Resting' /\ InOrder'
  BY DEF PushInv, Resting, InOrder, First
<1>7. Hands'
  BY <1>1, <1>2, <1>3, ThreadsAre DEF PushInv, Shape, Hands
<1>8. Answers'
  BY <1>1, <1>2, ThreadsAre DEF PushInv, Shape, Answers
<1>9. Opening'
  <2>1. svr.hs = "C0C1" => inbox' = inbox /\ s2c' = s2c
    BY StreamJoins DEF PushInv, Shape, Downstream
  <2>2. at["open"] \in {"start", "append", "write", "flush"} => s = "select" /\ svr.hs = "C0C1"
    BY <1>2 DEF PushInv, Opening
  <2>3. at'["open"] = at["open"] /\ at'["video"] = at["video"] /\ at'["audio"] = at["audio"]
        /\ at'["loop"] = s
    BY <1>1, ThreadsAre DEF PushInv, Shape
  <2>4. QED
    BY <1>1, <1>3, <2>1, <2>2, <2>3 DEF PushInv, Opening
<1>10. Downstream'
  <2>1. ASSUME svr.hs # "C0C1" PROVE \E Q : Heard(Q)'
    <3>1. PICK Q : Waits(inbox \o got, rest, Q)
      BY <2>1
    <3>2. Receives(s2c, Q)'
      BY <3>1 DEF Waits, Receives
    <3>3. Heard(Q)'
      BY <3>1, <3>2 DEF Waits, Heard
    <3>4. QED
      BY <3>3
  <2>2. svr.hs = "C0C1" => inbox' = <<>> /\ s2c' = <<>>
    BY StreamJoins DEF PushInv, Downstream
  <2>3. QED
    BY <2>1, <2>2 DEF PushInv, Downstream
<1>11. Upstream'
  BY <1>3, UpstreamStays
<1>12. QED
  BY <1>5, <1>6, <1>7, <1>8, <1>9, <1>10, <1>11 DEF PushInv

\* OnRead when the handshake is, or has become, complete.
LEMMA ToldHolds ==
    ASSUME PushInv, NEW rest \in Streams, at["loop"] = "recv",
           NEW c, svr.hs # "C0C1", Told(c, rest),
           inbox' = c.reader.buf, s2c' = rest, refused' = ~ c.ok,
           client' = [c EXCEPT !.reader.buf = <<>>, !.out = <<>>, !.ok = TRUE],
           Resumes("loop", c.out, ~ c.ok), owner' = Nobody,
           UNCHANGED <<isClosed, queue, writing, registered, gone, c2s, link,
                       exit, hasKeyFrame, svr, built, dropped>>
    PROVE  PushInv'
<1>1. /\ Connected(c) /\ (c.ok \/ svr.taken) /\ c.hs = "COMPLETE" /\ c.size = 2
      /\ client.publishing => c.publishing
      /\ c.publishing => svr.publishing
      /\ \E L : Says(client.hs = "S0S1S2", c.out, L)
      /\ \E Q : Awaits(c, rest, Q)
  BY DEF Told
<1>2. PICK Q : Awaits(c, rest, Q)
  BY <1>1
<1>3. PICK L : Says(client.hs = "S0S1S2", c.out, L)
  BY <1>1
<1>4. /\ Fed(c.reader, <<>>).buf = <<>> /\ Fed(c.reader, <<>>).size = c.reader.size
      /\ Fed(Fed(c.reader, <<>>), c.reader.buf) = c.reader
  BY <1>2, FedBack DEF Awaits
<1> DEFINE r == Fed(c.reader, <<>>)
           y == With(c, r)
           z == Saying(y, <<>>)
<1>5. client' = Going(z, TRUE)
  BY <1>1 DEF Connected, Fed, With, Saying, Going
<1>6. Connected(y) /\ y.reader = r /\ y.hs = c.hs /\ y.size = c.size
      /\ y.publishing = c.publishing
  <2> HIDE DEF r
  <2>1. Connected(With(c, r)) /\ With(c, r).reader = r /\ With(c, r).hs = c.hs
    BY <1>1, WithIs
  <2>2. With(c, r).size = c.size
    BY <1>1, WithIs
  <2>3. With(c, r).publishing = c.publishing
    BY <1>1, WithIs
  <2>4. QED
    BY <2>1, <2>2, <2>3
<1> HIDE DEF y
<1>7. /\ Connected(z) /\ z.reader = r /\ z.hs = c.hs /\ z.size = c.size
      /\ z.publishing = c.publishing /\ z.out = <<>>
  <2> HIDE DEF r
  <2> DEFINE e == <<>>
  <2>1. e \in Seq(Wires) /\ z = Saying(y, e)
    OBVIOUS
  <2> HIDE DEF e
  <2>2. Connected(Saying(y, e)) /\ Saying(y, e).reader = y.reader /\ Saying(y, e).hs = y.hs
    BY <1>6, <2>1, SayingIs
  <2>3. Saying(y, e).size = y.size /\ Saying(y, e).out = e
    BY <1>6, <2>1, SayingIs
  <2>4. Saying(y, e).publishing = y.publishing
    BY <1>6, <2>1, SayingIs
  <2> HIDE DEF z
  <2>5. QED
    BY <1>6, <2>1, <2>2, <2>3, <2>4 DEF e
<1> HIDE DEF z
<1>8. /\ Connected(client') /\ client'.reader = r /\ client'.hs = "COMPLETE"
      /\ client'.size = 2 /\ client'.publishing = c.publishing /\ client'.out = <<>>
      /\ client'.ok
  <2> HIDE DEF r
  <2> DEFINE yes == TRUE
  <2>1. yes /\ yes \in BOOLEAN /\ client' = Going(z, yes)
    BY <1>5
  <2> HIDE DEF yes
  <2>1a. Connected(z) /\ yes \in BOOLEAN
    BY <1>7, <2>1
  <2>2. Connected(Going(z, yes)) /\ Going(z, yes).reader = z.reader /\ Going(z, yes).hs = z.hs
    BY <2>1a, GoingIs
  <2>3. Going(z, yes).size = z.size /\ Going(z, yes).out = z.out
    BY <2>1a, GoingIs
  <2>4. Going(z, yes).publishing = z.publishing
    BY <2>1a, GoingIs
  <2>5. Going(z, yes).ok = yes
    BY <2>1a, GoingIs
  <2> DEFINE g == Going(z, yes)
  <2> HIDE DEF g
  <2>6. Connected(g) /\ g.reader = z.reader /\ g.hs = z.hs /\ g.size = z.size /\ g.out = z.out
    BY <2>2, <2>3 DEF g
  <2>7. g.publishing = z.publishing /\ g.ok
    BY <2>1, <2>4, <2>5 DEF g
  <2>8. client' = g
    BY <2>1 DEF g
  <2>9. QED
    BY <1>1, <1>7, <2>6, <2>7, <2>8
<1> DEFINE s == After("loop", c.out, ~ c.ok)
           o == c.out
<1>9. /\ at' = [at EXCEPT !["loop"] = s] /\ ready' \subseteq ready
      /\ out' = [out EXCEPT !["loop"] = o]
  BY DEF Resumes, PushInv, Shape
<1>10. /\ s \in {"append", "shut", "write", "select"} /\ (s = "append" <=> o # <<>>)
       /\ s = "shut" => ~ c.ok
  BY ThreadsAre, AfterIs
<1>11. o \in Seq(Wires)
  BY <1>1 DEF Connected
<1> HIDE DEF s, o
<1>12. c.reader.buf \in Streams
  BY <1>2, CarriesStreams DEF Awaits
<1>13. /\ at'["open"] = at["open"] /\ at'["video"] = at["video"] /\ at'["audio"] = at["audio"]
       /\ at'["loop"] = s
       /\ out'["open"] = out["open"] /\ out'["video"] = out["video"]
       /\ out'["audio"] = out["audio"] /\ out'["loop"] = o
  BY <1>9, ThreadsAre DEF PushInv, Shape
<1>14. Shape'
  <2>1. at' \in [Threads -> Stages] /\ out' \in [Threads -> Seq(Wires)]
    BY <1>9, <1>10, <1>11, ThreadsAre DEF PushInv, Shape, Stages
  <2>2. refused' \in BOOLEAN
    BY <1>1 DEF Connected
  <2>3. QED
    BY <1>9, <1>12, <2>1, <2>2 DEF PushInv, Shape
<1>15. Resting'
  <2>1. client'.reader.buf = <<>> /\ client'.reader.size \in {1, 2}
    BY <1>2, <1>4, <1>8 DEF Awaits
  <2> HIDE DEF r
  <2>2. Connected(svr) /\ svr.out = <<>>
    BY DEF PushInv, Resting
  <2>3. QED
    BY <1>8, <2>1, <2>2 DEF Resting
<1>16. Hands'
  BY <1>10, <1>13, ThreadsAre DEF PushInv, Hands
<1>17. Answers'
  BY <1>1, <1>8, <1>10, <1>13 DEF PushInv, Answers
<1>18. Opening'
  BY <1>13 DEF PushInv, Opening
<1>19. Downstream'
  <2>1. Receives(s2c, Q)'
    <3>1. Fed(client'.reader, inbox') = c.reader
      BY <1>4, <1>8
    <3>2. Carries(Fed(client'.reader, inbox'), s2c', Q)
      BY <1>2, <3>1 DEF Awaits
    <3>3. QED
      BY <1>8, <3>2 DEF Receives
  <2>2. Heard(Q)'
    <3>1. client'.reader.size = c.reader.size
      BY <1>4, <1>8
    <3> HIDE DEF r
    <3>2. QED
      BY <1>2, <2>1, <3>1 DEF Awaits, Heard
  <2>3. QED
    BY <1>8, <2>2 DEF Downstream
<1>20. InOrder'
  BY DEF PushInv, InOrder, First
<1>21. Upstream'
  <2>1. svr'.hs \in {"C0C1", "C2", "COMPLETE"}
    BY DEF PushInv, Upstream
  <2>2. CASE link = "up"
    <3>1. PICK V \in Seq(Media), A \in Seq({Sound}), way \in Streams :
            /\ way = c2s \o FlattenSeq(queue)
            /\ out["video"] = Packets(V) /\ out["audio"] = Packets(A)
            /\ Flows(client.hs, svr, out["loop"], isClosed, dropped, hasKeyFrame, way, V)
      BY <2>2, UpstreamIs
    <3> DEFINE h == client.hs
    <3>2. h \in {"S0S1S2", "COMPLETE"} /\ out["loop"] = <<>>
      BY DEF PushInv, Downstream, Hands
    <3>3. Flows(h, svr, <<>>, isClosed, dropped, hasKeyFrame, way, V)
      BY <3>1, <3>2
    <3>4. Says(h = "S0S1S2", o, L)
      BY <1>3 DEF o
    <3> HIDE DEF h
    <3>5. Flows("COMPLETE", svr, o, isClosed, dropped, hasKeyFrame, way, V)
      BY <3>2, <3>3, <3>4, FlowsTold
    <3> DEFINE k == "COMPLETE"
    <3>6. Flows(k, svr, o, isClosed, dropped, hasKeyFrame, way, V) /\ client'.hs = k
      BY <1>8, <3>5
    <3> HIDE DEF k
    <3>7. Flows(client'.hs, svr', out'["loop"], isClosed', dropped', hasKeyFrame', way, V)
      BY <1>13, <3>6
    <3>8. way = c2s' \o FlattenSeq(queue') /\ out'["video"] = Packets(V)
          /\ out'["audio"] = Packets(A)
      BY <1>13, <3>1
    <3>9. QED
      BY <2>1, <3>7, <3>8, UpstreamNext
  <2>3. CASE link # "up"
    BY <2>1, <2>3 DEF Upstream
  <2>4. QED
    BY <2>2, <2>3
<1>22. QED
  BY <1>14, <1>15, <1>16, <1>17, <1>18, <1>19, <1>20, <1>21 DEF PushInv

\* OnRead.
LEMMA OnReadHolds ==
    ASSUME PushInv, OnRead
    PROVE  PushInv'
<1>0. PICK n \in 0 .. Len(s2c) :
        \E c \in {ClientOnRead([client EXCEPT !.reader.buf = inbox \o SubSeq(s2c, 1, n)])} :
          /\ Reads(n, c.reader.buf, c.out, c.ok)
          /\ client' = [c EXCEPT !.reader.buf = <<>>, !.out = <<>>, !.ok = TRUE]
  BY DEF OnRead
<1> DEFINE got == SubSeq(s2c, 1, n)
           rest == SubSeq(s2c, n + 1, Len(s2c))
           x == [client EXCEPT !.reader.buf = inbox \o got]
<1>1. PICK c \in {ClientOnRead(x)} :
        /\ Reads(n, c.reader.buf, c.out, c.ok)
        /\ client' = [c EXCEPT !.reader.buf = <<>>, !.out = <<>>, !.ok = TRUE]
  BY <1>0
<1>2. /\ at["loop"] = "recv" /\ s2c' = rest /\ inbox' = c.reader.buf /\ refused' = ~ c.ok
      /\ Resumes("loop", c.out, ~ c.ok) /\ owner' = Nobody
      /\ UNCHANGED <<isClosed, queue, writing, registered, gone, c2s, link,
                     exit, hasKeyFrame, svr, built, dropped>>
  BY <1>1 DEF OnRead, Reads, pushVars
<1>3. s2c \in Seq(Units) /\ n \in 0 .. Len(s2c)
  BY DEF PushInv, Shape, Streams
<1>4. got \in Streams /\ rest \in Streams /\ Grown(got, rest, s2c)
  BY <1>3, SplitsAt DEF Streams
<1>5. c = ClientOnRead(x)
  BY <1>1
<1> HIDE DEF got, rest
<1>6. \/ /\ ClientOnRead(x) = x /\ client.hs = "S0S1S2"
         /\ svr.hs = "C0C1" => got = <<>> /\ rest = <<>>
         /\ svr.hs # "C0C1" => \E Q : Waits(inbox \o got, rest, Q)
      \/ svr.hs # "C0C1" /\ Told(ClientOnRead(x), rest)
  BY <1>4, ClientReadIs
<1>7. CASE /\ ClientOnRead(x) = x /\ client.hs = "S0S1S2"
           /\ svr.hs = "C0C1" => got = <<>> /\ rest = <<>>
           /\ svr.hs # "C0C1" => \E Q : Waits(inbox \o got, rest, Q)
  <2>1. c = x
    BY <1>5, <1>7
  <2>2. Connected(client) /\ client.reader.buf = <<>> /\ client.out = <<>> /\ client.ok
    BY DEF PushInv, Resting
  <2>3. client.reader = Idle(<<>>, 1)
    BY <1>7, FirstClient DEF PushInv, Downstream
  <2> DEFINE b == inbox \o got
  <2>4. client.reader = [client.reader EXCEPT !.buf = <<>>] /\ "buf" \in DOMAIN client.reader
    BY <2>3 DEF Idle
  <2>5. /\ x.reader.buf = b /\ x.out = <<>> /\ x.ok = client.ok
        /\ client = [x EXCEPT !.reader.buf = <<>>, !.out = <<>>, !.ok = TRUE]
    <3> HIDE DEF b
    <3> DEFINE d == client
               i == Idle(<<>>, 1)
               j == Idle(b, 1)
               y == With(d, j)
    <3>1. /\ d = [hs |-> d.hs, state |-> d.state, publishing |-> d.publishing,
                  reader |-> d.reader, size |-> d.size, out |-> d.out, ok |-> d.ok,
                  taken |-> d.taken, delivered |-> d.delivered]
          /\ d.out = <<>> /\ d.ok = TRUE /\ d.reader = i
      BY <2>2, <2>3 DEF Connected
    <3>2. y = x
      <4>1. x = With(d, Fed(d.reader, b))
        BY <2>2, FedClient DEF b
      <4>2. Fed(i, b) = j
        BY DEF Fed, Idle
      <4> HIDE DEF x, d, i, j
      <4>3. QED
        BY <3>1, <4>1, <4>2
    <3>3. /\ i = [j EXCEPT !.buf = <<>>] /\ j.buf = b
      BY DEF Idle
    <3> HIDE DEF d, i, j
    <3>4. /\ y.reader = j /\ y.out = d.out /\ y.ok = d.ok
          /\ d = [y EXCEPT !.reader = i, !.out = <<>>, !.ok = TRUE]
      BY <3>1 DEF With
    <3>5. "reader" \in DOMAIN y
      BY <3>1 DEF With
    <3> HIDE DEF y
    <3>6. [y EXCEPT !.reader.buf = <<>>] = [y EXCEPT !.reader = i]
      BY <3>3, <3>4, <3>5
    <3>7. [y EXCEPT !.reader.buf = <<>>, !.out = <<>>, !.ok = TRUE]
            = [y EXCEPT !.reader = i, !.out = <<>>, !.ok = TRUE]
      BY <3>3, <3>4, <3>5
    <3>8. y.reader.buf = b /\ y.out = <<>> /\ y.ok = d.ok
      BY <3>1, <3>3, <3>4
    <3>9. d = [y EXCEPT !.reader.buf = <<>>, !.out = <<>>, !.ok = TRUE]
      BY <3>4, <3>7
    <3> HIDE DEF x
    <3>10. QED
      BY <3>2, <3>8, <3>9 DEF d
  <2> HIDE DEF x
  <2>6. /\ inbox' = inbox \o got /\ refused' = FALSE /\ client' = client
        /\ Resumes("loop", <<>>, FALSE)
    <3>1. inbox' = b
      BY <1>2, <2>1, <2>5
    <3>2. c.ok = TRUE /\ c.out = <<>>
      BY <2>1, <2>2, <2>5
    <3>3. refused' = FALSE
      BY <1>2, <3>2
    <3>4. client' = client
      BY <1>1, <2>1, <2>5
    <3>5. Resumes("loop", <<>>, FALSE)
      BY <1>2, <3>2 DEF Resumes, After
    <3>6. QED
      BY <3>1, <3>3, <3>4, <3>5
  <2>7. QED
    BY <1>2, <1>4, <1>7, <2>6, WaitingHolds
<1>8. CASE svr.hs # "C0C1" /\ Told(ClientOnRead(x), rest)
  <2> HIDE DEF x
  <2>1. Told(c, rest)
    BY <1>5, <1>8
  <2>2. client' = [c EXCEPT !.reader.buf = <<>>, !.out = <<>>, !.ok = TRUE]
    BY <1>1
  <2> DEFINE d == c
  <2> HIDE DEF d
  <2>3. /\ Told(d, rest) /\ inbox' = d.reader.buf /\ refused' = ~ d.ok
        /\ client' = [d EXCEPT !.reader.buf = <<>>, !.out = <<>>, !.ok = TRUE]
        /\ Resumes("loop", d.out, ~ d.ok)
    BY <1>2, <2>1, <2>2 DEF d
  <2>4. QED
    BY <1>2, <1>4, <1>8, <2>3, ToldHolds
<1>9. QED
  BY <1>6, <1>7, <1>8

\* Before the stream is opened.
LEMMA InitPushInv == Init => PushInv
<1> SUFFICES ASSUME Init PROVE PushInv
  OBVIOUS
<1>1. /\ at = [t \in Threads |-> IF t = "loop" THEN "select" ELSE "start"]
      /\ out = [t \in Threads |-> <<>>]
      /\ ready = {} /\ owner = Nobody
      /\ isClosed = FALSE /\ queue = <<>> /\ writing = FALSE /\ registered = FALSE
      /\ inbox = <<>> /\ refused = FALSE /\ gone = FALSE
      /\ c2s = <<>> /\ s2c = <<>> /\ link = "up"
      /\ exit = FALSE /\ hasKeyFrame = FALSE
      /\ client = NewConnection("S0S1S2", FALSE)
      /\ built = "done" /\ dropped = FALSE
  BY DEF Init, InitWith, TcpInit
<1>2. PICK taken \in BOOLEAN : svr = NewConnection("C0C1", taken)
  BY DEF Init, InitWith
<1>3. ASSUME NEW h, NEW b \in BOOLEAN
      PROVE  LET c == NewConnection(h, b) IN
             /\ Connected(c) /\ c.out = <<>> /\ c.ok /\ c.hs = h /\ ~ c.publishing
             /\ c.reader = Idle(<<>>, 1) /\ c.delivered = <<>> /\ c.size = 1
  <2> DEFINE r == NewReader(DefaultSize)
             d == <<>>
             c == NewConnection(h, b)
  <2>1. r = Idle(<<>>, 1)
    BY DEF NewReader, Idle, NoSlots, DefaultSize
  <2>2. d \in Seq(Wires) /\ d \in Seq(Messages \union {Garbled})
    OBVIOUS
  <2>3. c = [hs |-> h, state |-> "HANDSHAKE", publishing |-> FALSE,
             reader |-> r, size |-> 1, out |-> d, ok |-> TRUE, taken |-> b, delivered |-> d]
    BY DEF NewConnection, DefaultSize
  <2> HIDE DEF r, d, c
  <2>4. "HANDSHAKE" \in ClientStates
    BY DEF ClientStates
  <2>5. Connected(c)
    BY <2>2, <2>3, <2>4 DEF Connected
  <2>6. /\ c.out = d /\ c.ok /\ c.hs = h /\ ~ c.publishing
        /\ c.reader = r /\ c.delivered = d /\ c.size = 1
    BY <2>3
  <2>7. QED
    BY <2>1, <2>5, <2>6 DEF c, d
<1>4. /\ Connected(client) /\ client.out = <<>> /\ client.ok /\ client.hs = "S0S1S2"
      /\ ~ client.publishing /\ client.reader = Idle(<<>>, 1)
  <2> DEFINE h == "S0S1S2"
             no == FALSE
  <2>1. client = NewConnection(h, no) /\ no \in BOOLEAN
    BY <1>1
  <2> HIDE DEF h, no
  <2>2. /\ Connected(client) /\ client.out = <<>> /\ client.ok /\ client.hs = h
        /\ ~ client.publishing /\ client.reader = Idle(<<>>, 1)
    BY <1>3, <2>1
  <2>3. QED
    BY <2>2 DEF h
<1>5. /\ Connected(svr) /\ svr.out = <<>> /\ svr.ok /\ svr.hs = "C0C1"
      /\ ~ svr.publishing /\ svr.reader = Idle(<<>>, 1) /\ svr.delivered = <<>>
  <2> DEFINE h == "C0C1"
  <2>1. svr = NewConnection(h, taken)
    BY <1>2
  <2> HIDE DEF h
  <2>2. /\ Connected(svr) /\ svr.out = <<>> /\ svr.ok /\ svr.hs = h
        /\ ~ svr.publishing /\ svr.reader = Idle(<<>>, 1) /\ svr.delivered = <<>>
    BY <1>3, <2>1
  <2>3. QED
    BY <2>2 DEF h
<1>6. Idle(<<>>, 1).buf = <<>> /\ Idle(<<>>, 1).size = 1
  BY IdleIs
<1>7. <<>> \in Streams /\ <<>> \in Seq(Wires) /\ Len(<<>>) = 0 /\ FlattenSeq(<<>>) = <<>>
      /\ <<>> \o <<>> = <<>>
  BY StreamJoins, FlatEmpty
<1>8. Shape
  <2>1. at \in [Threads -> Stages]
    BY <1>1 DEF Stages
  <2>2. out \in [Threads -> Seq(Wires)]
    BY <1>1, <1>7
  <2>3. Len(queue) <= MaxQueue /\ Len(c2s) <= Room
    BY <1>1, <1>7, TcpAssumption
  <2>4. QED
    BY <1>1, <1>7, <2>1, <2>2, <2>3 DEF Shape
<1>9. Resting
  BY <1>4, <1>5, <1>6 DEF Resting
<1>10. Hands /\ Answers /\ Opening
  BY <1>1, <1>4, <1>5, <1>6, ThreadsAre DEF Hands, Answers, Opening
<1>11. Downstream
  BY <1>1, <1>4, <1>5 DEF Downstream
<1>12. First(<<>>, svr.publishing, dropped)
  BY DEF First, Leads
<1>13. InOrder
  BY <1>5, <1>12 DEF InOrder
<1>14. Upstream
  <2> DEFINE e == <<>>
             loop == out["loop"]
             h == client.hs
  <2>1. e \in Seq(Media) /\ e \in Seq({Sound}) /\ e \in Seq(FromClient) /\ e \in Seq(Requests)
    OBVIOUS
  <2>2. out["video"] = Packets(e) /\ out["audio"] = Packets(e) /\ loop = <<>>
    BY <1>1, ThreadsAre, ChunksNone
  <2>3. Joined(svr.reader.buf, <<>>, <<>>)
    BY <1>5, <1>6, <1>7 DEF Joined
  <2>4. Knocking(svr, loop, <<>>)
    BY <1>5, <1>6, <2>2, <2>3 DEF Knocking
  <2>5. Spoken(h, svr, loop, isClosed, <<>>, e, e)
    BY <1>4, <2>4 DEF Spoken
  <2>6. Range(e) = {}
    BY DEF Range
  <2>7. Sane(Range(svr.delivered), svr.publishing, e, e, isClosed, dropped, hasKeyFrame)
    <3>1. \A S : Leads(S, e)
      BY DEF Leads
    <3>2. ~ hasKeyFrame
      BY <1>1
    <3> HIDE DEF e
    <3>3. QED
      BY <2>6, <3>1, <3>2 DEF Sane
  <2> HIDE DEF e, h, loop
  <2>8. Flows(h, svr, loop, isClosed, dropped, hasKeyFrame, <<>>, e)
    BY <2>1, <2>5, <2>7 DEF Flows
  <2>9. <<>> = c2s \o FlattenSeq(queue)
    BY <1>1, <1>7
  <2>10. Flows(client.hs, svr, out["loop"], isClosed, dropped, hasKeyFrame,
               c2s \o FlattenSeq(queue), e)
    BY <2>8, <2>9 DEF h, loop
  <2>11. svr.hs \in {"C0C1", "C2", "COMPLETE"}
    BY <1>5
  <2>12. QED
    BY <2>1, <2>2, <2>10, <2>11 DEF Upstream
<1>15. QED
  BY <1>8, <1>9, <1>10, <1>11, <1>13, <1>14 DEF PushInv

\* What a thread does by itself.
LEMMA ThreadHolds ==
    ASSUME PushInv, NEW t \in Senders, Thread(t)
    PROVE  PushInv'
<1>1. CASE Transmits(t)
  BY <1>1, SendingHolds DEF Transmits, Threads
<1>2. CASE t = "open" /\ (Opened \/ NotConnected \/ Closing)
  BY <1>2, OpenCloseHolds
<1>3. CASE t # "open" /\ Encoding(t)
  <2>1. t \in {"video", "audio"}
    BY <1>3, ThreadsAre
  <2>2. QED
    BY <1>3, <2>1, EncodingHolds
<1>4. QED
  BY <1>1, <1>2, <1>3 DEF Thread

\* The invariant is inductive, one case for each kind of thread.
LEMMA NextPushInv == PushInv /\ [Next]_vars => PushInv'
<1> SUFFICES ASSUME PushInv, [Next]_vars PROVE PushInv'
  OBVIOUS
<1>1. CASE UNCHANGED vars
  <2>1. /\ UNCHANGED <<out, queue, writing, inbox, c2s, s2c, link, hasKeyFrame, client, svr,
                       built, dropped, refused>>
        /\ UNCHANGED <<at, ready, owner, isClosed, registered, gone, exit>>
    BY <1>1 DEF vars, tcpVars, threadVars, connVars, netVars, pushVars, rtmpVars
  <2>2. Hands' /\ Answers' /\ Opening'
    BY <2>1 DEF PushInv, Hands, Answers, Opening
  <2>3. QED
    BY <2>1, <2>2, ControlHolds DEF PushInv, Shape
<1>2. CASE OpenUrl
  BY <1>2, OpenUrlHolds
<1>3. CASE TimesOut \/ Stops
  BY <1>3, OpenCloseHolds
<1>4. CASE PushVideoFrame \/ PushAudioFrame
  BY <1>4, PushVideoHolds, PushAudioHolds
<1>5. CASE \E t \in Senders : Thread(t)
  BY <1>5, ThreadHolds
<1>6. CASE Loops
  BY <1>6, LoopingHolds, OnReadHolds DEF Loops
<1>7. CASE Serves \/ ServerLeaves
  BY <1>7, ServerReadsHolds, ServerLeavesHolds DEF Serves, ServerSeesEnd
<1>8. QED
  BY <1>1, <1>2, <1>3, <1>4, <1>5, <1>6, <1>7 DEF Next

\* What the invariant says of types.
LEMMA PushInvTypeOK == PushInv => TypeOK
<1> SUFFICES ASSUME PushInv PROVE TypeOK
  OBVIOUS
<1>1. RefusedAlone
  <2> SUFFICES ASSUME at["loop"] = "shut"
               PROVE  \A t \in Senders : at[t] \notin {"append", "write", "flush"}
    BY DEF RefusedAlone
  <2>1. ~ svr.publishing
    BY DEF PushInv, Answers
  <2>2. at["video"] = "start" /\ at["audio"] = "start"
    BY <2>1 DEF PushInv, Answers, Resting, Connected
  <2>3. at["open"] \notin {"append", "write", "flush"}
    BY DEF PushInv, Opening
  <2>4. QED
    BY <2>2, <2>3, ThreadsAre
<1>2. client.state \in ClientStates
  BY DEF PushInv, Resting, Connected
<1>3. QED
  BY <1>1, <1>2 DEF PushInv, Shape, TypeOK, Stages, ClientStates

\* And of the order in which messages were handled.
LEMMA PushInvHeadersFirst == PushInv => HeadersFirst
<1> SUFFICES ASSUME PushInv, NEW i \in DOMAIN svr.delivered
             PROVE  /\ svr.delivered[i] \in Media => Before(i, Publish) /\ svr.publishing
                    /\ ~dropped /\ svr.delivered[i] = Picture(FALSE) => Before(i, Picture(TRUE))
                    /\ ~dropped /\ svr.delivered[i] = Picture(TRUE) =>
                         Before(i, AvcHeader) /\ Before(i, AacHeader)
  BY DEF HeadersFirst
<1>1. /\ ~ dropped => Leads({}, svr.delivered)
      /\ svr.delivered[i] \in Media =>
           svr.publishing /\ \E j \in 1 .. i - 1 : svr.delivered[j] = Publish
  BY DEF PushInv, InOrder, First
<1>2. ~ dropped => Allowed({svr.delivered[j] : j \in 1 .. i - 1}, svr.delivered[i])
  BY <1>1 DEF Leads
<1>3. \A m : m \in {svr.delivered[j] : j \in 1 .. i - 1} => Before(i, m)
  BY DEF Before
<1>4. QED
  BY <1>1, <1>2, <1>3 DEF Allowed, Before

----------------------------------------------------------------------------
\* What the connection does as a channel of messages.  The messages from the server's reader
\* to the end of the queue; no more of the queue is sent when the connection is closed and
\* no thread is in HandleWrite.
Pending == Ended(svr.reader.buf \o (c2s \o FlattenSeq(queue)))

Transit(buf, way, closed, packets) ==
    Ended(buf \o way \o IF closed THEN <<>> ELSE FlattenSeq(packets))

\* mutex_ is held while a thread writes or reads.
OwnerWorks ==
    owner # Nobody => at[owner] = "flush" \/ (owner = "loop" /\ at[owner] = "recv")

\* The client gets nothing but the handshake's packet before it has sent C2.
Welcome == client.hs = "S0S1S2" => inbox \o s2c \in {<<>>, S0S1S2}

\* The server knows the chunk size when the first message that needs it comes.
InStep == Aligned(svr.reader) /\ Announced(svr, Pending)

\* Nothing is on its way from a client that has begun to ask, and nothing handled: the loop
\* has C2 and SetChunkSize in hand, and finds room in the queue for both.
Early == /\ ~ isClosed /\ client.hs = "COMPLETE"
         /\ svr.delivered = <<>> /\ Pending = <<>>

AsksFirst ==
    \/ at["loop"] = "append" /\ queue = <<>> /\ c2s = <<>> /\ out["loop"] = Asked
    \/ /\ at["loop"] \in {"write", "flush"} /\ queue = <<C2>> /\ c2s = <<>>
       /\ out["loop"] = <<Packet(SetChunkSize), Packet(Connect)>>
    \/ /\ at["loop"] = "append" /\ queue = <<>>
       /\ out["loop"] = <<Packet(SetChunkSize), Packet(Connect)>>

ChannelInv == /\ OwnerWorks
              /\ link = "up" => Welcome /\ InStep /\ (Early => AsksFirst)

\* The messages on their way: those of the server's buffer, of the wire and of the queue.
LEMMA TransitIs ==
    ASSUME NEW buf \in Streams, NEW way \in Streams, NEW packets \in Seq(Wires)
    PROVE  /\ FlattenSeq(packets) \in Streams
           /\ Ended(buf \o (way \o FlattenSeq(packets))) \in Seq(Messages)
           /\ Ended(FlattenSeq(packets)) \in Seq(Messages)
           /\ \A closed : Transit(buf, way, closed, packets) \in Seq(Messages)
           /\ \A closed : ~ closed =>
                Transit(buf, way, closed, packets) = Ended(buf \o (way \o FlattenSeq(packets)))
           /\ \A closed : closed =>
                Ended(buf \o (way \o FlattenSeq(packets)))
                  = Transit(buf, way, closed, packets) \o Ended(FlattenSeq(packets))
<1> DEFINE q == FlattenSeq(packets)
<1>1. q \in Streams
  BY FlatWires
<1> HIDE DEF q
<1>2. /\ buf \o way \in Streams /\ way \o q \in Streams /\ buf \o (way \o q) \in Streams
      /\ (buf \o way) \o q = buf \o (way \o q) /\ (buf \o way) \o <<>> = buf \o way
  <2>1. buf \o way \in Streams /\ way \o q \in Streams
    BY <1>1, StreamJoins
  <2>2. QED
    BY <1>1, <2>1, StreamJoins, StreamAssociates
<1>3. /\ Ended(buf \o way) \in Seq(Messages) /\ Ended(q) \in Seq(Messages)
      /\ Ended(buf \o (way \o q)) = Ended(buf \o way) \o Ended(q)
      /\ Ended(buf \o (way \o q)) \in Seq(Messages)
  BY <1>1, <1>2, EndedJoins
<1>4. \A closed : closed => Transit(buf, way, closed, packets) = Ended(buf \o way)
  BY <1>2 DEF Transit
<1>5. \A closed : ~ closed => Transit(buf, way, closed, packets) = Ended(buf \o (way \o q))
  BY <1>2 DEF Transit, q
<1>6. QED
  BY <1>1, <1>3, <1>4, <1>5 DEF q

\* The messages in transit are what the channel has.
LEMMA InTransitIs ==
    /\ link = "up" => inTransit = Transit(svr.reader.buf, c2s, Abandoned, queue)
    /\ link # "up" => inTransit = <<>>
BY DEF inTransit, Transit

\* What is on its way to a server that is still there.
LEMMA PendingIs ==
    ASSUME PushInv, ChannelInv, link = "up"
    PROVE  /\ svr.reader.buf \in Streams /\ c2s \in Streams /\ queue \in Seq(Wires)
           /\ \E L \in Seq(Requests), way \in Streams :
                /\ way = c2s \o FlattenSeq(queue)
                /\ Spoken(client.hs, svr, out["loop"], isClosed, way, Pending, L)
                /\ Whole(svr, way, Pending)
<1>1. PICK V \in Seq(Media), A \in Seq({Sound}), way \in Streams :
        /\ way = c2s \o FlattenSeq(queue)
        /\ Flows(client.hs, svr, out["loop"], isClosed, dropped, hasKeyFrame, way, V)
  BY UpstreamIs
<1>2. Aligned(svr.reader)
  BY DEF ChannelInv, InStep
<1> DEFINE h == client.hs
           loop == out["loop"]
           s == svr
<1>3. Flows(h, s, loop, isClosed, dropped, hasKeyFrame, way, V) /\ Aligned(s.reader)
  BY <1>1, <1>2
<1> HIDE DEF h, loop, s
<1>4. PICK L \in Seq(Requests), P \in Seq(FromClient) :
        Spoken(h, s, loop, isClosed, way, P, L) /\ Whole(s, way, P)
  BY <1>3, FlowsWhole
<1>5. s.reader.buf \in Streams /\ Ended(s.reader.buf \o way) = P
  BY <1>4, WholeEnded
<1>6. Pending = P /\ svr.reader.buf \in Streams
  BY <1>1, <1>5 DEF Pending, s
<1>7. c2s \in Streams /\ queue \in Seq(Wires)
  BY DEF PushInv, Shape
<1>8. Spoken(client.hs, svr, out["loop"], isClosed, way, Pending, L) /\ Whole(svr, way, Pending)
  BY <1>4, <1>6 DEF s, h, loop
<1>9. QED
  BY <1>1, <1>6, <1>7, <1>8

\* The first part of a sequence in two or three parts, and the second.
LEMMA TwoParts ==
    ASSUME NEW U, NEW D \in Seq(U), NEW R \in Seq(U)
    PROVE  /\ D \o R \in Seq(U) /\ Len(D \o R) = Len(D) + Len(R)
           /\ SubSeq(D \o R, 1, Len(D)) = D
           /\ SubSeq(D \o R, Len(D) + 1, Len(D \o R)) = R
<1>1. D \o R \in Seq(U) /\ Len(D \o R) = Len(D) + Len(R)
  OBVIOUS
<1>2. SubSeq(D \o R, 1, Len(D)) = D
  OBVIOUS
<1>3. SubSeq(D \o R, Len(D) + 1, Len(D \o R)) = R
  <2> DEFINE s == D \o R
             x == SubSeq(s, Len(D) + 1, Len(s))
  <2>1. s \in Seq(U) /\ Len(s) = Len(D) + Len(R)
    BY <1>1
  <2>2. \A i \in 1 .. Len(R) : s[Len(D) + i] = R[i]
    OBVIOUS
  <2>3. Len(D) \in Nat /\ Len(R) \in Nat
    OBVIOUS
  <2> HIDE DEF s
  <2>4. x \in Seq(U) /\ Len(x) = Len(R)
    BY <2>1, <2>3, SubSeqProperties
  <2>5. \A i \in 1 .. Len(R) : x[i] = R[i]
    BY <2>1, <2>2, <2>3, SubSeqProperties
  <2> HIDE DEF x
  <2>6. x = R
    BY <2>4, <2>5, SeqEqual
  <2>7. QED
    BY <2>6 DEF x, s
<1>4. QED
  BY <1>1, <1>2, <1>3

LEMMA PartsOf ==
    ASSUME NEW U, NEW D \in Seq(U), NEW R \in Seq(U), NEW K \in Seq(U), NEW s,
           s = D \o (R \o K)
    PROVE  /\ s \in Seq(U) /\ Len(s) = Len(D) + Len(R) + Len(K)
           /\ SubSeq(s, 1, Len(D)) = D
           /\ SubSeq(s, Len(D) + 1, Len(s)) = R \o K
           /\ SubSeq(R \o K, 1, Len(R)) = R
<1> DEFINE t == R \o K
<1>1. t \in Seq(U) /\ Len(t) = Len(R) + Len(K) /\ SubSeq(t, 1, Len(R)) = R
  BY TwoParts
<1> HIDE DEF t
<1> DEFINE d == D \o t
<1>2. s = d
  BY DEF t
<1>3. /\ d \in Seq(U) /\ Len(d) = Len(D) + Len(t)
      /\ SubSeq(d, 1, Len(D)) = D
      /\ SubSeq(d, Len(D) + 1, Len(d)) = t
  <2>1. D \in Seq(U) /\ t \in Seq(U)
    BY <1>1
  <2>2. QED
    BY <2>1, TwoParts
<1> HIDE DEF d
<1>4. Len(D) \in Nat /\ Len(R) \in Nat /\ Len(K) \in Nat
  OBVIOUS
<1>5. QED
  BY <1>1, <1>2, <1>3, <1>4 DEF t

\* What two sequences that end in the same way have before that.
LEMMA SameEnd ==
    ASSUME NEW U, NEW A, NEW D, NEW B, NEW K,
           A \in Seq(U), D \in Seq(U), B \in Seq(U), K \in Seq(U),
           A \o K = D \o (B \o K)
    PROVE  A = D \o B
<1> DEFINE e == D \o B
<1>1. e \in Seq(U) /\ e \o K = D \o (B \o K)
  BY Associates
<1> HIDE DEF e
<1>2. A \o K = e \o K
  BY <1>1
<1>3. Len(A) = Len(e)
  <2>1. Len(A \o K) = Len(A) + Len(K) /\ Len(e \o K) = Len(e) + Len(K)
    BY <1>1
  <2>2. Len(A) \in Nat /\ Len(K) \in Nat /\ Len(e) \in Nat
    BY <1>1
  <2>3. QED
    BY <1>2, <2>1, <2>2
<1>4. SubSeq(A \o K, 1, Len(A)) = A
  OBVIOUS
<1>5. SubSeq(e \o K, 1, Len(e)) = e
  BY <1>1
<1>6. QED
  BY <1>2, <1>3, <1>4, <1>5 DEF e

----------------------------------------------------------------------------
\* The steps of a channel, in terms of the connection: nothing, ...
ChannelStep == [Channel!Next]_(Channel!channelVars)

ChannelBroken == isClosed \/ link # "up"

LEMMA StepNone ==
    ASSUME inTransit' = inTransit, svr'.delivered = svr.delivered, ChannelBroken' = ChannelBroken
    PROVE  ChannelStep
BY DEF ChannelStep, Channel!channelVars, ChannelBroken

\* ... a message more, ...
LEMMA StepAccepts ==
    ASSUME inTransit \in Seq(Messages), NEW m \in Messages, inTransit' = Append(inTransit, m),
           svr'.delivered = svr.delivered, ~ ChannelBroken, ~ ChannelBroken'
    PROVE  ChannelStep
<1>1. /\ Len(inTransit') = Len(inTransit) + 1
      /\ SubSeq(inTransit', 1, Len(inTransit)) = inTransit
  <2> DEFINE a == inTransit
             b == inTransit'
  <2>1. a \in Seq(Messages) /\ b = Append(a, m)
    OBVIOUS
  <2> HIDE DEF a, b
  <2>2. Len(b) = Len(a) + 1 /\ SubSeq(b, 1, Len(a)) = a
    BY <2>1
  <2>3. QED
    BY <2>2 DEF a, b
<1>2. Channel!Accepts
  BY <1>1 DEF Channel!Accepts, ChannelBroken
<1>3. QED
  BY <1>2 DEF ChannelStep, Channel!Next

\* ... messages delivered, ...
LEMMA StepDelivers ==
    ASSUME NEW D \in Seq(Messages), NEW R \in Seq(Messages), inTransit = D \o R, inTransit' = R,
           svr'.delivered = svr.delivered \o D, ChannelBroken' = ChannelBroken, D # <<>>
    PROVE  ChannelStep
<1> DEFINE s == inTransit
           n == Len(D)
           t == D \o R
<1>1. /\ Len(t) = Len(D) + Len(R)
      /\ SubSeq(t, 1, n) = D /\ SubSeq(t, n + 1, Len(t)) = R
  BY TwoParts
<1>2. s = t
  OBVIOUS
<1>3. n \in 1 .. Len(s)
  <2>1. Len(D) \in Nat \ {0} /\ Len(R) \in Nat
    OBVIOUS
  <2>2. QED
    BY <1>1, <1>2, <2>1
<1>4. Channel!Delivers(n)
  BY <1>1, <1>2 DEF Channel!Delivers, Channel!Rest, ChannelBroken
<1>5. QED
  BY <1>3, <1>4 DEF ChannelStep, Channel!Next

\* ... and its end, after the delivery of some and with the loss of others.
LEMMA StepBreaks ==
    ASSUME NEW D \in Seq(Messages), NEW R \in Seq(Messages), NEW K \in Seq(Messages),
           inTransit = D \o (R \o K), inTransit' = R,
           svr'.delivered = svr.delivered \o D, ChannelBroken'
    PROVE  ChannelStep
<1> DEFINE s == inTransit
           n == Len(D)
           lost == Len(K)
           t == R \o K
<1>1. /\ s \in Seq(Messages) /\ Len(s) = Len(D) + Len(R) + Len(K)
      /\ SubSeq(s, 1, n) = D /\ SubSeq(s, n + 1, Len(s)) = t /\ SubSeq(t, 1, Len(R)) = R
  <2> HIDE DEF s
  <2>1. s = D \o (R \o K)
    BY DEF s
  <2>2. QED
    BY <2>1, PartsOf
<1>2. n \in 0 .. Len(s) /\ lost \in 0 .. Len(s) - n /\ Len(s) - n - lost = Len(R)
  <2>1. Len(D) \in Nat /\ Len(R) \in Nat /\ Len(K) \in Nat
    OBVIOUS
  <2>2. QED
    BY <1>1, <2>1
<1>3. Channel!Breaks(n, lost)
  <2>1. SubSeq(SubSeq(s, n + 1, Len(s)), 1, Len(s) - n - lost) = R
    BY <1>1, <1>2
  <2>2. QED
    BY <1>1, <2>1 DEF Channel!Breaks, Channel!Rest, ChannelBroken
<1>4. QED
  BY <1>2, <1>3 DEF ChannelStep, Channel!Next

----------------------------------------------------------------------------
\* A thread that does not hold mutex_ goes on.
LEMMA OwnerStays ==
    ASSUME PushInv, ChannelInv, NEW t \in Threads, at[t] \notin {"flush", "recv"}, NEW s,
           at' = [at EXCEPT ![t] = s], owner' \in {owner, Nobody}
    PROVE  OwnerWorks'
<1>1. ASSUME owner' # Nobody
      PROVE  at'[owner'] = "flush" \/ (owner' = "loop" /\ at'[owner'] = "recv")
  <2>1. owner' = owner /\ owner \in Threads /\ at \in [Threads -> Stages]
    BY <1>1 DEF PushInv, Shape
  <2>2. at[owner] = "flush" \/ (owner = "loop" /\ at[owner] = "recv")
    BY <1>1, <2>1 DEF ChannelInv, OwnerWorks
  <2>3. owner # t
    BY <2>2
  <2>4. at'[owner] = at[owner]
    BY <2>1, <2>3
  <2>5. QED
    BY <2>1, <2>2, <2>4
<1>2. QED
  BY <1>1 DEF OwnerWorks

\* Nothing that is handled, on its way or queued moves: of what is in transit at most the end
\* is lost, when the last thread leaves HandleWrite after a close.
LEMMA TransitShrinks ==
    ASSUME PushInv, ChannelInv, link = "up", UNCHANGED <<svr, link>>,
           c2s' \o FlattenSeq(queue') = c2s \o FlattenSeq(queue),
           c2s' \in Streams, queue' \in Seq(Wires),
           Abandoned => Abandoned' /\ c2s' = c2s
    PROVE  /\ inTransit' \in Seq(Messages)
           /\ \E K \in Seq(Messages) : inTransit = inTransit' \o K
           /\ (Abandoned' <=> Abandoned) => inTransit' = inTransit
<1> DEFINE b == svr.reader.buf
           way == c2s'
           packets == queue'
           T == Transit(b, c2s, Abandoned, queue)
           was == Abandoned
           is == Abandoned'
           V == Transit(b, way, is, packets)
           P == Ended(b \o (way \o FlattenSeq(packets)))
           K == Ended(FlattenSeq(packets))
           e == <<>>
<1>1. /\ b \in Streams /\ c2s \in Streams /\ queue \in Seq(Wires)
      /\ way \in Streams /\ packets \in Seq(Wires)
      /\ was \in BOOLEAN /\ is \in BOOLEAN
  BY PendingIs DEF Abandoned
<1>2. inTransit = T /\ inTransit' = V
  BY DEF inTransit, Transit
<1>3. Ended(b \o (c2s \o FlattenSeq(queue))) = P
  OBVIOUS
<1>4. was => is /\ T = V
  BY DEF Transit
<1>5. T = Transit(b, c2s, was, queue)
  OBVIOUS
<1> HIDE DEF b, way, packets, was, is, P, K
<1>6. ~ was => T = P
  BY <1>1, <1>3, <1>5, TransitIs
<1>7. ~ is => V = P
  BY <1>1, TransitIs DEF P
<1>8. is => P = V \o K
  <2>1. \A closed : closed =>
          Ended(b \o (way \o FlattenSeq(packets)))
            = Transit(b, way, closed, packets) \o Ended(FlattenSeq(packets))
    BY <1>1, TransitIs
  <2>2. is => Ended(b \o (way \o FlattenSeq(packets))) = V \o Ended(FlattenSeq(packets))
    BY <2>1, Zenon
  <2>3. QED
    BY <2>2 DEF P, K
<1>9. V \in Seq(Messages) /\ K \in Seq(Messages) /\ e \in Seq(Messages)
  BY <1>1, TransitIs DEF K
<1> HIDE DEF T, V, e
<1>10. V \o e = V
  BY <1>9 DEF e
<1>11. (is <=> was) => T = V
  BY <1>4, <1>6, <1>7
<1>12. CASE is <=> was
  BY <1>2, <1>9, <1>10, <1>11, <1>12
<1>13. CASE ~ (is <=> was)
  <2>1. ~ was /\ is
    BY <1>1, <1>4, <1>13
  <2>2. T = V \o K
    BY <1>6, <1>8, <2>1
  <2>3. QED
    BY <1>2, <1>9, <1>13, <2>2 DEF was, is
<1>14. QED
  BY <1>12, <1>13

\* So the channel does nothing, or breaks.
LEMMA StillHolds ==
    ASSUME PushInv, ChannelInv, UNCHANGED <<svr, client, link, inbox, s2c>>,
           OwnerWorks', isClosed => isClosed', isClosed' \in BOOLEAN,
           link = "up" => /\ c2s' \o FlattenSeq(queue') = c2s \o FlattenSeq(queue)
                          /\ Abandoned => Abandoned' /\ c2s' = c2s
                          /\ c2s' \in Streams /\ queue' \in Seq(Wires)
                          /\ ~ isClosed' /\ Early /\ AsksFirst => AsksFirst'
    PROVE  ChannelInv' /\ ChannelStep
<1>1. link = "up" => Pending' = Pending
  BY DEF Pending
<1>2. CASE link # "up"
  <2>1. inTransit' = inTransit /\ ChannelBroken' = ChannelBroken
    BY <1>2 DEF inTransit, ChannelBroken
  <2>2. QED
    BY <1>2, <2>1, StepNone DEF ChannelInv
<1>3. CASE link = "up"
  <2>1. /\ inTransit' \in Seq(Messages)
        /\ \E K \in Seq(Messages) : inTransit = inTransit' \o K
        /\ (Abandoned' <=> Abandoned) => inTransit' = inTransit
    BY <1>3, TransitShrinks
  <2>2. ASSUME ~ isClosed' PROVE ChannelStep
    <3>1. ~ Abandoned /\ ~ Abandoned' /\ ChannelBroken' = ChannelBroken
      BY <2>2 DEF Abandoned, ChannelBroken
    <3>2. inTransit' = inTransit
      BY <2>1, <3>1
    <3>3. QED
      BY <3>1, <3>2, StepNone
  <2>3. ASSUME isClosed' PROVE ChannelStep
    <3> DEFINE e == <<>>
               T == inTransit
               V == inTransit'
               d == svr.delivered
    <3>1. PICK K \in Seq(Messages) : T = V \o K
      BY <2>1
    <3>2. /\ e \in Seq(Messages) /\ d \in Seq(Messages \union {Garbled})
          /\ V \in Seq(Messages) /\ svr'.delivered = d
      BY <2>1 DEF PushInv, Resting, Connected
    <3> HIDE DEF T, V, d
    <3>3. V \o K \in Seq(Messages)
      BY <3>2
    <3>4. T = e \o (V \o K) /\ d = d \o e
      BY <3>1, <3>2, <3>3
    <3> HIDE DEF e
    <3>5. inTransit = e \o (V \o K) /\ inTransit' = V /\ svr'.delivered = svr.delivered \o e
      BY <3>2, <3>4 DEF T, V, d
    <3>6. ChannelBroken'
      BY <2>3 DEF ChannelBroken
    <3>7. QED
      BY <3>2, <3>5, <3>6, StepBreaks
  <2>4. Welcome /\ InStep /\ (Early => AsksFirst)
    BY <1>3 DEF ChannelInv
  <2>5. Welcome' /\ InStep'
    BY <1>1, <1>3, <2>4 DEF Welcome, InStep
  <2>6. Early' => Early /\ ~ isClosed'
    BY <1>1, <1>3 DEF Early
  <2>7. ChannelInv'
    BY <1>3, <2>4, <2>5, <2>6 DEF ChannelInv
  <2>8. QED
    BY <2>2, <2>3, <2>7
<1>4. QED
  BY <1>2, <1>3

\* A thread that is not in HandleWrite does not come there when the connection is closed.
LEMMA StaysAbandoned ==
    ASSUME PushInv, NEW t \in Threads, NEW s, at' = [at EXCEPT ![t] = s],
           isClosed => isClosed' /\ (s \notin {"write", "flush"} \/ at[t] \in {"write", "flush"})
    PROVE  Abandoned => Abandoned'
BY DEF Abandoned, PushInv, Shape

\* Nor does it when it has nothing left to send.
LEMMA AfterCloses ==
    ASSUME NEW t, NEW rest, NEW fails
    PROVE  /\ After(t, rest, fails) # "flush"
           /\ isClosed' => After(t, rest, fails) # "write"
BY DEF After

\* The server is gone.
LEMMA FallsHolds ==
    ASSUME PushInv, ChannelInv, link' # "up", svr'.delivered = svr.delivered, OwnerWorks'
    PROVE  ChannelInv' /\ ChannelStep
<1>1. ChannelInv'
  BY DEF ChannelInv
<1>2. inTransit' = <<>> /\ ChannelBroken'
  BY DEF inTransit, ChannelBroken
<1>3. CASE link # "up"
  <2>1. inTransit' = inTransit /\ ChannelBroken' = ChannelBroken
    BY <1>2, <1>3 DEF inTransit, ChannelBroken
  <2>2. QED
    BY <1>1, <2>1, StepNone
<1>4. CASE link = "up"
  <2> DEFINE e == <<>>
             T == inTransit
             d == svr.delivered
  <2>1. T \in Seq(Messages)
    <3>1. svr.reader.buf \in Streams /\ c2s \in Streams /\ queue \in Seq(Wires)
      BY <1>4, PendingIs
    <3> DEFINE closed == Abandoned
    <3>2. T = Transit(svr.reader.buf, c2s, closed, queue)
      BY <1>4, InTransitIs
    <3> HIDE DEF closed, T
    <3>3. QED
      BY <3>1, <3>2, TransitIs
  <2>2. e \in Seq(Messages) /\ d \in Seq(Messages \union {Garbled})
    BY DEF PushInv, Resting, Connected
  <2>3. T' = e /\ svr'.delivered = d
    BY <1>2
  <2> HIDE DEF T, d
  <2>4. T = e \o (e \o T) /\ d = d \o e
    BY <2>1, <2>2
  <2> HIDE DEF e
  <2>5. inTransit = e \o (e \o T) /\ inTransit' = e /\ svr'.delivered = svr.delivered \o e
    BY <2>3, <2>4 DEF T, d
  <2>6. ChannelStep
    BY <1>2, <2>1, <2>2, <2>5, StepBreaks
  <2>7. QED
    BY <1>1, <2>6
<1>5. QED
  BY <1>3, <1>4

\* The connection is closed: what is in its queue is lost, now or later.
LEMMA ClosesHolds ==
    ASSUME PushInv, ChannelInv, UNCHANGED <<svr, client, link, inbox, s2c, c2s, queue>>,
           isClosed' = TRUE, OwnerWorks', Abandoned => Abandoned'
    PROVE  ChannelInv' /\ ChannelStep
<1>1. c2s \in Streams /\ queue \in Seq(Wires)
  BY DEF PushInv, Shape
<1>2. QED
  BY <1>1, StillHolds

\* A step in which only threads move, and not the loop while it has packets in hand.
LEMMA ThreadsMove ==
    ASSUME PushInv, ChannelInv, OwnerWorks', Abandoned => Abandoned',
           UNCHANGED <<svr, client, isClosed, link, inbox, s2c, c2s, queue>>,
           \/ at'["loop"] = at["loop"] /\ out'["loop"] = out["loop"]
           \/ at["loop"] \in {"select", "read", "recv", "shut"}
    PROVE  ChannelInv' /\ ChannelStep
<1>1. c2s \in Streams /\ queue \in Seq(Wires)
  BY DEF PushInv, Shape
<1>2. AsksFirst => AsksFirst'
  BY DEF AsksFirst
<1>3. QED
  BY <1>1, <1>2, StillHolds DEF PushInv, Shape

\* Opening and closing.
LEMMA OpenCloseChannel ==
    ASSUME PushInv, ChannelInv,
           OpenUrl \/ Opened \/ TimesOut \/ Stops \/ NotConnected \/ Closing
    PROVE  ChannelInv' /\ ChannelStep
<1>1. "open" \in Threads /\ "video" \in Threads /\ "audio" \in Threads /\ "loop" \in Threads
  BY ThreadsAre
<1>2. at \in [Threads -> Stages] /\ out \in [Threads -> Seq(Wires)]
  BY DEF PushInv, Shape
<1>3. ASSUME UNCHANGED <<svr, client, isClosed, link, inbox, s2c, c2s, queue, owner>>,
             out'["loop"] = out["loop"], at["open"] \notin {"flush", "recv"},
             NEW s, at' = [at EXCEPT !["open"] = s], s \notin {"write", "flush"}
      PROVE  ChannelInv' /\ ChannelStep
  <2>1. OwnerWorks'
    BY <1>1, <1>3, OwnerStays
  <2>2. at'["loop"] = at["loop"]
    BY <1>1, <1>2, <1>3
  <2>3. Abandoned => Abandoned'
    BY <1>1, <1>3, StaysAbandoned
  <2>4. QED
    BY <1>3, <2>1, <2>2, <2>3, ThreadsMove
<1>4. CASE OpenUrl
  <2>1. out'["loop"] = out["loop"]
    BY <1>1, <1>2, <1>4 DEF OpenUrl
  <2>2. at["open"] = "start" /\ at' = [at EXCEPT !["open"] = "append"]
    BY <1>4 DEF OpenUrl, Goes
  <2>3. QED
    <3>1. UNCHANGED <<svr, client, isClosed, link, inbox, s2c, c2s, queue, owner>>
      BY <1>4 DEF OpenUrl, netVars, rtmpVars
    <3>2. \E s \in {"append"} : at' = [at EXCEPT !["open"] = s]
      BY <2>2
    <3>3. QED
      BY <1>3, <2>1, <2>2, <3>1, <3>2
<1>5. CASE Opened
  <2>1. at["open"] = "done" /\ at["video"] = "start" /\ at["audio"] = "start"
    BY <1>5 DEF Opened, PushInv, Opening
  <2>2. UNCHANGED <<svr, client, isClosed, link, inbox, s2c, c2s, queue, owner, out>>
    BY <1>5 DEF Opened, connVars, netVars, rtmpVars
  <2>3. \A t \in Threads : at[t] \in {"flush", "recv"} => at'[t] = at[t]
    BY <1>2, <1>5, <2>1 DEF Opened
  <2>4. OwnerWorks'
    BY <2>2, <2>3 DEF OwnerWorks, ChannelInv, PushInv, Shape
  <2>5. at'["loop"] = at["loop"]
    BY <1>1, <1>2, <1>5 DEF Opened
  <2>6. Abandoned => Abandoned'
    <3>1. \A t \in Threads : at'[t] = at[t] \/ at'[t] \notin {"write", "flush"}
      BY <1>2, <1>5 DEF Opened
    <3>2. QED
      BY <2>2, <3>1 DEF Abandoned
  <2>7. QED
    BY <2>2, <2>4, <2>5, <2>6, ThreadsMove
<1>6. CASE TimesOut \/ Stops \/ NotConnected
  BY <1>3, <1>6 DEF TimesOut, Stops, NotConnected, Leaves, Goes, connVars, netVars, rtmpVars
<1>7. CASE Closing
  <2>1. CASE StopEncoder
    <3>1. /\ at["open"] = "join"
          /\ at' = [at EXCEPT !["open"] = IF isClosed THEN "drop" ELSE "disconnect"]
          /\ UNCHANGED <<svr, client, isClosed, link, inbox, s2c, c2s, queue, owner, out>>
      BY <2>1 DEF StopEncoder, Goes, connVars, netVars, rtmpVars
    <3>2. \E s \in {"drop", "disconnect"} : at' = [at EXCEPT !["open"] = s]
      BY <3>1
    <3>3. QED
      BY <1>3, <3>1, <3>2
  <2>2. CASE Drops("open")
    BY <1>3, <1>7, <2>2 DEF Drops, Closing, Goes, netVars, rtmpVars
  <2>3. CASE DisConnects("open")
    <3>1. /\ isClosed' = TRUE /\ owner' = Nobody /\ at' = [at EXCEPT !["open"] = "drop"]
          /\ UNCHANGED <<svr, client, link, inbox, s2c, c2s, queue>>
      BY <1>7, <2>3 DEF DisConnects, Closing, Closes, Goes, netVars, rtmpVars
    <3>2. OwnerWorks'
      BY <3>1 DEF OwnerWorks
    <3>3. Abandoned => Abandoned'
      BY <1>1, <3>1, StaysAbandoned
    <3>4. QED
      BY <3>1, <3>2, <3>3, ClosesHolds
  <2>4. QED
    BY <1>7, <2>1, <2>2, <2>3 DEF Closing
<1>8. QED
  BY <1>4, <1>5, <1>6, <1>7

\* The encoding threads, when they are not sending.
LEMMA EncodingChannel ==
    ASSUME PushInv, ChannelInv,
           \/ PushVideoFrame \/ PushAudioFrame
           \/ \E t \in {"video", "audio"} : Encoding(t)
    PROVE  ChannelInv' /\ ChannelStep
<1>1. /\ UNCHANGED <<svr, client, isClosed, link, inbox, s2c, c2s, queue, owner>>
      /\ \E t \in {"video", "audio"}, s \in {"append", "frame", "end"} :
           /\ at[t] \in {"frame", "done"} /\ at' = [at EXCEPT ![t] = s]
           /\ out' = out \/ \E packets : out' = [out EXCEPT ![t] = packets]
  <2>1. CASE PushVideoFrame
    BY <2>1 DEF PushVideoFrame, Pushes, Goes, connVars, netVars, rtmpVars, Stages
  <2>2. CASE PushAudioFrame
    BY <2>2 DEF PushAudioFrame, Pushes, Goes, connVars, netVars, rtmpVars, Stages
  <2>3. ASSUME NEW t \in {"video", "audio"}, Encoding(t)
        PROVE  /\ UNCHANGED <<svr, client, isClosed, link, inbox, s2c, c2s, queue, owner>>
               /\ out' = out
               /\ \E s \in {"append", "frame", "end"} :
                    at[t] \in {"frame", "done"} /\ at' = [at EXCEPT ![t] = s]
    BY <2>3 DEF Encoding, NextFrame, Finishes, Goes, connVars, netVars, rtmpVars, Stages
  <2>4. QED
    BY <2>1, <2>2, <2>3
<1>2. PICK t \in {"video", "audio"}, s \in {"append", "frame", "end"} :
        /\ at[t] \in {"frame", "done"} /\ at' = [at EXCEPT ![t] = s]
        /\ out' = out \/ \E packets : out' = [out EXCEPT ![t] = packets]
  BY <1>1
<1>3. t \in Threads /\ "loop" \in Threads /\ t # "loop"
  BY ThreadsAre
<1>4. OwnerWorks'
  BY <1>1, <1>2, <1>3, OwnerStays
<1>5. at'["loop"] = at["loop"] /\ out'["loop"] = out["loop"]
  BY <1>2, <1>3 DEF PushInv, Shape
<1>6. Abandoned => Abandoned'
  BY <1>1, <1>2, <1>3, StaysAbandoned
<1>7. QED
  BY <1>1, <1>4, <1>5, <1>6, ThreadsMove

\* The loop, where it neither sends nor reads.
LEMMA LoopChannel ==
    ASSUME PushInv, ChannelInv, UNCHANGED rtmpVars,
           Selects \/ HandleRead \/ ReadsNothing \/ ReadFails \/ Shuts
    PROVE  ChannelInv' /\ ChannelStep
<1>1. "loop" \in Threads /\ at \in [Threads -> Stages]
  BY ThreadsAre DEF PushInv, Shape
<1>2. CASE Selects
  <2>1. /\ at["loop"] = "select"
        /\ \E s \in {"read", "write"} :
             at' = [at EXCEPT !["loop"] = s] /\ (isClosed => s = "read")
        /\ UNCHANGED <<svr, client, isClosed, link, inbox, s2c, c2s, queue, owner>>
    BY <1>2 DEF Selects, Goes, connVars, netVars, rtmpVars
  <2>2. OwnerWorks'
    BY <1>1, <2>1, OwnerStays
  <2>3. Abandoned => Abandoned'
    BY <1>1, <2>1, StaysAbandoned
  <2>4. QED
    BY <2>1, <2>2, <2>3, ThreadsMove
<1>3. CASE HandleRead \/ ReadsNothing
  <2>1. /\ at["loop"] \in {"read", "recv"}
        /\ UNCHANGED <<svr, client, isClosed, link, inbox, s2c, c2s, queue>>
    BY <1>3 DEF HandleRead, ReadsNothing, Goes, connVars, netVars, rtmpVars
  <2>2. OwnerWorks'
    BY <1>1, <1>3 DEF HandleRead, ReadsNothing, Goes, OwnerWorks
  <2>3. Abandoned => Abandoned'
    <3>1. CASE HandleRead
      BY <1>1, <2>1, <3>1, StaysAbandoned DEF HandleRead, Goes
    <3>2. CASE ReadsNothing
      <4>1. /\ isClosed' /\ at' = [at EXCEPT !["loop"] = After("loop", <<>>, refused)]
        BY <2>1, <3>2 DEF ReadsNothing, Resumes
      <4>2. After("loop", <<>>, refused) \notin {"write", "flush"}
        BY <4>1, AfterCloses
      <4>3. QED
        BY <1>1, <4>1, <4>2, StaysAbandoned
    <3>3. QED
      BY <1>3, <3>1, <3>2
  <2>4. QED
    BY <2>1, <2>2, <2>3, ThreadsMove
<1>4. CASE ReadFails \/ Shuts
  <2>1. /\ isClosed' = TRUE /\ owner' = Nobody
        /\ UNCHANGED <<svr, client, link, inbox, s2c, c2s, queue>>
    BY <1>4 DEF ReadFails, Shuts, Closes, netVars, rtmpVars
  <2>2. OwnerWorks'
    BY <2>1 DEF OwnerWorks
  <2>3. \E s : at' = [at EXCEPT !["loop"] = s] /\ s \notin {"write", "flush"}
    <3>1. CASE Shuts
      BY <3>1 DEF Shuts, Goes
    <3>2. CASE ReadFails
      <4>1. at' = [at EXCEPT !["loop"] = After("loop", <<>>, refused)]
        BY <3>2 DEF ReadFails, Resumes
      <4> DEFINE s == After("loop", <<>>, refused)
      <4>2. s \notin {"write", "flush"}
        BY <2>1, AfterCloses
      <4> HIDE DEF s
      <4>3. QED
        BY <4>1, <4>2 DEF s
    <3>3. QED
      BY <1>4, <3>1, <3>2
  <2>4. Abandoned => Abandoned'
    BY <1>1, <2>1, <2>3, StaysAbandoned
  <2>5. QED
    BY <2>1, <2>2, <2>4, ClosesHolds
<1>5. QED
  BY <1>2, <1>3, <1>4

\* As long as the server has handled nothing, no thread but the loop sends on a connection
\* that has shaken hands, and none holds mutex_ while the loop is to write.
LEMMA LoopAlone ==
    ASSUME PushInv, ChannelInv, client.hs = "COMPLETE", svr.delivered = <<>>
    PROVE  /\ \A t \in Senders : at[t] \notin {"append", "write", "flush"}
           /\ at["loop"] \in {"append", "write"} => owner = Nobody
<1>1. \A t \in Senders : at[t] \notin {"append", "write", "flush"}
  <2>1. at["video"] = "start" /\ at["audio"] = "start"
    BY AtWork
  <2>2. at["open"] \notin {"append", "write", "flush"}
    BY DEF PushInv, Opening
  <2>3. QED
    BY <2>1, <2>2, ThreadsAre
<1>2. ASSUME at["loop"] \in {"append", "write"} PROVE owner = Nobody
  <2>1. SUFFICES ASSUME owner # Nobody PROVE FALSE
    OBVIOUS
  <2>2. /\ owner \in Threads
        /\ at[owner] = "flush" \/ (owner = "loop" /\ at[owner] = "recv")
    BY <2>1 DEF PushInv, Shape, ChannelInv, OwnerWorks
  <2>3. owner \in Senders /\ at[owner] = "flush"
    BY <1>2, <2>2, ThreadsAre
  <2>4. QED
    BY <1>1, <2>2, <2>3
<1>3. QED
  BY <1>1, <1>2

\* HandleWrite, but for what it writes.
LEMMA LocksChannel ==
    ASSUME PushInv, ChannelInv, UNCHANGED rtmpVars,
           NEW t \in Threads, GetsLock(t) \/ HandleWriteFails(t) \/ WriteFails(t)
    PROVE  ChannelInv' /\ ChannelStep
<1>1. "loop" \in Threads /\ at \in [Threads -> Stages] /\ out \in [Threads -> Seq(Wires)]
  BY ThreadsAre DEF PushInv, Shape
<1>2. c2s \in Streams /\ queue \in Seq(Wires)
  BY DEF PushInv, Shape
<1>3. CASE GetsLock(t)
  <2>1. /\ at[t] = "write" /\ at' = [at EXCEPT ![t] = "flush"] /\ owner' = t /\ out' = out
        /\ UNCHANGED <<svr, client, isClosed, link, inbox, s2c, c2s, queue>>
    BY <1>3 DEF GetsLock, Goes, connVars, netVars, rtmpVars
  <2>2. OwnerWorks'
    BY <1>1, <2>1 DEF OwnerWorks
  <2>3. AsksFirst => AsksFirst'
    BY <1>1, <2>1 DEF AsksFirst
  <2>4. Abandoned => Abandoned'
    BY <2>1, StaysAbandoned
  <2>5. QED
    BY <1>2, <2>1, <2>2, <2>3, <2>4, StillHolds DEF PushInv, Shape
<1>4. CASE HandleWriteFails(t)
  <2>1. /\ at[t] = "write" /\ \E s : at' = [at EXCEPT ![t] = s]
        /\ isClosed \/ owner # Nobody \/ \E u \in Threads \ {t} : at[u] = "append"
        /\ out' = [out EXCEPT ![t] = out[t]]
        /\ UNCHANGED <<svr, client, isClosed, link, inbox, s2c, c2s, queue, owner>>
    BY <1>4 DEF HandleWriteFails, Resumes, netVars, rtmpVars
  <2>2. OwnerWorks'
    BY <2>1, OwnerStays
  <2>3. ASSUME Early, AsksFirst PROVE AsksFirst'
    <3>1. /\ \A u \in Senders : at[u] \notin {"append", "write", "flush"}
          /\ at["loop"] \in {"append", "write"} => owner = Nobody
      BY <2>3, LoopAlone DEF Early
    <3>2. t = "loop"
      BY <2>1, <3>1, ThreadsAre
    <3>3. ~ isClosed /\ owner = Nobody
      BY <2>1, <2>3, <3>1, <3>2 DEF Early
    <3>4. \A u \in Threads \ {t} : at[u] # "append"
      BY <3>1, <3>2, ThreadsAre
    <3>5. QED
      BY <2>1, <3>3, <3>4
  <2>4. Abandoned => Abandoned'
    BY <2>1, StaysAbandoned
  <2>5. QED
    BY <1>2, <2>1, <2>2, <2>3, <2>4, StillHolds DEF PushInv, Shape
<1>5. CASE WriteFails(t)
  <2>1. /\ isClosed' = TRUE /\ owner' = Nobody /\ at[t] = "flush"
        /\ UNCHANGED <<svr, client, link, inbox, s2c, c2s, queue>>
    BY <1>5 DEF WriteFails, Closes, netVars, rtmpVars
  <2>2. OwnerWorks'
    BY <2>1 DEF OwnerWorks
  <2>3. Abandoned => Abandoned'
    BY <2>1 DEF Abandoned
  <2>4. QED
    BY <2>1, <2>2, <2>3, ClosesHolds
<1>6. QED
  BY <1>3, <1>4, <1>5

\* C2 is written at once.
LEMMA WritesC2 ==
    /\ Len(FlattenSeq(<<C2>>)) = 1 /\ Written(<<C2>>, 1) = <<>>
    /\ <<Packet(SetChunkSize), Packet(Connect)>> # <<>>
<1> DEFINE c == C2
           q == <<c>>
           w == Written(q, 1)
<1>1. c \in Wires /\ Len(c) = 1 /\ c \in Streams
  BY GreetingsAre, WiresAre
<1> HIDE DEF c
<1>2. <<>> \in Seq(Wires) /\ q = Append(<<>>, c)
  OBVIOUS
<1>3. q \in Seq(Wires) /\ FlattenSeq(q) = FlattenSeq(<<>>) \o c
  BY <1>1, <1>2, FlatWires
<1>4. FlattenSeq(q) = c
  BY <1>1, <1>3, FlatEmpty, StreamJoins
<1> HIDE DEF q
<1>5. /\ w \in Seq(Wires) /\ Joined(SubSeq(c, 1, 1), FlattenSeq(w), c)
      /\ Len(SubSeq(c, 1, 1)) = 1
  <2>1. 1 \in Nat /\ 1 <= Len(FlattenSeq(q))
    BY <1>1, <1>4
  <2>2. QED
    BY <1>3, <1>4, <2>1, WrittenIs
<1> HIDE DEF w
<1>6. FlattenSeq(w) = <<>>
  <2> DEFINE a == SubSeq(c, 1, 1)
             b == FlattenSeq(w)
  <2>1. a \in Streams /\ b \in Streams /\ a \o b = c /\ Len(a) = 1
    BY <1>5 DEF Joined
  <2> HIDE DEF a, b
  <2>2. Len(a \o b) = Len(a) + Len(b) /\ Len(b) \in Nat
    BY <2>1, StreamJoins
  <2>3. Len(b) = 0
    BY <1>1, <2>1, <2>2
  <2>4. QED
    BY <2>1, <2>3, StreamNone DEF b
<1>7. w = <<>>
  BY <1>5, <1>6, FlatWires
<1>8. QED
  BY <1>1, <1>4, <1>7 DEF c, q, w

\* The queue is written as far as there is room.
LEMMA FlushesChannel ==
    ASSUME PushInv, ChannelInv, UNCHANGED rtmpVars, NEW t \in Threads, Flushes(t)
    PROVE  ChannelInv' /\ ChannelStep
<1>1. "loop" \in Threads /\ at \in [Threads -> Stages] /\ out \in [Threads -> Seq(Wires)]
  BY ThreadsAre DEF PushInv, Shape
<1>2. /\ queue' \in Seq(Wires) /\ c2s' \in Streams /\ link' \in {link, "rst"}
      /\ link' = "up" => c2s' \o FlattenSeq(queue') = c2s \o FlattenSeq(queue)
  BY FlushesWay
<1>3. /\ at[t] = "flush" /\ owner' = Nobody /\ Resumes(t, out[t], refused)
      /\ UNCHANGED <<svr, client, isClosed, inbox, s2c>>
  BY DEF Flushes, rtmpVars
<1>4. OwnerWorks'
  BY <1>3 DEF OwnerWorks
<1>5. CASE link' # "up"
  BY <1>3, <1>4, <1>5, FallsHolds
<1>6. CASE link' = "up"
  <2>1. link = "up" /\ link' = link
    BY <1>2, <1>6
  <2>2. ~ Abandoned
    BY <1>3 DEF Abandoned
  <2>3. ASSUME Early, AsksFirst PROVE AsksFirst'
    <3>1. \A u \in Senders : at[u] \notin {"append", "write", "flush"}
      BY <2>3, LoopAlone DEF Early
    <3>2. t = "loop"
      BY <1>3, <3>1, ThreadsAre
    <3>3. /\ queue = <<C2>> /\ c2s = <<>>
          /\ out["loop"] = <<Packet(SetChunkSize), Packet(Connect)>>
      BY <1>3, <2>3, <3>2 DEF AsksFirst
    <3>4. queue' = <<>>
      <4> DEFINE units == FlattenSeq(queue)
                 room == Room - Len(c2s)
                 n == IF link = "fin" \/ Len(units) < room THEN Len(units) ELSE room
      <4>1. queue' = Written(queue, n)
        BY DEF Flushes
      <4>2. Len(units) = 1
        BY <3>3, WritesC2
      <4>3. room = Room /\ Room \in Nat \ {0}
        BY <3>3, TcpAssumption, StreamJoins
      <4>4. n = 1
        BY <4>2, <4>3
      <4> HIDE DEF n
      <4>5. QED
        BY <3>3, <4>1, <4>4, WritesC2
    <3>5. out'["loop"] = out["loop"] /\ at'["loop"] = "append"
      <4>1. out[t] # <<>>
        BY <3>2, <3>3, WritesC2
      <4>2. After(t, out[t], refused) = "append"
        BY <4>1 DEF After
      <4>3. QED
        BY <1>1, <1>3, <3>2, <4>2 DEF Resumes
    <3>6. QED
      BY <3>3, <3>4, <3>5 DEF AsksFirst
  <2>4. QED
    BY <1>2, <1>3, <1>4, <1>6, <2>1, <2>2, <2>3, StillHolds DEF PushInv, Shape
<1>7. QED
  BY <1>5, <1>6

\* What a thread puts into the queue: a part of the handshake, or a message.
LEMMA HeadIs ==
    ASSUME PushInv, ChannelInv, link = "up", NEW t \in Threads, at[t] = "append"
    PROVE  /\ \/ Head(out[t]) \in {C0C1, C2}
              \/ \E m \in FromClient : Head(out[t]) = Packet(m)
           /\ t = "open" => Head(out[t]) = C0C1
           /\ t \in {"video", "audio"} => svr.delivered # <<>>
           /\ t # "open" => client.hs = "COMPLETE"
<1>1. out[t] # <<>> /\ (t = "open" => Head(out[t]) = C0C1)
  BY AppendsPacket
<1>2. \A m \in Media \union {Sound} : m \in FromClient
  BY DEF FromClient, Media
<1>3. CASE t \in {"video", "audio"}
  <2>1. PICK V \in Seq(Media), A \in Seq({Sound}) :
          /\ V \in Seq(Messages) /\ A \in Seq(Messages)
          /\ out["video"] = Packets(V) /\ out["audio"] = Packets(A)
    BY UpstreamIs
  <2>2. at["video"] # "start" \/ at["audio"] # "start"
    BY <1>3
  <2>3. svr.delivered # <<>> /\ client.hs = "COMPLETE"
    BY <2>2, AtWork
  <2>4. ASSUME NEW W \in Seq(Messages), out[t] = Packets(W)
        PROVE  W # <<>> /\ Head(out[t]) = Packet(Head(W))
    BY <1>1, <2>4, ChunksNone, PacketsHead
  <2>5. \E m \in FromClient : Head(out[t]) = Packet(m)
    <3>1. CASE t = "video"
      <4>1. V # <<>> /\ Head(out[t]) = Packet(Head(V))
        BY <2>1, <2>4, <3>1
      <4>2. Head(V) \in Media
        BY <4>1
      <4>3. QED
        BY <1>2, <4>1, <4>2
    <3>2. CASE t = "audio"
      <4>1. A # <<>> /\ Head(out[t]) = Packet(Head(A))
        BY <2>1, <2>4, <3>2
      <4>2. Head(A) \in {Sound}
        BY <4>1
      <4>3. QED
        BY <1>2, <4>1, <4>2
    <3>3. QED
      BY <1>3, <3>1, <3>2
  <2>6. QED
    BY <1>3, <2>3, <2>5
<1>4. CASE t = "loop"
  <2> DEFINE o == out["loop"]
  <2>1. PICK L \in Seq(Requests), way \in Streams :
          Spoken(client.hs, svr, o, isClosed, way, Pending, L)
    BY PendingIs
  <2>2. o # <<>>
    BY <1>1, <1>4
  <2> HIDE DEF o
  <2>3. client.hs = "COMPLETE" /\ (Says(TRUE, o, L) \/ Says(FALSE, o, L))
    BY <2>1, <2>2 DEF Spoken, Knocking, Entering, Talking
  <2>4. CASE Says(TRUE, o, L)
    <3>1. Head(o) = C2
      BY <2>4 DEF Says
    <3>2. QED
      BY <1>4, <2>3, <3>1 DEF o
  <2>5. CASE Says(FALSE, o, L)
    <3>1. Head(L) \in Requests /\ Head(o) = Packet(Head(L))
      BY <2>2, <2>5, SaysLess
    <3>2. Head(L) \in FromClient
      BY <3>1 DEF FromClient
    <3>3. QED
      BY <1>4, <2>3, <3>1, <3>2 DEF o
  <2>6. QED
    BY <2>3, <2>4, <2>5
<1>5. CASE t = "open"
  BY <1>1, <1>5
<1>6. QED
  BY <1>3, <1>4, <1>5, ThreadsAre

\* The messages in the queue with another packet.
LEMMA PendingMore ==
    ASSUME PushInv, ChannelInv, link = "up", NEW p \in Wires,
           UNCHANGED <<svr, c2s>>, queue' = Append(queue, p)
    PROVE  Pending \in Seq(Messages) /\ Pending' = Pending \o Ended(p)
<1> DEFINE b == svr.reader.buf
           way == c2s \o FlattenSeq(queue)
<1>1. PICK way2 \in Streams : way2 = c2s \o FlattenSeq(Append(queue, p)) /\ Grown(way, p, way2)
  BY QueuedNext
<1>2. b \in Streams /\ way \in Streams /\ p \in Streams
  <2>1. b \in Streams /\ c2s \in Streams /\ queue \in Seq(Wires)
    BY PendingIs
  <2>2. FlattenSeq(queue) \in Streams
    BY <2>1, FlatWires
  <2>3. QED
    BY <2>1, <2>2, StreamJoins, WiresAre
<1>3. Pending = Ended(b \o way) /\ Pending' = Ended(b \o way2)
  BY <1>1 DEF Pending
<1> HIDE DEF b, way
<1>4. way2 = way \o p
  BY <1>1 DEF Grown
<1>5. b \o way2 = (b \o way) \o p /\ b \o way \in Streams
  BY <1>2, <1>4, StreamAssociates, StreamJoins
<1>6. Ended((b \o way) \o p) = Ended(b \o way) \o Ended(p) /\ Ended(b \o way) \in Seq(Messages)
  BY <1>2, <1>5, EndedJoins
<1>7. QED
  BY <1>3, <1>5, <1>6

\* What a part of the handshake ends, and what the packet of a message.
LEMMA WiresEnd ==
    /\ Ended(C0C1) = <<>> /\ Ended(C2) = <<>>
    /\ \A m \in FromClient : Ended(Packet(m)) = <<m>> /\ Packet(m) \notin {C0C1, C2}
    /\ Packet(SetChunkSize) \notin {C0C1, C2}
    /\ \A m \in FromClient : Packet(m) = Packet(SetChunkSize) => m = SetChunkSize
    /\ Head(Asked) = C2 /\ Tail(Asked) = <<Packet(SetChunkSize), Packet(Connect)>>
    /\ Head(<<Packet(SetChunkSize), Packet(Connect)>>) = Packet(SetChunkSize)
<1>1. Ended(C0C1) = <<>> /\ Ended(C2) = <<>>
  BY EndedGreeting
<1>2. ASSUME NEW m \in FromClient
      PROVE  Ended(Packet(m)) = <<m>> /\ Packet(m) \notin {C0C1, C2}
  <2>1. Ended(Packet(m)) = <<m>>
    BY Apart, EndedPacket
  <2>2. <<m>> # <<>>
    OBVIOUS
  <2>3. QED
    BY <1>1, <2>1, <2>2
<1>3. SetChunkSize \in FromClient
  BY DEF FromClient, Requests
<1>4. ASSUME NEW m \in FromClient, Packet(m) = Packet(SetChunkSize) PROVE m = SetChunkSize
  <2> DEFINE s == SetChunkSize
  <2>1. <<m>> = <<s>>
    BY <1>2, <1>3, <1>4
  <2> HIDE DEF s
  <2>2. m = s
    BY <2>1
  <2>3. QED
    BY <2>2 DEF s
<1> DEFINE c == C2
           s == Packet(SetChunkSize)
           k == Packet(Connect)
<1> HIDE DEF c, s, k
<1>5. /\ Head(<<c, s, k>>) = c /\ Tail(<<c, s, k>>) = <<s, k>>
      /\ Head(<<s, k>>) = s
  OBVIOUS
<1>6. QED
  BY <1>1, <1>2, <1>3, <1>4, <1>5 DEF Asked, c, s, k

\* The messages in transit of a connection that is not closed, in one state and the next.
LEMMA TransitUp ==
    ASSUME link = "up", ~ isClosed, isClosed \in BOOLEAN,
           svr.reader.buf \in Streams, c2s \in Streams, queue \in Seq(Wires)
    PROVE  inTransit = Pending
<1> DEFINE b == svr.reader.buf
           closed == Abandoned
<1>1. ~ closed /\ b \in Streams
  BY DEF Abandoned
<1>2. inTransit = Transit(b, c2s, closed, queue)
  BY InTransitIs
<1>3. Pending = Ended(b \o (c2s \o FlattenSeq(queue)))
  BY DEF Pending
<1> HIDE DEF b, closed
<1>4. QED
  BY <1>1, <1>2, <1>3, TransitIs

LEMMA TransitUpNext ==
    ASSUME link' = "up", ~ isClosed', isClosed' \in BOOLEAN,
           svr'.reader.buf \in Streams, c2s' \in Streams, queue' \in Seq(Wires)
    PROVE  inTransit' = Pending'
<1> DEFINE b == svr'.reader.buf
           closed == Abandoned'
           way == c2s'
           packets == queue'
<1>1. ~ closed /\ b \in Streams /\ way \in Streams /\ packets \in Seq(Wires)
  BY DEF Abandoned
<1>2. inTransit' = Transit(b, way, closed, packets)
  BY InTransitIs DEF inTransit, Transit
<1>3. Pending' = Ended(b \o (way \o FlattenSeq(packets)))
  BY DEF Pending
<1> HIDE DEF b, closed, way, packets
<1>4. QED
  BY <1>1, <1>2, <1>3, TransitIs

\* A packet of the handshake is queued.
LEMMA GreetingQueued ==
    ASSUME PushInv, PushInv', ChannelInv, link = "up", ~ isClosed, OwnerWorks',
           UNCHANGED <<svr, client, isClosed, link, inbox, s2c, c2s>>,
           NEW t \in Threads, at[t] = "append", at' = [at EXCEPT ![t] = "write"],
           out' = [out EXCEPT ![t] = Tail(out[t])], Head(out[t]) \in {C0C1, C2},
           queue' = Append(queue, Head(out[t]))
    PROVE  ChannelInv' /\ ChannelStep
<1> DEFINE p == Head(out[t])
<1>1. p \in Wires /\ Ended(p) = <<>>
  BY AppendsPacket, WiresEnd
<1> HIDE DEF p
<1>2. queue' = Append(queue, p)
  BY DEF p
<1>3. Pending \in Seq(Messages) /\ Pending' = Pending \o Ended(p)
  BY <1>1, <1>2, PendingMore
<1>4. Pending' = Pending
  <2> DEFINE e == <<>>
             P == Pending
  <2>1. P \in Seq(Messages) /\ Ended(p) = e
    BY <1>1, <1>3
  <2> HIDE DEF P
  <2>2. P \o <<>> = P
    BY <2>1
  <2>3. QED
    BY <1>1, <1>3, <2>2 DEF P
<1>5. /\ svr.reader.buf \in Streams /\ c2s \in Streams /\ queue \in Seq(Wires)
      /\ queue' \in Seq(Wires) /\ isClosed \in BOOLEAN
  BY PendingIs DEF PushInv, Shape
<1>6. inTransit = Pending /\ inTransit' = Pending'
  BY <1>5, TransitUp, TransitUpNext
<1>7. ChannelStep
  BY <1>4, <1>6, StepNone DEF ChannelBroken
<1>8. Welcome' /\ InStep'
  BY <1>4 DEF ChannelInv, Welcome, InStep
<1>9. ASSUME Early' PROVE AsksFirst'
  <2>1. Early /\ AsksFirst
    BY <1>4, <1>9 DEF Early, ChannelInv
  <2>2. t = "loop"
    BY <2>1, LoopAlone, ThreadsAre DEF Early
  <2>3. out["loop"] # <<Packet(SetChunkSize), Packet(Connect)>>
    BY <2>2, WiresEnd
  <2>4. queue = <<>> /\ c2s = <<>> /\ out["loop"] = Asked
    BY <2>1, <2>2, <2>3 DEF AsksFirst
  <2>5. p = C2 /\ Tail(out["loop"]) = <<Packet(SetChunkSize), Packet(Connect)>>
    BY <2>2, <2>4, WiresEnd DEF p
  <2>6. queue' = <<C2>>
    BY <1>2, <2>4, <2>5
  <2>7. /\ at'["loop"] = "write" /\ c2s' = <<>>
        /\ out'["loop"] = <<Packet(SetChunkSize), Packet(Connect)>>
    BY <2>2, <2>4, <2>5 DEF PushInv, Shape
  <2>8. QED
    BY <2>6, <2>7 DEF AsksFirst
<1>10. QED
  BY <1>7, <1>8, <1>9 DEF ChannelInv

\* A message is queued: the channel accepts it.
LEMMA MessageQueued ==
    ASSUME PushInv, PushInv', ChannelInv, link = "up", ~ isClosed, OwnerWorks',
           UNCHANGED <<svr, client, isClosed, link, inbox, s2c, c2s>>,
           NEW t \in Threads, at[t] = "append", NEW m \in FromClient,
           Head(out[t]) = Packet(m), queue' = Append(queue, Packet(m))
    PROVE  ChannelInv' /\ ChannelStep
<1> DEFINE p == Packet(m)
<1>1. p \in Wires /\ Ended(p) = <<m>> /\ p \notin {C0C1, C2} /\ m \in Messages
  BY AppendsPacket, WiresEnd, Apart
<1> HIDE DEF p
<1>2. queue' = Append(queue, p) /\ Head(out[t]) = p
  BY DEF p
<1>3. Pending \in Seq(Messages) /\ Pending' = Pending \o Ended(p)
  BY <1>1, <1>2, PendingMore
<1>4. Pending' = Append(Pending, m) /\ Pending' # <<>>
  <2> DEFINE P == Pending
  <2>1. P \in Seq(Messages) /\ P \o <<m>> = Append(P, m) /\ Append(P, m) # <<>>
    <3>1. P \in Seq(Messages)
      BY <1>3
    <3> HIDE DEF P
    <3>2. QED
      BY <1>1, <3>1
  <2>2. QED
    BY <1>1, <1>3, <2>1
<1>5. inTransit = Pending /\ inTransit' = Pending'
  <2>1. /\ svr.reader.buf \in Streams /\ c2s \in Streams /\ queue \in Seq(Wires)
        /\ queue' \in Seq(Wires) /\ isClosed \in BOOLEAN
    BY PendingIs DEF PushInv, Shape
  <2>2. QED
    BY <2>1, TransitUp, TransitUpNext
<1>6. ~ ChannelBroken /\ ~ ChannelBroken'
  BY DEF ChannelBroken
<1>7. ChannelStep
  BY <1>1, <1>3, <1>4, <1>5, <1>6, StepAccepts
<1>8. Welcome' /\ Aligned(svr.reader)
  BY DEF ChannelInv, Welcome, InStep
<1>9. Announced(svr, Pending)
  BY DEF ChannelInv, InStep
<1>10. ASSUME svr.delivered = <<>> PROVE Head(Pending') = SetChunkSize
  <2>1. CASE Pending # <<>>
    <3> DEFINE P == Pending
    <3>1. P \in Seq(Messages) /\ P # <<>> /\ Head(P) = SetChunkSize
      BY <1>3, <1>9, <1>10, <2>1 DEF Announced
    <3> HIDE DEF P
    <3>2. Head(Append(P, m)) = Head(P)
      BY <1>1, <3>1
    <3>3. QED
      BY <1>4, <3>1, <3>2 DEF P
  <2>2. CASE Pending = <<>>
    <3>1. t = "loop" /\ client.hs = "COMPLETE"
      BY <1>1, <1>2, <1>10, HeadIs, ThreadsAre
    <3>2. AsksFirst
      BY <1>10, <2>2, <3>1 DEF Early, ChannelInv
    <3>3. out["loop"] # Asked
      BY <1>1, <1>2, <3>1, WiresEnd
    <3>4. out["loop"] = <<Packet(SetChunkSize), Packet(Connect)>>
      BY <3>1, <3>2, <3>3 DEF AsksFirst
    <3>5. p = Packet(SetChunkSize)
      BY <1>2, <3>1, <3>4, WiresEnd
    <3>6. m = SetChunkSize
      BY <3>5, WiresEnd DEF p
    <3> DEFINE P == Pending
    <3>7. P = <<>>
      BY <2>2
    <3> HIDE DEF P
    <3>8. Head(Append(P, m)) = m
      BY <3>7
    <3>9. QED
      BY <1>4, <3>6, <3>8 DEF P
  <2>3. QED
    BY <2>1, <2>2
<1>11. InStep'
  BY <1>8, <1>9, <1>10 DEF InStep, Announced
<1>12. ~ Early'
  BY <1>4 DEF Early
<1>13. QED
  BY <1>7, <1>8, <1>11, <1>12 DEF ChannelInv

\* Send.
LEMMA AppendsChannel ==
    ASSUME PushInv, PushInv', ChannelInv, NEW t \in Threads, Appends(t),
           dropped' = (dropped \/ Overflows(t)), UNCHANGED <<pushVars, rtmpVars>>
    PROVE  ChannelInv' /\ ChannelStep
<1>1. /\ out' = [out EXCEPT ![t] = Tail(out[t])] /\ at[t] = "append"
      /\ UNCHANGED <<client, svr, isClosed, c2s, link>>
      /\ isClosed => queue' = queue
      /\ ~ isClosed => \/ queue' = Append(queue, Head(out[t]))
                       \/ queue' = queue /\ queue # <<>>
  BY AppendsControl
<1>2. /\ UNCHANGED <<inbox, s2c, owner>> /\ \E s : at' = [at EXCEPT ![t] = s]
      /\ ~ isClosed => at' = [at EXCEPT ![t] = "write"]
      /\ isClosed => at' = [at EXCEPT ![t] = After(t, Tail(out[t]), refused)]
  BY DEF Appends, Resumes, Goes, netVars
<1>3. OwnerWorks'
  BY <1>1, <1>2, OwnerStays
<1>3a. Abandoned => Abandoned'
  <2>1. CASE isClosed
    <3>1. After(t, Tail(out[t]), refused) \notin {"write", "flush"}
      BY <1>1, <2>1, AfterCloses
    <3>2. QED
      BY <1>1, <1>2, <2>1, <3>1, StaysAbandoned
  <2>2. QED
    BY <2>1 DEF Abandoned
<1>4. CASE queue' = queue /\ (isClosed \/ queue # <<>>)
  <2>1. ASSUME Early, AsksFirst PROVE FALSE
    <3>1. t = "loop"
      BY <1>1, <2>1, LoopAlone, ThreadsAre DEF Early
    <3>2. queue = <<>>
      BY <1>1, <2>1, <3>1 DEF AsksFirst
    <3>3. QED
      BY <1>4, <2>1, <3>2 DEF Early
  <2>2. c2s \in Streams /\ queue \in Seq(Wires)
    BY DEF PushInv, Shape
  <2>3. QED
    BY <1>1, <1>2, <1>3, <1>3a, <1>4, <2>1, <2>2, StillHolds DEF PushInv, Shape
<1>5. CASE ~ isClosed /\ queue' = Append(queue, Head(out[t])) /\ link # "up"
  BY <1>1, <1>3, <1>5, FallsHolds
<1>6. CASE ~ isClosed /\ queue' = Append(queue, Head(out[t])) /\ link = "up"
  <2>1. \/ Head(out[t]) \in {C0C1, C2}
        \/ \E m \in FromClient : Head(out[t]) = Packet(m)
    BY <1>1, <1>6, HeadIs
  <2>2. CASE Head(out[t]) \in {C0C1, C2}
    BY <1>1, <1>2, <1>3, <1>6, <2>2, GreetingQueued
  <2>3. ASSUME NEW m \in FromClient, Head(out[t]) = Packet(m)
        PROVE  ChannelInv' /\ ChannelStep
    <3>1. queue' = Append(queue, Packet(m))
      BY <1>6, <2>3
    <3>2. QED
      BY <1>1, <1>2, <1>3, <1>6, <2>3, <3>1, MessageQueued
  <2>4. QED
    BY <2>1, <2>2, <2>3
<1>7. QED
  BY <1>1, <1>4, <1>5, <1>6

\* A client's connection after its callback, and one that has read nothing to handle.
LEMMA ReadsHandshake ==
    ASSUME NEW c, Connected(c), NEW d,
           d = [c EXCEPT !.reader.buf = <<>>, !.out = <<>>, !.ok = TRUE]
    PROVE  d.hs = c.hs
<1>1. c = [hs |-> c.hs, state |-> c.state, publishing |-> c.publishing,
           reader |-> c.reader, size |-> c.size, out |-> c.out, ok |-> c.ok,
           taken |-> c.taken, delivered |-> c.delivered]
  BY DEF Connected
<1>2. DOMAIN c = {"hs", "state", "publishing", "reader", "size", "out", "ok", "taken", "delivered"}
  BY <1>1
<1>3. QED
  BY <1>2

LEMMA NothingRead ==
    ASSUME NEW k, NEW b, Connected(k), k.reader = Idle(<<>>, 1)
    PROVE  LET x == With(k, Fed(k.reader, b)) IN
           Connected(x) /\ x.reader.buf = b /\ x.hs = k.hs
<1> DEFINE f == Fed(k.reader, b)
           x == With(k, f)
<1>1. f.buf = b
  BY DEF Idle, Fed
<1> HIDE DEF f
<1>2. Connected(x) /\ x.reader = f /\ x.hs = k.hs
  BY WithIs
<1> HIDE DEF x
<1>3. Connected(x) /\ x.reader.buf = b /\ x.hs = k.hs
  BY <1>1, <1>2
<1>4. QED
  BY <1>3 DEF x, f

\* The server has answered C0C1, and nothing follows it before C2.
LEMMA Knocked ==
    ASSUME PushInv, ChannelInv, link = "up", client.hs = "S0S1S2", svr.hs # "C0C1"
    PROVE  c2s = <<>> /\ queue = <<>>
<1>1. PICK L \in Seq(Requests), way \in Streams :
        /\ way = c2s \o FlattenSeq(queue)
        /\ Spoken(client.hs, svr, out["loop"], isClosed, way, Pending, L)
  BY PendingIs
<1>2. c2s \in Streams /\ queue \in Seq(Wires) /\ svr.reader.buf \in Streams
  BY PendingIs
<1> DEFINE b == svr.reader.buf
           q == FlattenSeq(queue)
<1>3. Joined(b, way, <<>>)
  BY <1>1 DEF Spoken, Knocking
<1>4. q \in Streams /\ (q = <<>> => queue = <<>>) /\ way = c2s \o q /\ b \in Streams
  BY <1>1, <1>2, FlatWires
<1> HIDE DEF b, q
<1>5. b \o way = <<>>
  BY <1>3 DEF Joined
<1>6. Len(b) + Len(way) = 0 /\ Len(b) \in Nat /\ Len(way) \in Nat
  BY <1>1, <1>4, <1>5, StreamJoins
<1>7. Len(way) = Len(c2s) + Len(q) /\ Len(c2s) \in Nat /\ Len(q) \in Nat
  BY <1>2, <1>4, StreamJoins
<1>8. Len(c2s) = 0 /\ Len(q) = 0
  BY <1>6, <1>7
<1>9. c2s = <<>> /\ q = <<>>
  BY <1>2, <1>4, <1>8, StreamNone
<1>10. QED
  BY <1>4, <1>9

\* The client reads.
LEMMA OnReadChannel ==
    ASSUME PushInv, PushInv', ChannelInv, OnRead
    PROVE  ChannelInv' /\ ChannelStep
<1>0. PICK n \in 0 .. Len(s2c) :
        \E c \in {ClientOnRead([client EXCEPT !.reader.buf = inbox \o SubSeq(s2c, 1, n)])} :
          /\ Reads(n, c.reader.buf, c.out, c.ok)
          /\ client' = [c EXCEPT !.reader.buf = <<>>, !.out = <<>>, !.ok = TRUE]
  BY DEF OnRead
<1> DEFINE got == SubSeq(s2c, 1, n)
           rest == SubSeq(s2c, n + 1, Len(s2c))
           x == [client EXCEPT !.reader.buf = inbox \o got]
<1>1. PICK c \in {ClientOnRead(x)} :
        /\ Reads(n, c.reader.buf, c.out, c.ok)
        /\ client' = [c EXCEPT !.reader.buf = <<>>, !.out = <<>>, !.ok = TRUE]
  BY <1>0
<1>2. /\ at["loop"] = "recv" /\ s2c' = rest /\ inbox' = c.reader.buf
      /\ Resumes("loop", c.out, ~ c.ok) /\ owner' = Nobody /\ ~ isClosed
      /\ UNCHANGED <<isClosed, queue, c2s, link, svr>>
  BY <1>1 DEF OnRead, Reads
<1>3. s2c \in Seq(Units) /\ n \in 0 .. Len(s2c) /\ inbox \in Streams
  BY DEF PushInv, Shape, Streams
<1>4. got \in Streams /\ rest \in Streams /\ Grown(got, rest, s2c)
  BY <1>3, SplitsAt DEF Streams
<1>5. c = ClientOnRead(x)
  BY <1>1
<1> HIDE DEF got, rest
<1>6. inTransit' = inTransit /\ Pending' = Pending
  BY <1>2 DEF inTransit, Pending, Abandoned
<1>7. ChannelStep
  BY <1>2, <1>6, StepNone DEF ChannelBroken
<1>8. OwnerWorks'
  BY <1>2 DEF OwnerWorks
<1>9. ASSUME link = "up" PROVE (Welcome /\ InStep /\ (Early => AsksFirst))'
  <2>1. Welcome /\ InStep /\ (Early => AsksFirst)
    BY <1>9 DEF ChannelInv
  <2>2. InStep'
    BY <1>2, <1>6, <2>1 DEF InStep
  <2>3. CASE client.hs # "S0S1S2"
    <3>1. client.hs = "COMPLETE" /\ client'.hs # "S0S1S2"
      <4>1. svr.hs # "C0C1" /\ Told(ClientOnRead(x), rest)
        BY <1>4, <2>3, ClientReadIs
      <4>2. c.hs = "COMPLETE" /\ Connected(c)
        BY <1>5, <4>1 DEF Told
      <4>3. client'.hs = c.hs
        BY <1>1, <4>2, ReadsHandshake
      <4>4. QED
        BY <2>3, <4>2, <4>3 DEF PushInv, Downstream
    <3>2. ~ AsksFirst
      BY <1>2 DEF AsksFirst
    <3>3. ~ Early'
      BY <1>2, <1>6, <2>1, <3>1, <3>2 DEF Early
    <3>4. QED
      BY <2>2, <3>1, <3>3 DEF Welcome
  <2>4. CASE client.hs = "S0S1S2"
    <3>1. client = NewConnection("S0S1S2", FALSE) /\ Connected(client)
      BY <2>4 DEF PushInv, Downstream, Resting
    <3>2. inbox \o s2c \in {<<>>, S0S1S2} /\ s2c \in Streams
      BY <1>3, <2>1, <2>4 DEF Welcome, Streams
    <3>3. /\ (inbox \o got) \o rest = inbox \o s2c
          /\ ClientOnRead(x) = x \/ ClientOnRead(x).out = Asked
      BY <1>3, <1>4, <3>1, <3>2, ClientAsks
    <3>4. CASE ClientOnRead(x) = x
      <4>1. inbox' = inbox \o got /\ client'.hs = "S0S1S2"
        <5> DEFINE b == inbox \o got
        <5>1. c = x /\ x = [client EXCEPT !.reader.buf = b]
          BY <1>5, <3>4
        <5> HIDE DEF b
        <5>2. client' = [x EXCEPT !.reader.buf = <<>>, !.out = <<>>, !.ok = TRUE]
          BY <1>1, <5>1
        <5>3. x = With(client, Fed(client.reader, b))
          BY <3>1, <5>1, FedClient
        <5> HIDE DEF x
        <5>4. Connected(x) /\ x.reader.buf = b /\ x.hs = client.hs
          BY <3>1, <5>3, NothingRead, FirstClient
        <5>5. client'.hs = x.hs
          BY <5>2, <5>4, ReadsHandshake
        <5>6. QED
          BY <1>2, <2>4, <5>1, <5>4, <5>5 DEF b
      <4>2. Welcome'
        BY <1>2, <3>2, <3>3, <4>1 DEF Welcome
      <4>3. ~ Early'
        BY <4>1 DEF Early
      <4>4. QED
        BY <2>2, <4>2, <4>3
    <3>5. CASE ClientOnRead(x) # x /\ ClientOnRead(x).out = Asked
      <4>0. svr.hs # "C0C1" /\ Told(ClientOnRead(x), rest)
        BY <1>4, <3>5, ClientReadIs
      <4>1. c.out = Asked /\ c.out # <<>>
        <5>1. Asked # <<>>
          BY DEF Asked
        <5>2. QED
          BY <1>5, <3>5, <5>1
      <4>2. out'["loop"] = Asked /\ at'["loop"] = "append"
        BY <1>2, <4>1, ThreadsAre DEF Resumes, After, PushInv, Shape
      <4>3. client'.hs # "S0S1S2"
        <5>1. Connected(c) /\ c.hs = "COMPLETE"
          BY <1>5, <4>0 DEF Told
        <5>2. client'.hs = c.hs
          BY <1>1, <5>1, ReadsHandshake
        <5>3. QED
          BY <5>1, <5>2
      <4>4. queue' = <<>> /\ c2s' = <<>>
        BY <1>2, <1>9, <2>4, <4>0, Knocked
      <4>5. QED
        BY <2>2, <4>2, <4>3, <4>4 DEF Welcome, AsksFirst
    <3>6. QED
      BY <3>3, <3>4, <3>5
  <2>5. QED
    BY <2>3, <2>4
<1>10. QED
  BY <1>2, <1>7, <1>8, <1>9 DEF ChannelInv

\* What is on its way after messages were handled.
LEMMA TransitMoves ==
    ASSUME link = "up", svr.reader.buf \in Streams, c2s \in Streams, queue \in Seq(Wires),
           NEW b \in Streams, NEW D \in Seq(Messages),
           Pending = D \o Ended(b \o FlattenSeq(queue))
    PROVE  /\ Transit(b, <<>>, Abandoned, queue) \in Seq(Messages)
           /\ inTransit = D \o Transit(b, <<>>, Abandoned, queue)
<1> DEFINE a == svr.reader.buf
           w == c2s
           v == <<>>
           packets == queue
           closed == Abandoned
           A == Transit(a, w, closed, packets)
           B == Transit(b, v, closed, packets)
           K == Ended(FlattenSeq(packets))
           U == Messages
<1>1. v \in Streams /\ a \in Streams /\ w \in Streams /\ packets \in Seq(Wires)
  BY StreamJoins
<1>2. inTransit = A
  BY InTransitIs
<1>3. Pending = Ended(a \o (w \o FlattenSeq(packets)))
  BY DEF Pending
<1>4. v \o FlattenSeq(packets) = FlattenSeq(packets)
  BY FlatWires, StreamJoins
<1>5. Ended(a \o (w \o FlattenSeq(packets))) = D \o Ended(b \o (v \o FlattenSeq(packets)))
  BY <1>3, <1>4
<1> HIDE DEF a, w, v, packets, closed
<1>6. A \in Seq(U) /\ K \in Seq(U)
  BY <1>1, TransitIs
<1>7. B \in Seq(U)
  BY <1>1, TransitIs
<1>8. /\ \A c : ~ c => Transit(a, w, c, packets) = Ended(a \o (w \o FlattenSeq(packets)))
      /\ \A c : c => Ended(a \o (w \o FlattenSeq(packets))) = Transit(a, w, c, packets) \o K
  BY <1>1, TransitIs
<1>9. /\ \A c : ~ c => Transit(b, v, c, packets) = Ended(b \o (v \o FlattenSeq(packets)))
      /\ \A c : c => Ended(b \o (v \o FlattenSeq(packets))) = Transit(b, v, c, packets) \o K
  BY <1>1, TransitIs
<1>10. /\ ~ closed => A = Ended(a \o (w \o FlattenSeq(packets)))
       /\ closed => Ended(a \o (w \o FlattenSeq(packets))) = A \o K
  BY <1>8, Zenon
<1>11. /\ ~ closed => B = Ended(b \o (v \o FlattenSeq(packets)))
       /\ closed => Ended(b \o (v \o FlattenSeq(packets))) = B \o K
  BY <1>9, Zenon
<1> HIDE DEF A, B, K
<1>12. ~ closed => A = D \o B
  BY <1>5, <1>10, <1>11
<1>13. ASSUME closed PROVE A = D \o B
  <2>1. A \o K = D \o (B \o K)
    BY <1>5, <1>10, <1>11, <1>13
  <2>2. A \in Seq(U) /\ B \in Seq(U) /\ D \in Seq(U) /\ K \in Seq(U)
    BY <1>6, <1>7
  <2>3. \A x, y : x \in Seq(U) /\ y \in Seq(U) /\ x \o K = D \o (y \o K) => x = D \o y
    BY <2>2, SameEnd
  <2>4. QED
    BY <2>1, <2>2, <2>3, Zenon
<1>14. QED
  BY <1>2, <1>7, <1>12, <1>13 DEF B, v, packets, closed

\* A connection whose packets have been sent.
LEMMA SaysAll ==
    ASSUME NEW c, NEW d, Connected(d), d = [c EXCEPT !.out = <<>>]
    PROVE  d.hs = c.hs /\ d.reader = c.reader /\ d.delivered = c.delivered
<1>1. d = [hs |-> d.hs, state |-> d.state, publishing |-> d.publishing,
           reader |-> d.reader, size |-> d.size, out |-> d.out, ok |-> d.ok,
           taken |-> d.taken, delivered |-> d.delivered]
  BY DEF Connected
<1>2. DOMAIN d = {"hs", "state", "publishing", "reader", "size", "out", "ok", "taken", "delivered"}
  BY <1>1
<1>3. DOMAIN c = DOMAIN d
  OBVIOUS
<1>4. QED
  BY <1>2, <1>3

\* The server reads: it handles the messages whose last piece has come.
LEMMA ServerReadsPasses ==
    ASSUME PushInv, PushInv', ChannelInv, ServerReads
    PROVE  /\ Aligned(svr'.reader) /\ svr'.reader.buf \in Streams
           /\ \E D, R \in Seq(FromClient) :
                /\ svr'.delivered = svr.delivered \o D /\ Pending = D \o R
                /\ Ended(svr'.reader.buf \o FlattenSeq(queue)) = R /\ Announced(svr', R)
<1> DEFINE c == ServerOnRead([svr EXCEPT !.reader.buf = @ \o c2s])
           rest == FlattenSeq(queue)
           P == Pending
<1>1. link = "up" /\ svr' = [c EXCEPT !.out = <<>>]
  BY DEF ServerReads
<1>2. PICK w \in Streams : w = c2s \o rest /\ Whole(svr, w, P)
  BY <1>1, PendingIs
<1>3. c2s \in Streams /\ rest \in Streams /\ s2c \in Streams /\ Grown(c2s, rest, w)
  BY <1>1, <1>2, PendingIs, FlatWires DEF PushInv, Shape, Grown
<1>4. /\ Faithful(svr, dropped) /\ svr.ok /\ svr.out = <<>>
      /\ svr.hs # "C0C1" => \E Q : Hears(<<>>, svr.taken, svr.publishing, Q)
  BY <1>1, ServerIs
<1>5. Aligned(svr.reader) /\ Announced(svr, P)
  BY <1>1 DEF ChannelInv, InStep
<1> HIDE DEF rest, P
<1>6. Passed(c, rest, svr.delivered, P)
  BY <1>2, <1>3, <1>4, <1>5, ServerPasses
<1> HIDE DEF c
<1>7. svr'.reader = c.reader /\ svr'.delivered = c.delivered
  <2>1. Connected(svr')
    BY DEF PushInv, Resting
  <2>2. QED
    BY <1>1, <2>1, SaysAll
<1>8. PICK D, R \in Seq(FromClient) :
        /\ c.delivered = svr.delivered \o D /\ P = D \o R
        /\ Ended(c.reader.buf \o rest) = R /\ Announced(c, R)
  BY <1>6 DEF Passed
<1>9. Announced(svr', R)
  BY <1>7, <1>8 DEF Announced
<1>10. QED
  BY <1>6, <1>7, <1>8, <1>9 DEF Passed, P, rest

\* The server reads.
LEMMA ServerReadsChannel ==
    ASSUME PushInv, PushInv', ChannelInv, ServerReads
    PROVE  ChannelInv' /\ ChannelStep
<1> DEFINE c == ServerOnRead([svr EXCEPT !.reader.buf = @ \o c2s])
           rest == FlattenSeq(queue)
           b == svr'.reader.buf
           T == Transit(b, <<>>, Abandoned, queue)
<1>1. /\ link = "up" /\ c2s # <<>> /\ svr' = [c EXCEPT !.out = <<>>]
      /\ s2c' = s2c \o FlattenSeq(c.out) /\ c2s' = <<>>
      /\ c.ok => link' = link
      /\ ~ c.ok => link' = "fin"
      /\ UNCHANGED <<at, out, owner, isClosed, queue, inbox, client>>
  BY DEF ServerReads, ServerCloses, threadVars, connVars, pushVars
<1>2. /\ svr.reader.buf \in Streams /\ c2s \in Streams /\ queue \in Seq(Wires)
      /\ isClosed \in BOOLEAN /\ rest \in Streams
  BY <1>1, PendingIs, FlatWires DEF PushInv, Shape
<1>3. /\ Aligned(svr'.reader) /\ b \in Streams
      /\ \E D, R \in Seq(FromClient) :
           /\ svr'.delivered = svr.delivered \o D /\ Pending = D \o R
           /\ Ended(b \o rest) = R /\ Announced(svr', R)
  BY ServerReadsPasses
<1>4. PICK D \in Seq(FromClient), R \in Seq(FromClient) :
        /\ svr'.delivered = svr.delivered \o D /\ Pending = D \o R
        /\ Ended(b \o rest) = R /\ Announced(svr', R)
  BY <1>3
<1>5. D \in Seq(Messages) /\ R \in Seq(Messages)
  <2>1. \A m \in FromClient : m \in Messages
    BY Apart
  <2>2. QED
    BY <2>1, SeqWider
<1>6. T \in Seq(Messages) /\ inTransit = D \o T
  <2>1. Pending = D \o Ended(b \o rest) /\ b \in Streams
    BY <1>3, <1>4
  <2> HIDE DEF b
  <2>2. QED
    BY <1>1, <1>2, <1>5, <2>1, TransitMoves
<1>7. OwnerWorks'
  BY <1>1 DEF ChannelInv, OwnerWorks
<1> HIDE DEF c
<1>8. CASE ~ c.ok
  <2> DEFINE e == <<>>
             I == inTransit
  <2>1. link' = "fin" /\ inTransit' = e /\ ChannelBroken'
    BY <1>1, <1>8 DEF inTransit, ChannelBroken
  <2>2. ChannelInv'
    BY <1>7, <2>1 DEF ChannelInv
  <2>3. e \in Seq(Messages)
    OBVIOUS
  <2> HIDE DEF T
  <2>4. e \o T = T
    BY <1>6
  <2>5. I = D \o (e \o T)
    BY <1>6, <2>4
  <2> HIDE DEF e
  <2>6. inTransit = D \o (e \o T)
    BY <2>5
  <2>7. ChannelStep
    BY <1>4, <1>5, <1>6, <2>1, <2>3, <2>6, StepBreaks
  <2>8. QED
    BY <2>2, <2>7
<1>9. CASE c.ok
  <2>1. link' = "up" /\ ChannelBroken' = ChannelBroken
    BY <1>1, <1>9 DEF ChannelBroken
  <2>2. inTransit' = T
    BY <1>1, <2>1 DEF inTransit, Transit, Abandoned
  <2>3. Pending' = R
    <3>1. <<>> \o rest = rest
      BY <1>2, StreamJoins
    <3>2. QED
      BY <1>1, <1>4, <3>1 DEF Pending
  <2>4. ChannelStep
    <3>1. CASE D # <<>>
      <4> HIDE DEF T
      <4>1. QED
        BY <1>4, <1>5, <1>6, <2>1, <2>2, <3>1, StepDelivers
    <3>2. CASE D = <<>>
      <4> DEFINE d == svr.delivered
      <4>1. d \in Seq(Messages \union {Garbled})
        BY DEF PushInv, Resting, Connected
      <4> HIDE DEF T, d
      <4>2. D \o T = T /\ d \o D = d
        BY <1>6, <3>2, <4>1
      <4>3. inTransit' = inTransit
        BY <1>6, <2>2, <4>2
      <4>4. svr'.delivered = svr.delivered
        BY <1>4, <4>2 DEF d
      <4>5. QED
        BY <2>1, <4>3, <4>4, StepNone
    <3>3. QED
      BY <3>1, <3>2
  <2>5. InStep'
    BY <1>3, <1>4, <2>3 DEF InStep
  <2>6. Welcome'
    <3>1. SUFFICES ASSUME client.hs = "S0S1S2" PROVE inbox' \o s2c' \in {<<>>, S0S1S2}
      BY <1>1 DEF Welcome
    <3>2. svr.hs = "C0C1"
      BY <1>1, <3>1, Knocked
    <3>3. s2c = <<>> /\ inbox = <<>>
      BY <1>1, <3>2, ServerIs
    <3>4. c.out \in {<<>>, <<S0S1S2>>}
      BY <3>2, ServerGreets DEF c, PushInv, Resting
    <3>5. FlattenSeq(c.out) \in {<<>>, S0S1S2}
      <4> DEFINE g == S0S1S2
      <4>1. g \in Streams
        BY GreetingsAre, WiresAre
      <4> HIDE DEF g
      <4>2. FlattenSeq(<<g>>) = g
        BY <4>1, FlatOne DEF Streams
      <4>3. QED
        BY <3>4, <4>2, FlatEmpty DEF g
    <3>6. QED
      BY <1>1, <3>3, <3>5, StreamJoins
  <2>7. ASSUME Early' PROVE AsksFirst'
    <3>1. R = <<>> /\ svr'.delivered = <<>> /\ ~ isClosed /\ client.hs = "COMPLETE"
      BY <1>1, <2>3, <2>7 DEF Early
    <3>2. D = <<>> /\ svr.delivered = <<>>
      <4> DEFINE d == svr.delivered
      <4>1. d \in Seq(Messages \union {Garbled})
        BY DEF PushInv, Resting, Connected
      <4>2. d \o D = <<>>
        BY <1>4, <3>1
      <4> HIDE DEF d
      <4>3. d = <<>> /\ D = <<>>
        BY <1>5, <4>1, <4>2
      <4>4. QED
        BY <4>3 DEF d
    <3>3. Pending = <<>>
      BY <1>4, <3>1, <3>2
    <3>4. AsksFirst
      BY <1>1, <3>1, <3>2, <3>3 DEF ChannelInv, Early
    <3>5. QED
      BY <1>1, <3>4 DEF AsksFirst
  <2>8. QED
    BY <1>7, <2>4, <2>5, <2>6, <2>7 DEF ChannelInv
<1>10. QED
  BY <1>8, <1>9

\* The server's socket is closed.
LEMMA ServerLeavesChannel ==
    ASSUME PushInv, ChannelInv, ServerLeaves
    PROVE  ChannelInv' /\ ChannelStep
<1>1. link' # "up" /\ UNCHANGED <<svr, at, owner>>
  BY DEF ServerLeaves, ServerCloses, threadVars, rtmpVars
<1>2. OwnerWorks'
  BY <1>1 DEF ChannelInv, OwnerWorks
<1>3. QED
  BY <1>1, <1>2, FallsHolds

\* A thread that sends, and the loop.
LEMMA SendingChannel ==
    ASSUME PushInv, PushInv', ChannelInv, NEW t \in Threads, Sending(t),
           dropped' = (dropped \/ Overflows(t)), UNCHANGED <<pushVars, rtmpVars>>
    PROVE  ChannelInv' /\ ChannelStep
<1>1. CASE Appends(t)
  BY <1>1, AppendsChannel
<1>2. CASE Flushes(t)
  BY <1>2, FlushesChannel
<1>3. CASE GetsLock(t) \/ HandleWriteFails(t) \/ WriteFails(t)
  BY <1>3, LocksChannel
<1>4. QED
  BY <1>1, <1>2, <1>3 DEF Sending

LEMMA LoopsChannel ==
    ASSUME PushInv, PushInv', ChannelInv, Loops
    PROVE  ChannelInv' /\ ChannelStep
<1>1. CASE OnRead
  BY <1>1, OnReadChannel
<1>2. CASE /\ Looping /\ dropped' = (dropped \/ Overflows("loop"))
           /\ UNCHANGED <<pushVars, rtmpVars>>
  <2>1. CASE Sending("loop")
    BY <1>2, <2>1, SendingChannel, ThreadsAre
  <2>2. CASE Selects \/ HandleRead \/ ReadsNothing \/ ReadFails \/ Shuts
    BY <1>2, <2>2, LoopChannel
  <2>3. QED
    BY <1>2, <2>1, <2>2 DEF Looping
<1>3. QED
  BY <1>1, <1>2 DEF Loops

\* What a thread does by itself.
LEMMA ThreadChannel ==
    ASSUME PushInv, PushInv', ChannelInv,
           NEW t \in Senders, Thread(t)
    PROVE  ChannelInv' /\ ChannelStep
<1>1. CASE Transmits(t)
  BY <1>1, SendingChannel DEF Transmits, Threads
<1>2. CASE t = "open" /\ (Opened \/ NotConnected \/ Closing)
  BY <1>2, OpenCloseChannel
<1>3. CASE t # "open" /\ Encoding(t)
  <2>1. t \in {"video", "audio"}
    BY <1>3, ThreadsAre
  <2>2. QED
    BY <1>3, <2>1, EncodingChannel
<1>4. QED
  BY <1>1, <1>2, <1>3 DEF Thread

\* Every step of the connection is a step of the channel, or none.
LEMMA NextChannel ==
    PushInv /\ PushInv' /\ ChannelInv /\ [Next]_vars
      => ChannelInv' /\ ChannelStep
<1> SUFFICES ASSUME PushInv, PushInv', ChannelInv, [Next]_vars
             PROVE  ChannelInv' /\ ChannelStep
  OBVIOUS
<1>1. CASE UNCHANGED vars
  <2>1. /\ UNCHANGED <<svr, client, isClosed, link, inbox, s2c, c2s, queue>>
        /\ UNCHANGED <<at, out, owner>>
    BY <1>1 DEF vars, tcpVars, threadVars, connVars, netVars, rtmpVars
  <2>2. OwnerWorks'
    BY <2>1 DEF ChannelInv, OwnerWorks
  <2>3. Abandoned => Abandoned'
    BY <2>1 DEF Abandoned
  <2>4. QED
    BY <2>1, <2>2, <2>3, ThreadsMove
<1>2. CASE OpenUrl \/ TimesOut \/ Stops
  BY <1>2, OpenCloseChannel
<1>3. CASE PushVideoFrame \/ PushAudioFrame
  BY <1>3, EncodingChannel
<1>4. CASE \E t \in Senders : Thread(t)
  BY <1>4, ThreadChannel
<1>5. CASE Loops
  BY <1>5, LoopsChannel
<1>6. CASE ServerReads
  BY <1>6, ServerReadsChannel
<1>7. CASE ServerSeesEnd \/ ServerLeaves
  BY <1>7, ServerLeavesChannel DEF ServerSeesEnd
<1>8. QED
  BY <1>1, <1>2, <1>3, <1>4, <1>5, <1>6, <1>7 DEF Next, Serves

\* The channel is empty before the stream is opened.
LEMMA InitChannel == Init => ChannelInv /\ Channel!Init
<1> SUFFICES ASSUME Init PROVE ChannelInv /\ Channel!Init
  OBVIOUS
<1>1. /\ owner = Nobody /\ isClosed = FALSE /\ queue = <<>> /\ inbox = <<>>
      /\ c2s = <<>> /\ s2c = <<>> /\ link = "up"
      /\ client = NewConnection("S0S1S2", FALSE)
  BY DEF Init, InitWith, TcpInit
<1>2. client.hs = "S0S1S2"
  BY <1>1 DEF NewConnection
<1>3. svr.reader = Idle(<<>>, 1) /\ svr.delivered = <<>>
  BY DEF Init, InitWith, NewConnection, NewReader, Idle, NoSlots, DefaultSize
<1>4. svr.reader.buf = <<>>
  BY <1>3, IdleIs
<1>5. <<>> \o <<>> = <<>> /\ FlattenSeq(<<>>) = <<>>
  BY FlatEmpty, StreamJoins
<1>6. Ended(<<>>) = <<>>
  BY EndedNone
<1>7. Pending = <<>> /\ inTransit = <<>>
  BY <1>1, <1>4, <1>5, <1>6 DEF Pending, inTransit, Abandoned
<1>8. Aligned(svr.reader)
  BY <1>3, AlignedIs
<1>9. InStep
  BY <1>3, <1>7, <1>8 DEF InStep, Announced
<1>10. Welcome
  BY <1>1, <1>5 DEF Welcome
<1>11. ~ Early
  BY <1>2 DEF Early
<1>12. ChannelInv
  BY <1>1, <1>9, <1>10, <1>11 DEF ChannelInv, OwnerWorks
<1>13. Channel!Init
  BY <1>1, <1>3, <1>7 DEF Channel!Init
<1>14. QED
  BY <1>12, <1>13

----------------------------------------------------------------------------
\* Every variable keeps its type; and while the loop shuts a connection that the server has
\* refused, no thread is sending on it.
THEOREM TypesHold == Spec => []TypeOK
BY InitPushInv, NextPushInv, PushInvTypeOK, PTL DEF Spec

\* The server handles no media before publish is accepted and, as long as the queue was never
\* full, no picture before the headers it needs and no inter frame before a key frame: whatever
\* the threads, the sizes of the queue and of the socket's buffer, and wherever a read or a
\* write cuts the stream.
THEOREM HeadersComeFirst == Spec => []HeadersFirst
BY InitPushInv, NextPushInv, PushInvHeadersFirst, PTL DEF Spec

\* What the threads cut into chunks, packets, partial writes and partial reads comes out of the
\* server's reader as a channel of messages would deliver it: whole, once and in the order they
\* were queued in, and lost only when the connection breaks (RtmpConnection.cpp's chunks,
\* TcpConnection.cpp's queue, BufferReader.cpp's buffer), wherever a close and a release find
\* the threads.
THEOREM ChannelIsImplemented == Spec => ImplementsMessageChannel
<1>1. Init => PushInv /\ ChannelInv /\ Channel!Init
  BY InitPushInv, InitChannel
<1>2. PushInv /\ [Next]_vars => PushInv'
  BY NextPushInv
<1>3. PushInv /\ PushInv' /\ ChannelInv /\ [Next]_vars
        => ChannelInv' /\ [Channel!Next]_(Channel!channelVars)
  BY NextChannel DEF ChannelStep
<1>4. QED
  BY <1>1, <1>2, <1>3, PTL DEF Spec, ImplementsMessageChannel, Channel!Spec
============================================================================
