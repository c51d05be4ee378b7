----------------------------- MODULE RtmpServer -----------------------------
(***************************************************************************)
(* ENET/RtmpServer: publishers, players and the sessions they meet in, on  *)
(* the two event-loop threads of EventLoop(2).  A connection's handlers    *)
(* run on its own loop; the sessions, the map of sessions and, when a send *)
(* fails, other loops' connections are shared.                             *)
(*                                                                         *)
(* A step is what a thread does between two acquisitions of a mutex.  The  *)
(* server's mutex is held over several steps only by the cleaner, a        *)
(* session's only by SendMediaData; every other critical section is one    *)
(* step, enabled while the mutex is free.  NotifyEvent changes nothing: it *)
(* is a step where its caller waits for it with a session's mutex held.    *)
(*                                                                         *)
(* std::weak_ptr: a reference is expired when its target is not alive.     *)
(* RtmpServer::rtmp_sessions_, pending timers and a handler's locals are   *)
(* what keeps a session alive.  A connection publishes or plays once, as   *)
(* RtmpPublisher and FFmpeg do; neither sends the command "DeleteStream",  *)
(* whose handler runs when a connection closes.                            *)
(***************************************************************************)
EXTENDS Naturals, FiniteSets

CONSTANTS
    Publishers, Players,    \* connections, each used once
    Paths, PathOf,          \* PathOf[c]: the stream c publishes or plays
    LoopOf,                 \* LoopOf[c]: the loop GetTaskSchduler gave it
    Ids,                    \* enough names for the sessions alive at a time
    None

Conns == Publishers \cup Players
Loops == {0, 1}             \* loop 0 also runs the server's timer

Sessions == Paths \X Ids

ASSUME RtmpAssumption ==
    /\ Publishers \cap Players = {}
    /\ PathOf \in [Conns -> Paths]
    /\ LoopOf \in [Conns -> Loops]
    /\ None \notin Conns \cup Paths /\ None \notin Sessions
    /\ IsFiniteSet(Conns)
    /\ IsFiniteSet(Ids) => Cardinality(Ids) > Cardinality(Conns)

Kinds == {"avc", "key", "inter", "audio"}

VARIABLES
    conn,       \* "new", "open", "gone" (the client left), "closed" (is_closed_)
    state,      \* state_
    weak,       \* rtmp_session_
    sessions,   \* rtmp_sessions_
    room,       \* a session's rtmp_sinks_, publisher_ and whose avc_sequence_header_
    timers,     \* timers[l]: RemoveSink calls pending on loop l
    leaked,     \* timers lost in an unsynchronised AddTimer
    th,         \* where a loop's thread is in its handler
    stage,      \* what a publisher has sent so far
    player,     \* a player's flags, and what its decoder has seen
    contested,  \* history: streams two loops were in HandlePublish of at once
    robbed      \* history: connections whose session was cleaned as they joined it

races == <<contested, robbed>>

vars == <<conn, state, weak, sessions, room, timers, leaked, th, stage, player, races>>

EmptyRoom == [sinks |-> {}, publisher |-> None, header |-> None]

IdleThread == [pc |-> "idle", conn |-> None, sess |-> None, kind |-> None, todo |-> {}]

NotPlaying == [playing |-> FALSE, key |-> FALSE, avc |-> FALSE,
               sawHeader |-> None, sawKey |-> None, broken |-> FALSE]

Init ==
    /\ conn = [c \in Conns |-> "new"]
    /\ state = [c \in Conns |-> "HANDSHAKE"]
    /\ weak = [c \in Conns |-> None]
    /\ sessions = [p \in Paths |-> None]
    /\ room = [s \in Sessions |-> EmptyRoom]
    /\ timers = [l \in Loops |-> {}]
    /\ leaked = {}
    /\ th = [l \in Loops |-> IdleThread]
    /\ stage = [c \in Publishers |-> "start"]
    /\ player = [c \in Players |-> NotPlaying]
    /\ contested = {} /\ robbed = {}

----------------------------------------------------------------------------
(* Who is alive, and who holds which mutex. *)

Pending == leaked \cup UNION {timers[l] : l \in Loops}

SessionAlive(s) ==
    \/ \E p \in Paths : sessions[p] = s
    \/ \E l \in Loops : th[l].sess = s
    \/ \E t \in Pending : t.session = s

Lock(c) == IF weak[c] # None /\ SessionAlive(weak[c]) THEN weak[c] ELSE None

Connected(c) == conn[c] \in {"open", "gone"}

ConnAlive(c) ==
    \/ Connected(c)
    \/ \E l \in Loops : th[l].conn = c
    \/ \E t \in Pending : t.sink = c

Idle(l) == th[l].pc = "idle"

ServerFree == \A l \in Loops : th[l].pc # "cleaning"

SessionFree(s) ==
    \A l \in Loops : ~ (th[l].pc \in {"sending", "notifying"} /\ th[l].sess = s)

----------------------------------------------------------------------------
(* The client's side. *)

\* Accepted, handshake, connect and createStream: only c's own state changes.
Opens(c) ==
    /\ conn[c] = "new"
    /\ conn' = [conn EXCEPT ![c] = "open"]
    /\ UNCHANGED <<state, weak, sessions, room, timers, leaked, th, stage, player, races>>

\* The client's end closes, or its network is lost.
Leaves(c) ==
    /\ conn[c] = "open"
    /\ conn' = [conn EXCEPT ![c] = "gone"]
    /\ UNCHANGED <<state, weak, sessions, room, timers, leaked, th, stage, player, races>>

\* RtmpPublisher: the sequence header, a key frame, then any frame; its audio
\* thread may get in before the header.
Sends(c, k) ==
    \/ k = "audio" /\ UNCHANGED stage
    \/ k = "avc" /\ stage[c] = "start" /\ stage' = [stage EXCEPT ![c] = "header"]
    \/ k = "key" /\ stage[c] # "start" /\ stage' = [stage EXCEPT ![c] = "frames"]
    \/ k = "inter" /\ stage[c] = "frames" /\ UNCHANGED stage

----------------------------------------------------------------------------
(* Joining a session. *)

\* GetSession: the session of p, made if there is none.
NewSession(p) == CHOOSE s \in {p} \X Ids : ~ SessionAlive(s)

SessionOf(p) == IF sessions[p] = None THEN NewSession(p) ELSE sessions[p]

GetSession(p) ==
    /\ ServerFree
    /\ sessions' = [sessions EXCEPT ![p] = SessionOf(p)]
    /\ room' = [s \in Sessions |-> IF SessionAlive(s) THEN room[s] ELSE EmptyRoom]

Expired == [c \in Conns |-> Lock(c)]

\* Whether another loop is in HandlePublish of the stream that c asks for.
Contests(c) ==
    \E l \in Loops : /\ th[l].pc \in {"asked", "accepted", "told", "adding"}
                     /\ th[l].conn \in Publishers /\ PathOf[th[l].conn] = PathOf[c]

\* HandlePublish, first part: HasPublisher looks up the session...
PublishAsks(c) ==
    LET l == LoopOf[c] IN
    /\ Connected(c) /\ state[c] = "HANDSHAKE"
    /\ Idle(l)
    /\ GetSession(PathOf[c])
    /\ weak' = Expired
    /\ th' = [th EXCEPT ![l] =
                [IdleThread EXCEPT !.pc = "asked", !.conn = c, !.sess = SessionOf(PathOf[c])]]
    /\ contested' = IF Contests(c) THEN contested \cup {PathOf[c]} ELSE contested
    /\ UNCHANGED <<conn, state, timers, leaked, stage, player, robbed>>

HasPublisher(s) == room[s].publisher # None /\ ConnAlive(room[s].publisher)

\* ... and its publisher; BadName closes the connection.
PublishRefused(l) ==
    /\ th[l].pc = "asked" /\ SessionFree(th[l].sess)
    /\ HasPublisher(th[l].sess)
    /\ conn' = [conn EXCEPT ![th[l].conn] = "closed"]
    /\ th' = [th EXCEPT ![l] = IdleThread]
    /\ UNCHANGED <<state, weak, sessions, room, timers, leaked, stage, player, races>>

PublishAccepted(l) ==
    /\ th[l].pc = "asked" /\ SessionFree(th[l].sess)
    /\ ~ HasPublisher(th[l].sess)
    /\ th' = [th EXCEPT ![l].pc = "accepted", ![l].sess = None]
    /\ UNCHANGED <<conn, state, weak, sessions, room, timers, leaked, stage, player, races>>

\* AddSesion and GetSession again; "Publish.Start" is sent.
PublishStarts(l) ==
    LET c == th[l].conn IN
    /\ th[l].pc = "accepted"
    /\ GetSession(PathOf[c])
    /\ weak' = [Expired EXCEPT ![c] = SessionOf(PathOf[c])]
    /\ state' = [state EXCEPT ![c] = "START_PUBLISH"]
    /\ th' = [th EXCEPT ![l].pc = "told"]
    /\ UNCHANGED <<conn, timers, leaked, stage, player, races>>

\* HandlePlay: "Play.Start" is sent.
PlayStarts(c) ==
    LET l == LoopOf[c] IN
    /\ Connected(c) /\ state[c] = "HANDSHAKE"
    /\ Idle(l)
    /\ GetSession(PathOf[c])
    /\ weak' = [Expired EXCEPT ![c] = SessionOf(PathOf[c])]
    /\ state' = [state EXCEPT ![c] = "START_PLAY"]
    /\ th' = [th EXCEPT ![l] = [IdleThread EXCEPT !.pc = "told", !.conn = c]]
    /\ UNCHANGED <<conn, timers, leaked, stage, player, races>>

\* rtmp_session_.lock(): the cleaner may have erased the session meanwhile.
LocksSession(l) ==
    /\ th[l].pc = "told"
    /\ th' = [th EXCEPT ![l] =
                IF Lock(th[l].conn) = None THEN IdleThread
                ELSE [@ EXCEPT !.pc = "adding", !.sess = Lock(th[l].conn)]]
    /\ UNCHANGED <<conn, state, weak, sessions, room, timers, leaked, stage, player, races>>

\* mutant: whoever comes is the publisher
AddedPublisher(r, c) == [sinks |-> r.sinks \cup {c}, publisher |-> c, header |-> None]

AddedSink(r, c) ==
    IF state[c] = "START_PUBLISH"
      THEN [sinks |-> r.sinks \cup {c}, publisher |-> c, header |-> None]
      ELSE [r EXCEPT !.sinks = @ \cup {c}]

AddSink(l) ==
    /\ th[l].pc = "adding" /\ SessionFree(th[l].sess)
    /\ room' = [room EXCEPT ![th[l].sess] = AddedSink(@, th[l].conn)]
    /\ th' = [th EXCEPT ![l] = IdleThread]
    /\ UNCHANGED <<conn, state, weak, sessions, timers, leaked, stage, player, races>>

----------------------------------------------------------------------------
(* A connection closes: TcpConnection::Close and HandleDeleteStream. *)

RemoveLater(c) ==
    IF Lock(c) = None THEN {} ELSE {[session |-> Lock(c), sink |-> c]}

\* Nobody reads a closed connection's flags again.
Reset(c) == IF c \in Players THEN [player EXCEPT ![c] = NotPlaying] ELSE player

\* On the connection's own loop: recv returns 0 or an error, or a handler
\* returns false.
ServerCloses(c) ==
    LET l == LoopOf[c] IN
    /\ conn[c] = "gone" /\ Idle(l)
    /\ conn' = [conn EXCEPT ![c] = "closed"]
    /\ timers' = [timers EXCEPT ![l] = @ \cup RemoveLater(c)]
    /\ player' = Reset(c)
    /\ UNCHANGED <<state, weak, sessions, room, leaked, th, stage, races>>

\* The 1 ms timer calls RemoveSink.  publisher_ is a weak_ptr and left alone.
RemovedSink(r, c) ==
    [r EXCEPT !.sinks = @ \ {c},
              !.header = IF state[c] = "START_PUBLISH" THEN None ELSE @]

TimersRepeat(l, t) == timers[l]         \* mutant: the timer is not a one-shot

NextTimers(l, t) == timers[l] \ {t}

TimerDue(l, t) ==
    /\ Idle(l) /\ t \in timers[l]
    /\ timers' = [timers EXCEPT ![l] = NextTimers(l, t)]
    /\ th' = [th EXCEPT ![l] =
                [IdleThread EXCEPT !.pc = "removing", !.conn = t.sink, !.sess = t.session]]
    /\ UNCHANGED <<conn, state, weak, sessions, room, leaked, stage, player, races>>

RemoveSink(l) ==
    /\ th[l].pc = "removing" /\ SessionFree(th[l].sess)
    /\ room' = [room EXCEPT ![th[l].sess] = RemovedSink(@, th[l].conn)]
    /\ th' = [th EXCEPT ![l] = IdleThread]
    /\ UNCHANGED <<conn, state, weak, sessions, timers, leaked, stage, player, races>>

----------------------------------------------------------------------------
(* A publisher's message goes to every player: SendMediaData. *)

\* A thread that sends to nobody more returns.
Sending(t) == IF t.todo = {} THEN IdleThread ELSE [t EXCEPT !.pc = "sending"]

\* HandleVideo returns false if the session is gone.
MediaLost(c) ==
    /\ conn' = [conn EXCEPT ![c] = "closed"]
    /\ UNCHANGED <<room, th, races>>

\* SetAvcSequenceHeader, and SendMediaData to every sink that is a player.
MediaGoesOut(c, k, s) ==
    LET alive == {v \in room[s].sinks : ConnAlive(v)} IN
    /\ SessionFree(s)
    /\ room' = [room EXCEPT ![s].sinks = alive,
                            ![s].header = IF k = "avc" THEN c ELSE @]
    /\ th' = [th EXCEPT ![LoopOf[c]] =
                Sending([pc |-> "sending", conn |-> c, sess |-> s, kind |-> k,
                         todo |-> {v \in alive : state[v] = "START_PLAY"}])]
    /\ UNCHANGED conn

Media(c, k) ==
    /\ conn[c] = "open" /\ state[c] = "START_PUBLISH" /\ Idle(LoopOf[c])
    /\ Sends(c, k)
    /\ IF Lock(c) = None THEN MediaLost(c) ELSE MediaGoesOut(c, k, Lock(c))
    /\ UNCHANGED <<state, weak, sessions, timers, leaked, player, races>>

\* What a player's decoder makes of a message it receives.
Decodes(v, c, k) ==
    CASE k = "avc" -> [v EXCEPT !.sawHeader = c]
      [] k = "key" -> [v EXCEPT !.sawKey = c, !.broken = @ \/ v.sawHeader # c]
      [] k = "inter" -> [v EXCEPT !.broken = @ \/ v.sawKey # c \/ v.sawHeader # c]
      [] k = "audio" -> v

GatedNot(v, k) == FALSE                 \* mutant: nothing waits for a key frame

Gated(v, k) == ~ v.key /\ v.avc /\ k \in {"inter", "audio"}

\* RtmpConnection::SendMediaData to player v of a message k from c.
SendMediaData(v, c, k) ==
    LET now == [v EXCEPT !.playing = TRUE,
                         !.avc = @ \/ k = "avc",
                         !.key = @ \/ (k = "key" /\ v.avc)] IN
    IF Gated(v, k) THEN now ELSE Decodes(now, c, k)

\* A player that has just come gets the session's sequence header first.
Delivered(v, header, c, k) ==
    IF ~ v.playing /\ header # None
      THEN SendMediaData(SendMediaData(v, header, "avc"), c, k)
      ELSE SendMediaData(v, c, k)

\* Whether that puts anything on v's socket.
Transmits(v, header, k) == ~ Gated(v, k) \/ (~ v.playing /\ header # None)

Todo(l, v) == th[l].todo \ {v}

SendOne(l, v) ==
    LET t == th[l] IN
    /\ t.pc = "sending" /\ v \in t.todo
    /\ th' = [th EXCEPT ![l] = Sending([@ EXCEPT !.todo = Todo(l, v)])]
    /\ player' = IF conn[v] = "closed" THEN player
                 ELSE [player EXCEPT ![v] = Delivered(@, room[t.sess].header, t.conn, t.kind)]
    /\ UNCHANGED <<conn, state, weak, sessions, room, timers, leaked, stage, races>>

\* send() fails: v is closed by this thread.  Its timer goes into its own
\* loop's queue, which has no lock: it may be lost.  The error is one that send()
\* returns, as ECONNRESET; for EPIPE it raises SIGPIPE, which nobody handles, and
\* the process ends.
SendFails(l, v) ==
    LET t == th[l]
        lost == l # LoopOf[v] IN
    /\ t.pc = "sending" /\ v \in t.todo
    /\ conn[v] = "gone"
    /\ Transmits(player[v], room[t.sess].header, t.kind)
    /\ conn' = [conn EXCEPT ![v] = "closed"]
    /\ player' = Reset(v)
    /\ \/ /\ timers' = [timers EXCEPT ![LoopOf[v]] = @ \cup RemoveLater(v)]
          /\ UNCHANGED leaked
       \/ /\ lost
          /\ leaked' = leaked \cup RemoveLater(v)
          /\ UNCHANGED timers
    /\ th' = [th EXCEPT ![l].pc = "notifying", ![l].todo = Todo(l, v)]
    /\ UNCHANGED <<state, weak, sessions, room, stage, races>>

\* NotifyEvent("play.stop").
Notified(l) ==
    /\ th[l].pc = "notifying" /\ ServerFree
    /\ th' = [th EXCEPT ![l] = Sending(@)]
    /\ UNCHANGED <<conn, state, weak, sessions, room, timers, leaked, stage, player, races>>

----------------------------------------------------------------------------
(* The cleaner, every 3 s on loop 0. *)

Cleaning(t) == IF t.todo = {} THEN IdleThread ELSE [t EXCEPT !.pc = "cleaning"]

CleanStarts ==
    /\ Idle(0) /\ ServerFree
    /\ th' = [th EXCEPT ![0] = Cleaning([IdleThread EXCEPT !.todo = Paths])]
    /\ UNCHANGED <<conn, state, weak, sessions, room, timers, leaked, stage, player, races>>

GetPlayers(s) == {c \in room[s].sinks \cap Players : ConnAlive(c)}     \* mutant

GetClients(s) == {c \in room[s].sinks : ConnAlive(c)}

Cleanable(p) == sessions[p] # None /\ GetClients(sessions[p]) = {}

\* Connections that were given s and are not in it yet.
Joining(s) ==
    {c \in Conns : weak[c] = s /\ \E l \in Loops : th[l].conn = c /\ th[l].pc \in {"told", "adding"}}

CleansOne(p) ==
    /\ th[0].pc = "cleaning" /\ p \in th[0].todo
    /\ sessions[p] # None => SessionFree(sessions[p])
    /\ sessions' = IF Cleanable(p) THEN [sessions EXCEPT ![p] = None] ELSE sessions
    /\ robbed' = IF Cleanable(p) THEN robbed \cup Joining(sessions[p]) ELSE robbed
    /\ th' = [th EXCEPT ![0] = Cleaning([th[0] EXCEPT !.todo = @ \ {p}])]
    /\ UNCHANGED <<conn, state, weak, room, timers, leaked, stage, player, contested>>

----------------------------------------------------------------------------

\* A loop's thread inside a handler.
Continues(l) ==
    \/ PublishRefused(l) \/ PublishAccepted(l) \/ PublishStarts(l)
    \/ LocksSession(l) \/ AddSink(l) \/ RemoveSink(l)
    \/ \E v \in Players : SendOne(l, v)
    \/ \E v \in Players : SendFails(l, v)
    \/ Notified(l)
    \/ l = 0 /\ \E p \in Paths : CleansOne(p)

NextTimer(l) == \E t \in timers[l] : TimerDue(l, t)

Closes(l) == \E c \in Conns : LoopOf[c] = l /\ ServerCloses(c)

Next ==
    \/ \E c \in Conns : Opens(c) \/ Leaves(c)
    \/ \E c \in Publishers : PublishAsks(c)
    \/ \E c \in Publishers, k \in Kinds : Media(c, k)
    \/ \E c \in Players : PlayStarts(c)
    \/ \E l \in Loops : Continues(l) \/ NextTimer(l) \/ Closes(l)
    \/ CleanStarts

Spec == Init /\ [][Next]_vars

\* TaskScheduler::Start serves every due timer and every ready socket in each
\* turn of its loop, and a thread that waits for a mutex gets it if it is freed
\* again and again.  The clients owe nothing.
HandlersGoOn == \A l \in Loops : SF_vars(Continues(l)) /\ SF_vars(NextTimer(l))

Fairness == /\ HandlersGoOn
            /\ \A l \in Loops : SF_vars(Closes(l))
            /\ SF_vars(CleanStarts)

TimelySpec == Spec /\ HandlersGoOn

FairSpec == Spec /\ Fairness

----------------------------------------------------------------------------
(* Properties. *)

Refs == Sessions \cup {None}

TypeOK ==
    /\ conn \in [Conns -> {"new", "open", "gone", "closed"}]
    /\ state \in [Conns -> {"HANDSHAKE", "START_PUBLISH", "START_PLAY"}]
    /\ weak \in [Conns -> Refs]
    /\ sessions \in [Paths -> Refs]
    /\ room \in [Sessions -> [sinks : SUBSET Conns,
                              publisher : Publishers \cup {None},
                              header : Publishers \cup {None}]]
    /\ timers \in [Loops -> SUBSET [session : Sessions, sink : Conns]]
    /\ leaked \subseteq [session : Sessions, sink : Players]
    /\ th \in [Loops -> [pc : {"idle", "asked", "accepted", "told", "adding",
                               "removing", "sending", "notifying", "cleaning"},
                         conn : Conns \cup {None}, sess : Refs,
                         kind : Kinds \cup {None}, todo : SUBSET (Players \cup Paths)]]
    /\ stage \in [Publishers -> {"start", "header", "frames"}]
    /\ player \in [Players -> [playing : BOOLEAN, key : BOOLEAN, avc : BOOLEAN,
                               sawHeader : Publishers \cup {None},
                               sawKey : Publishers \cup {None}, broken : BOOLEAN]]
    /\ contested \subseteq Paths /\ robbed \subseteq Conns

\* A player's decoder never receives a frame of a publisher whose sequence
\* header, and for an inter frame whose key frame, it has not received first:
\* what RtmpConnection::SendMediaData and RtmpSession::SendMediaData hold back
\* and send ahead, over every order of joins, publishers and departures on both
\* loops, of every stream but those that two publishers asked for at once.
Decodable ==
    \A v \in Players : player[v].broken => PathOf[v] \in contested

Joined(c) == Connected(c) /\ state[c] # "HANDSHAKE" /\ th[LoopOf[c]].conn # c

\* A client told "Publish.Start" or "Play.Start" is, once its handler has
\* returned, in the session the map holds for its stream, and a publisher is
\* that session's: neither the cleaner nor a predecessor's late RemoveSink takes
\* the session from under it.  The exceptions are the two windows the code
\* leaves open: the cleaner between GetSession and AddSink, and a second
\* HandlePublish on the other loop.
SessionKept ==
    \A c \in Conns \ robbed : Joined(c) =>
        /\ weak[c] # None /\ sessions[PathOf[c]] = weak[c]
        /\ c \in room[weak[c]].sinks
        /\ c \in Publishers /\ PathOf[c] \notin contested => room[weak[c]].publisher = c

\* The cleaner waits for a session that the other loop holds while that loop
\* waits for the map, which the cleaner holds: neither goes on.
Stalled ==
    \E p \in Paths, l \in Loops :
        /\ th[0].pc = "cleaning" /\ p \in th[0].todo /\ sessions[p] # None
        /\ th[l].pc = "notifying" /\ th[l].sess = sessions[p]

\* The name of a stream becomes free again: a publisher whose connection was
\* closed is destroyed, so that HasPublisher no longer refuses its successor,
\* unless the two loops have stopped each other for good.
PathFreed == \A c \in Publishers : conn[c] = "closed" ~> (~ ConnAlive(c) \/ Stalled)

\* "Runs every 3 seconds, in a loop": the cleaner runs again and again, which a
\* loop thread that waits for ever would end, and all its connections with it.
CleanerRepeats ==
    []<>(th[0].pc = "cleaning") /\ []<>(th[0].pc # "cleaning")
=============================================================================
