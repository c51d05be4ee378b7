-------------------------------- MODULE Player --------------------------------
(* A control window's player.  Four threads share it:                         *)
(*   "loop"  the event loop of the window's signalling connection, which      *)
(*           starts a stream at each PLAYSTREAM (HandleStartStream);          *)
(*   "gui"   the Qt thread, which paints and, when the window is closed,      *)
(*           stops the player (StopRemote);                                   *)
(*   the video thread, which carries frames from the decoder's one-frame      *)
(*           queue to the presenter, and the audio thread, which matters here *)
(*           only because Close waits for it.                                 *)
(* The demuxer's reading and decoding threads appear as DecodesFrame.         *)
(* HandleStopStream is not modelled: only a controlled end's DELETESTREAM     *)
(* handler calls the stop callback (Net/SigConnection.cpp:286), so a window's *)
(* player is stopped once, for good, by the GUI thread.                       *)
EXTENDS FramePresenter

CONSTANTS MaxFrames,   \* bound: frames decoded of one stream
          MaxSession,  \* bound: how often the presenter is reset
          StopsAlone,  \* the window is closed only while the loop is in no handler
          None

ASSUME PlayerAssumption == /\ MaxFrames \in Nat \ {0}
                           /\ MaxSession \in Nat \ {0}
                           /\ StopsAlone \in BOOLEAN
                           /\ None \notin [session : Nat, seq : Nat]

VARIABLES
    at,          \* the next statement of the loop's handler and of the GUI thread
    connected,   \* sig_conn_ still delivers packets
    stop,        \* stop_
    demuxer,     \* avDEMuxer_: released, made, or fetching a stream
    stream,      \* how often AVDEMuxer::Open was called, and the stream being fetched
    decoded,     \* frames decoded of that stream
    slot,        \* AVContext::video_queue_
    audio,       \* audioThread_: absent, running or finished
    video,       \* videoThread_: absent, finished, or the statement it is at
    held,        \* the video thread's frame
    owed,        \* the session of the notification it is about to post
    presenter,   \* presenter_
    notices,     \* posted notifications, by session
    resets,      \* a queued update() of ResetPresentation
    update,      \* the widget has a paint request
    texSession,  \* textureSessionId_
    texture,     \* what the YUV textures hold
    mine,        \* the frame of the running paintGL, if it took a new one
    screen,      \* what is on the screen
    crashed      \* a null demuxer was used or a thread object replaced unjoined

loopVars == <<at, connected, stop, demuxer, stream, decoded>>
playVars == <<audio, video, held, owed>>
paintVars == <<texSession, texture, mine, screen>>
vars == <<at, connected, stop, demuxer, stream, decoded, slot, audio, video, held, owed,
          presenter, notices, resets, update, texSession, texture, mine, screen, crashed>>

Threads == {"loop", "gui"}
Starting == {"make", "run", "empty", "present", "open", "audio", "video"}
Closing == {"joinAudio", "joinVideo", "release", "reset"}
Painting == {"take", "draw", "mark"}

Init == /\ at = [t \in Threads |-> "idle"]
        /\ connected = TRUE
        /\ stop = FALSE
        /\ demuxer = "made"
        /\ stream = 0 /\ decoded = 0 /\ slot = NoFrame
        /\ audio = "absent" /\ video = "absent" /\ held = NoFrame /\ owed = 0
        /\ presenter = Emptied(0)
        /\ notices = [s \in 0..MaxSession |-> 0]
        /\ resets = FALSE /\ update = FALSE
        /\ texSession = 0 /\ texture = None /\ mine = None /\ screen = None
        /\ crashed = FALSE

Goes(t, here, there) == /\ at[t] = here
                        /\ at' = [at EXCEPT ![t] = there]
                        /\ ~crashed

-----------------------------------------------------------------------------
(* HandleStartStream, on the loop.                                            *)

\* PLAYSTREAM arrives, the window's first or a later one: nothing in the handler
\* tells them apart, and the server forwards a device's late reply to whoever has
\* it now.
PlayStream == /\ connected
              /\ presenter.session < MaxSession - 1
              /\ StopsAlone => at["gui"] \notin Closing
              /\ Goes("loop", "idle", "make")
              /\ UNCHANGED <<connected, stop, demuxer, stream, decoded, slot, playVars,
                             presenter, notices, resets, update, paintVars, crashed>>

MakesDemuxer == /\ Goes("loop", "make", "run")
                /\ demuxer' = IF demuxer = "released" THEN "made" ELSE demuxer
                /\ UNCHANGED <<connected, stop, stream, decoded, slot, playVars,
                               presenter, notices, resets, update, paintVars, crashed>>

Runs == /\ Goes("loop", "run", "empty")
        /\ stop' = FALSE
        /\ UNCHANGED <<connected, demuxer, stream, decoded, slot, playVars,
                       presenter, notices, resets, update, paintVars, crashed>>

EmptiesQueue == /\ Goes("loop", "empty", "present")
                /\ slot' = NoFrame
                /\ UNCHANGED <<connected, stop, demuxer, stream, decoded, playVars,
                               presenter, notices, resets, update, paintVars, crashed>>

\* ResetPresentation: the presenter is emptied and an update() queued to the GUI.
ResetPresentation == /\ presenter' = Reset(presenter)
                     /\ resets' = TRUE

PresentsAfresh == /\ Goes("loop", "present", "open")
                  /\ ResetPresentation
                  /\ UNCHANGED <<connected, stop, demuxer, stream, decoded, slot, playVars,
                                 notices, update, paintVars, crashed>>

\* AVDEMuxer::Open: a reading thread starts.  A released demuxer is a null pointer;
\* one that is fetching has a reading thread, whose std::thread object is destroyed
\* unjoined when the new one takes its place, and that ends the process.
Opens == /\ Goes("loop", "open", "audio")
         /\ stream' = stream + 1
         /\ IF demuxer = "made"
              THEN demuxer' = "fetching" /\ decoded' = 0 /\ UNCHANGED crashed
              ELSE crashed' = TRUE /\ UNCHANGED <<demuxer, decoded>>
         /\ UNCHANGED <<connected, stop, slot, playVars, presenter, notices, resets,
                        update, paintVars>>

\* The playing threads' objects are replaced in the same way.
StartsAudio == /\ Goes("loop", "audio", "video")
               /\ IF audio = "absent" THEN audio' = "runs" /\ UNCHANGED crashed
                                       ELSE crashed' = TRUE /\ UNCHANGED audio
               /\ UNCHANGED <<connected, stop, demuxer, stream, decoded, slot, video, held,
                              owed, presenter, notices, resets, update, paintVars>>

StartsVideo == /\ Goes("loop", "video", "idle")
               /\ IF video = "absent"
                    THEN video' = "top" /\ held' = NoFrame /\ UNCHANGED crashed
                    ELSE crashed' = TRUE /\ UNCHANGED <<video, held>>
               /\ UNCHANGED <<connected, stop, demuxer, stream, decoded, slot, audio, owed,
                              presenter, notices, resets, update, paintVars>>
-----------------------------------------------------------------------------
(* Close, on the GUI thread when the window is closed.  It waits for the two  *)
(* playing threads, releases the demuxer, which waits for its own, and        *)
(* empties the presenter.                                                     *)

\* Mutant: Close waits for threads it did not tell to stop.
StopRemoteRunsOn == /\ connected
                    /\ StopsAlone => at["loop"] = "idle"
                    /\ Goes("gui", "idle", "joinAudio")
                    /\ UNCHANGED <<connected, stop, demuxer, stream, decoded, slot, playVars,
                                   presenter, notices, resets, update, paintVars, crashed>>

StopRemote == /\ connected
              /\ StopsAlone => at["loop"] = "idle"
              /\ Goes("gui", "idle", "joinAudio")
              /\ stop' = TRUE
              /\ UNCHANGED <<connected, demuxer, stream, decoded, slot, playVars,
                             presenter, notices, resets, update, paintVars, crashed>>

JoinsAudio == /\ Goes("gui", "joinAudio", "joinVideo")
              /\ audio \in {"absent", "finished"}
              /\ audio' = "absent"
              /\ UNCHANGED <<connected, stop, demuxer, stream, decoded, slot, video, held,
                             owed, presenter, notices, resets, update, paintVars, crashed>>

\* Mutant: the video thread is told to stop and not waited for.
JoinsNoVideo == /\ Goes("gui", "joinVideo", "release")
                /\ UNCHANGED <<connected, stop, demuxer, stream, decoded, slot, playVars,
                               presenter, notices, resets, update, paintVars, crashed>>

JoinsVideo == /\ Goes("gui", "joinVideo", "release")
              /\ video \in {"absent", "finished"}
              /\ video' = "absent"
              /\ UNCHANGED <<connected, stop, demuxer, stream, decoded, slot, audio, held,
                             owed, presenter, notices, resets, update, paintVars, crashed>>

ReleasesDemuxer == /\ Goes("gui", "release", "reset")
                   /\ demuxer' = "released"
                   /\ UNCHANGED <<connected, stop, stream, decoded, slot, playVars,
                                  presenter, notices, resets, update, paintVars, crashed>>

\* The GUI thread goes on to disconnect; the connection then delivers nothing more.
Closes == /\ Goes("gui", "reset", "idle")
          /\ ResetPresentation
          /\ connected' = FALSE
          /\ UNCHANGED <<stop, demuxer, stream, decoded, slot, playVars, notices,
                         update, paintVars, crashed>>
-----------------------------------------------------------------------------
(* The demuxer's threads, and the playing threads.                            *)

\* A frame leaves the decoder; one still in the queue is replaced.
DecodesFrame == /\ ~crashed
                /\ demuxer = "fetching" /\ decoded < MaxFrames
                /\ decoded' = decoded + 1
                /\ slot' = stream
                /\ UNCHANGED <<at, connected, stop, demuxer, stream, playVars, presenter,
                               notices, resets, update, paintVars, crashed>>

VideoGoes(here, there) == /\ video = here
                          /\ video' = there
                          /\ ~crashed

MayPlay == ~stop /\ demuxer # "released"

AudioEnds == /\ ~crashed
             /\ audio = "runs" /\ ~MayPlay
             /\ audio' = "finished"
             /\ UNCHANGED <<loopVars, slot, video, held, owed, presenter, notices, resets,
                            update, paintVars, crashed>>

VideoEnds == /\ VideoGoes("top", "finished")
             /\ ~MayPlay
             /\ UNCHANGED <<loopVars, slot, audio, held, owed, presenter, notices, resets,
                            update, paintVars, crashed>>

\* The queue is not empty: it is popped in a critical section of its own.
VideoSeesFrame == /\ VideoGoes("top", "pop")
                  /\ MayPlay
                  /\ slot # NoFrame
                  /\ UNCHANGED <<loopVars, slot, audio, held, owed, presenter, notices,
                                 resets, update, paintVars, crashed>>

\* pop leaves the caller's frame as it was when the queue has been emptied meanwhile.
VideoPops == /\ VideoGoes("pop", "publish")
             /\ held' = IF slot # NoFrame THEN slot ELSE held
             /\ slot' = NoFrame
             /\ UNCHANGED <<loopVars, audio, owed, presenter, notices, resets, update,
                            paintVars, crashed>>

VideoPublishes == /\ VideoGoes("publish", IF MustNotify(presenter) THEN "notify" ELSE "top")
                  /\ presenter' = Publish(presenter, held)
                  /\ owed' = presenter.session
                  /\ UNCHANGED <<loopVars, slot, audio, held, notices, resets, update,
                                 paintVars, crashed>>

\* sig_repaint: a queued signal that carries the session and no frame.
VideoNotifies == /\ VideoGoes("notify", "top")
                 /\ notices' = [notices EXCEPT ![owed] = @ + 1]
                 /\ UNCHANGED <<loopVars, slot, audio, held, owed, presenter, resets, update,
                                paintVars, crashed>>
-----------------------------------------------------------------------------
(* The Qt thread's events.                                                    *)

GuiIdle == at["gui"] = "idle" /\ ~crashed

\* OnRepaintRequested.  Notifications of different sessions may arrive in any order.
RepaintRequested == /\ GuiIdle
                    /\ \E s \in DOMAIN notices :
                          /\ notices[s] > 0
                          /\ notices' = [notices EXCEPT ![s] = @ - 1]
                          /\ presenter' = OnNotified(presenter, s)
                          /\ update' = (update \/ s = presenter.session)
                    /\ UNCHANGED <<loopVars, slot, playVars, resets, paintVars, crashed>>

ResetUpdates == /\ GuiIdle
                /\ resets
                /\ resets' = FALSE
                /\ update' = TRUE
                /\ UNCHANGED <<loopVars, slot, playVars, presenter, notices, paintVars, crashed>>

\* paintGL begins, for a request or because the widget was resized or uncovered:
\* textures of an earlier session are freed.
PaintBegins == /\ Goes("gui", "idle", "take")
               /\ update' = FALSE
               /\ texture' = IF texSession # presenter.session THEN None ELSE texture
               /\ texSession' = presenter.session
               /\ UNCHANGED <<connected, stop, demuxer, stream, decoded, slot, playVars,
                              presenter, notices, resets, mine, screen, crashed>>

\* A frame that is new is taken and uploaded into the textures.
PaintTakes == /\ Goes("gui", "take", "draw")
              /\ presenter' = TakeFrameForPaint(presenter)
              /\ LET frame == [session |-> presenter.session, seq |-> presenter.produced] IN
                   IF HasNewFrame(presenter)
                     THEN /\ mine' = frame
                          /\ texture' = frame
                          /\ texSession' = frame.session
                     ELSE mine' = None /\ UNCHANGED <<texture, texSession>>
              /\ UNCHANGED <<connected, stop, demuxer, stream, decoded, slot, playVars,
                             notices, resets, update, screen, crashed>>

\* Mutant: what was uploaded is drawn, though its session may have ended meanwhile.
PaintDrawsAnyway == /\ Goes("gui", "draw", IF mine = None THEN "idle" ELSE "mark")
                    /\ screen' = texture
                    /\ UNCHANGED <<connected, stop, demuxer, stream, decoded, slot, playVars,
                                   presenter, notices, resets, update, texSession, texture,
                                   mine, crashed>>

\* A session that ended during the upload leaves the cleared window; otherwise
\* the textures are drawn.  The check and the drawing are one step: a session
\* that ends between them is as good as one that ends after the drawing.
PaintDraws == /\ LET stale == texSession # presenter.session IN
                   /\ Goes("gui", "draw", IF stale \/ mine = None THEN "idle" ELSE "mark")
                   /\ texture' = IF stale THEN None ELSE texture
                   /\ screen' = texture'
              /\ UNCHANGED <<connected, stop, demuxer, stream, decoded, slot, playVars,
                             presenter, notices, resets, update, texSession, mine, crashed>>

PaintMarks == /\ Goes("gui", "mark", "idle")
              /\ presenter' = MarkPainted(presenter, mine.seq, mine.session)
              /\ UNCHANGED <<connected, stop, demuxer, stream, decoded, slot, playVars,
                             notices, resets, update, paintVars, crashed>>
-----------------------------------------------------------------------------
Start == \/ PlayStream \/ MakesDemuxer \/ Runs \/ EmptiesQueue \/ PresentsAfresh
         \/ Opens \/ StartsAudio \/ StartsVideo

Close == JoinsAudio \/ JoinsVideo \/ ReleasesDemuxer \/ Closes

Video == VideoEnds \/ VideoSeesFrame \/ VideoPops \/ VideoPublishes \/ VideoNotifies

Paint == PaintTakes \/ PaintDraws \/ PaintMarks

Next == \/ Start
        \/ StopRemote \/ Close
        \/ DecodesFrame
        \/ AudioEnds \/ Video
        \/ RepaintRequested \/ ResetUpdates
        \/ PaintBegins \/ Paint

(* A handler that has begun goes on, the playing threads poll every           *)
(* millisecond, and Qt's event loop delivers what is posted to it and paints  *)
(* when asked.  Nothing makes frames, packets or a click on the window come.  *)
Fairness == /\ WF_vars(Start /\ at["loop"] # "idle")
            /\ WF_vars(Close)
            /\ WF_vars(AudioEnds) /\ WF_vars(Video)
            /\ WF_vars(RepaintRequested) /\ WF_vars(ResetUpdates)
            /\ WF_vars(PaintBegins /\ update) /\ WF_vars(Paint)

Spec == Init /\ [][Next]_vars /\ Fairness
-----------------------------------------------------------------------------
Drawn == [session : 0..MaxSession, seq : Nat]

ThreadsOK == /\ at \in [Threads -> {"idle"} \union Starting \union Closing \union Painting]
             /\ demuxer \in {"released", "made", "fetching"}
             /\ stream \in Nat /\ decoded \in 0..MaxFrames
             /\ slot \in 0..stream /\ held \in 0..stream
             /\ audio \in {"absent", "runs", "finished"}
             /\ video \in {"absent", "top", "pop", "publish", "notify", "finished"}

NoticesOK == /\ owed \in 0..MaxSession
             /\ notices \in [0..MaxSession -> Nat]

FlagsOK == {connected, stop, crashed, resets, update} \subseteq BOOLEAN

PresenterOK == /\ presenter \in [latest : 0..stream, session : 0..MaxSession, produced : Nat,
                                 taken : Nat, painted : Nat, pending : BOOLEAN]
               /\ presenter.painted <= presenter.taken
               /\ presenter.taken <= presenter.produced

PaintOK == /\ texSession \in 0..MaxSession
           /\ texture \in Drawn \union {None}
           /\ mine \in Drawn \union {None}
           /\ screen \in Drawn \union {None}

\* The fields keep their types, and a session's counters their order: a frame is
\* painted only after it was taken, and taken only after it was published.
TypeOK == ThreadsOK /\ FlagsOK /\ NoticesOK /\ PresenterOK /\ PaintOK

\* Notifications of session s that were posted or are about to be.
Outstanding(s) == notices[s] + (IF video = "notify" /\ owed = s THEN 1 ELSE 0)

\* The presenter's flag says exactly whether the GUI still has a notification of
\* this session to come: never two at once, and never a flag that waits for one
\* that was used up by a session that ended.
OneNotification ==
    Outstanding(presenter.session) = (IF presenter.pending THEN 1 ELSE 0)

\* HandleStartStream and Close never use a demuxer that was released, and never
\* replace the object of a thread that nobody waited for.
NoCrash == ~crashed

\* "First let the two playing threads exit and be collected; only then may the
\* demuxer they refer to be released": no such thread exists without a demuxer.
DemuxerOutlivesPlayers ==
    demuxer = "released" => audio # "runs" /\ video \in {"absent", "finished"}

\* As long as the window is sent one PLAYSTREAM, starting and closing it is safe:
\* what ends the process is a second stream opened in the same player.
OneStreamIsSafe == (stream <= 1 => NoCrash) /\ DemuxerOutlivesPlayers

\* Close returns: both playing threads see the flag and end, whatever they were at.
CloseReturns == at["gui"] \in Closing ~> at["gui"] = "idle"

\* The screen follows the newest frame of the session, in order, and loses the
\* picture of a session that ended; that it catches up is asked of a process that
\* lives.
Promise == INSTANCE LatestFrame WITH session <- presenter.session,
                                     newest <- presenter.produced,
                                     Blank <- None
ImplementsLatestFrame == Promise!LSafe /\ (Promise!LFair \/ <>crashed)
=============================================================================
