------------------------------- MODULE Publisher -------------------------------
(* A device's publishing: RtmpPushManager, driven by RemoteManager.  Its      *)
(* threads are                                                                *)
(*   "loop"  the signalling event loop, which opens a stream for CREATESTREAM *)
(*           and closes it for DELETESTREAM;                                  *)
(*   "gui"   the Qt thread, which rebuilds a stream whose hardware encoder    *)
(*           has failed;                                                      *)
(*   the capture thread of the video source, which hands frames to the video  *)
(*   encoding thread, and the recorder of AudioCapture, which hands samples   *)
(*   to the audio encoding thread.                                            *)
(* Open tries one path of capture and encoder after another; Close wakes and  *)
(* collects the threads before it releases what they use.                     *)
EXTENDS TripleBuffer, TexturePool, AudioCapture

CONSTANTS MaxFrames,      \* bound: frames captured by one source
          MaxOpens,       \* bound: calls of Open
          RebuildsAlone,  \* a failure is dealt with while the loop is in no handler
          None

VARIABLES
    at,       \* the next statement of the loop's handler and of the GUI's
    then,     \* what follows when a Close or a teardown is done
    rung,     \* the path Open is trying, or has opened
    role,     \* the signalling client's state_: IDLE or PUSHER
    addr,     \* lastStreamAddr_ is not empty
    backend,  \* captureBackend_ and videoSourceKind_
    wish,     \* encoderKind_
    active,   \* activePath_
    opens,    \* calls of Open
    exit,     \* exit_
    live,     \* isConnect and not exit_
    source,   \* videoSource_, by the path it captures for
    encoder,  \* h264_encoder_
    gpu,      \* sharedGpu_
    video,    \* videoCaptureThread_: absent, finished, or the statement it is at
    audio,    \* audioCaptureThread_: absent, running or finished
    failures, \* videoPathFailed signals that are queued
    capture,  \* the source's thread: absent, finished, or the statement it is at
    quit,     \* the source's stop_
    halted,   \* the source's stopped_
    fresh,    \* the source's hasNewFrame_
    buf,      \* the indices of the source's three buffers
    pool,     \* the source's texture pool
    last,     \* the texture of its thread's lastFrame
    latest,   \* the texture of its latestFrame_
    shot,     \* frames captured
    newest,   \* the newest frame handed over
    image,    \* the frame each buffer or texture holds
    held,     \* where the frame of the video thread is
    got,      \* which frame that is
    crashed   \* a thread object was replaced, or a released encoder used

openVars == <<then, rung, role, addr, backend, wish, active, opens>>
keptVars == <<exit, live, source, encoder, gpu, soundVars>>
codeVars == <<video, audio, failures, held, got>>
sourceVars == <<capture, quit, halted, fresh, buf, pool, last, latest, shot, newest, image>>
vars == <<at, openVars, keptVars, codeVars, sourceVars, crashed>>

Threads == {"loop", "gui"}
Backends == {"wgc", "gdi", "camera"}
Paths == {"gpu", "readback", "gdi", "camera"}
Opening == {"init", "source", "encoder", "url", "publishing", "video", "audio"}
Closing == {"close", "wake", "joinAudio", "joinVideo", "drop", "silence", "stop", "join"}
Places == Buffers \union Textures

ASSUME PublisherAssumption ==
    /\ MaxFrames \in Nat \ {0}
    /\ MaxOpens \in Nat \ {0}
    /\ RebuildsAlone \in BOOLEAN
    /\ None \notin Places /\ None \notin Paths \union {"hardware", "software"}

\* The sources that hand frames over in three buffers, and those with a single slot.
Buffered == {"gdi", "camera"}
Slotted == {"gpu", "readback"}

EncoderOf(path) == IF path = "gpu" THEN "hardware" ELSE "software"

\* The first path that is tried, and the one after a path that failed.
FirstPath(wanted, kind) == IF wanted \in {"camera", "gdi"} THEN wanted
                           ELSE IF kind = "hardware" THEN "gpu" ELSE "readback"

Below(path) == CASE path = "gpu" -> "readback"
                 [] path = "readback" -> "gdi"
                 [] OTHER -> "idle"

Init == /\ at = [t \in Threads |-> "idle"]
        /\ then = [t \in Threads |-> "idle"]
        /\ rung = [t \in Threads |-> None]
        /\ role = "IDLE" /\ addr = FALSE /\ backend = "gdi" /\ wish = "hardware"
        /\ active = None /\ opens = 0
        /\ exit = FALSE /\ live = FALSE /\ source = None /\ encoder = None /\ gpu = FALSE /\ SoundInit
        /\ video = "absent" /\ audio = "absent" /\ failures = 0 /\ held = None /\ got = 0
        /\ capture = "absent" /\ quit = FALSE /\ halted = FALSE /\ fresh = FALSE
        /\ buf = Started /\ pool = {} /\ last = None /\ latest = None
        /\ shot = 0 /\ newest = 0 /\ image = [p \in Places |-> 0]
        /\ crashed = FALSE

Goes(t, here, there) == /\ at[t] = here
                        /\ at' = [at EXCEPT ![t] = there]
                        /\ ~crashed
-----------------------------------------------------------------------------
(* The handlers that open and close a stream.                                 *)

\* CREATESTREAM, which a device that publishes ignores.
CreateStream(wanted) ==
    /\ role = "IDLE" /\ opens < MaxOpens
    /\ RebuildsAlone => at["gui"] = "idle" /\ failures = 0
    /\ Goes("loop", "idle", "init")
    /\ addr' = TRUE /\ backend' = wanted /\ opens' = opens + 1
    /\ UNCHANGED <<then, rung, role, wish, active, keptVars, codeVars, sourceVars, crashed>>

\* DELETESTREAM that tells of no viewer left.
DeleteStream ==
    /\ RebuildsAlone => at["gui"] = "idle"
    /\ Goes("loop", "idle", "close")
    /\ then' = [then EXCEPT !["loop"] = "idle"]
    /\ addr' = FALSE /\ role' = "IDLE"
    /\ UNCHANGED <<rung, backend, wish, active, opens, keptVars, codeVars, sourceVars, crashed>>

\* A stream that was stopped, and a camera's, is not rebuilt.
VideoPathFailed ==
    /\ failures > 0
    /\ RebuildsAlone => at["loop"] = "idle"
    /\ failures' = failures - 1
    /\ IF addr /\ active # "camera"
         THEN /\ opens < MaxOpens
              /\ Goes("gui", "idle", "close")
              /\ then' = [then EXCEPT !["gui"] = "init"]
         ELSE Goes("gui", "idle", "idle") /\ UNCHANGED then
    /\ UNCHANGED <<rung, role, addr, backend, wish, active, opens, keptVars, video, audio,
                   held, got, sourceVars, crashed>>
-----------------------------------------------------------------------------
(* Open.                                                                      *)

BeginsInit(t) ==
    /\ Goes(t, "init", "source")
    /\ exit' = FALSE /\ live' = FALSE
    /\ rung' = [rung EXCEPT ![t] = FirstPath(backend, wish)]
    /\ UNCHANGED <<then, role, addr, backend, wish, active, opens, source, encoder, soundVars,
                   gpu, codeVars, sourceVars, crashed>>

\* A path that fails is torn down; the next one is tried, or Open has failed.
TearsDown(t, here) ==
    /\ Goes(t, here, "joinAudio")
    /\ then' = [then EXCEPT ![t] = Below(rung[t])]

\* The source starts.  A WGC source returns from Init only with its first frame.
SourceStarts(t) ==
    /\ Goes(t, "source", "encoder")
    /\ source' = rung[t]
    /\ gpu' = (gpu \/ rung[t] = "gpu")
    /\ capture' = "top" /\ quit' = FALSE /\ halted' = FALSE /\ buf' = Started
    /\ fresh' = (rung[t] \in Slotted)
    /\ IF rung[t] \in Slotted
         THEN LET made == Made({held} \ {None})
                  first == CHOOSE p \in made : TRUE
              IN  /\ pool' = IF rung[t] = "gpu" THEN made ELSE {}
                  /\ last' = first /\ latest' = first
                  /\ shot' = 1 /\ newest' = 1
                  /\ image' = [image EXCEPT ![first] = 1]
         ELSE pool' = {} /\ last' = None /\ latest' = None /\ shot' = 0 /\ newest' = 0
              /\ UNCHANGED image
    /\ UNCHANGED <<openVars, exit, live, encoder, soundVars, codeVars, crashed>>

SourceFails(t) ==
    /\ TearsDown(t, "source")
    /\ gpu' \in {gpu, gpu \/ rung[t] = "gpu"}
    /\ UNCHANGED <<rung, role, addr, backend, wish, active, opens, exit, live, source, encoder,
                   soundVars, codeVars, sourceVars, crashed>>

\* SetupEncoderAndAudio: the video encoder, then the audio capture and its encoder.
EncodersOpen(t) ==
    /\ Goes(t, "encoder", "url")
    /\ encoder' = EncoderOf(rung[t]) /\ active' = rung[t]
    /\ SoundOpens
    /\ UNCHANGED <<then, rung, role, addr, backend, wish, opens, exit, live, source, gpu,
                   codeVars, sourceVars, crashed>>

\* Mutant: the half of a path that was set up stays behind.
EncodersLeftOpen(t) ==
    /\ Goes(t, "encoder", "idle")
    /\ UNCHANGED <<openVars, keptVars, codeVars, sourceVars, crashed>>

EncodersFail(t) ==
    /\ TearsDown(t, "encoder")
    /\ \/ encoder' = None /\ UNCHANGED soundVars
       \/ encoder' = EncoderOf(rung[t]) /\ (UNCHANGED soundVars \/ SoundOpens)
    /\ UNCHANGED <<rung, role, addr, backend, wish, active, opens, exit, live, source, gpu,
                   codeVars, sourceVars, crashed>>

\* OpenUrl, then waiting until the server lets the stream be published.  A rebuild
\* opens lastStreamAddr_ itself, which a stop may have emptied by now.  Both use
\* pusher_, which a Close drops with the encoders.
Publishing(t) ==
    /\ encoder # None
    /\ \/ Goes(t, "url", "publishing") /\ addr
       \/ Goes(t, "publishing", "video")
    /\ UNCHANGED <<openVars, keptVars, codeVars, sourceVars, crashed>>

\* The server is not reached, the connection is lost, or five seconds have passed.
PublishingFails(t) ==
    /\ \/ Goes(t, "url", "close")
       \/ Goes(t, "publishing", "close")
    /\ then' = [then EXCEPT ![t] = "idle"]
    /\ UNCHANGED <<rung, role, addr, backend, wish, active, opens, keptVars, codeVars,
                   sourceVars, crashed>>

\* Destroying the std::thread object of a thread nobody joined ends the process.  A
\* thread that finds no source leaves at once.
StartsVideo(t) ==
    /\ Goes(t, "video", "audio")
    /\ live' = ~exit
    /\ IF video = "absent"
         THEN /\ video' = IF source = None THEN "finished" ELSE "top"
              /\ held' = None /\ got' = 0 /\ UNCHANGED crashed
         ELSE crashed' = TRUE /\ UNCHANGED <<video, held, got>>
    /\ UNCHANGED <<openVars, exit, source, encoder, soundVars, gpu, audio, failures,
                   sourceVars>>

\* Open returns: what was opened becomes the default of the next stream.
StartsAudio(t) ==
    /\ Goes(t, "audio", "idle")
    /\ IF audio = "absent" THEN audio' = "runs" /\ UNCHANGED crashed
                           ELSE crashed' = TRUE /\ UNCHANGED audio
    /\ role' = IF t = "loop" THEN "PUSHER" ELSE role
    /\ wish' = IF t = "gui" THEN "hardware" ELSE wish
    /\ backend' = IF active \in Slotted THEN "wgc" ELSE active
    /\ rung' = [rung EXCEPT ![t] = None]
    /\ UNCHANGED <<then, addr, active, opens, keptVars, video, failures, held, got,
                   sourceVars>>
-----------------------------------------------------------------------------
(* Close, and from JoinsAudio on the teardown of a path that failed.          *)

Closes(t) ==
    /\ Goes(t, "close", "wake")
    /\ exit' = TRUE /\ live' = FALSE
    /\ UNCHANGED <<openVars, source, encoder, soundVars, gpu, codeVars, sourceVars, crashed>>

\* Mutant: the video thread is joined before anyone wakes it.
WakesNobody(t) ==
    /\ Goes(t, "wake", "joinAudio")
    /\ UNCHANGED <<openVars, keptVars, codeVars, sourceVars, crashed>>

\* RequestStop.  That of GDI lets its thread run on until Close.
WakesVideo(t) ==
    /\ Goes(t, "wake", "joinAudio")
    /\ halted' = (halted \/ source # None)
    /\ quit' = (quit \/ source \in Slotted \union {"camera"})
    /\ UNCHANGED <<openVars, keptVars, codeVars, capture, fresh, buf, pool, last, latest,
                   shot, newest, image, crashed>>

\* Mutant: the audio thread is waited for, and its thread object stays.
AwaitsAudio(t) ==
    /\ Goes(t, "joinAudio", "joinVideo")
    /\ audio \in {"absent", "finished"}
    /\ UNCHANGED <<openVars, keptVars, codeVars, sourceVars, crashed>>

JoinsAudio(t) ==
    /\ Goes(t, "joinAudio", "joinVideo")
    /\ audio \in {"absent", "finished"}
    /\ audio' = "absent"
    /\ UNCHANGED <<openVars, keptVars, video, failures, held, got, sourceVars, crashed>>

\* Mutant: the encoders are closed under the video thread.
PassesVideo(t) ==
    /\ Goes(t, "joinVideo", "drop")
    /\ UNCHANGED <<openVars, keptVars, codeVars, sourceVars, crashed>>

JoinsVideo(t) ==
    /\ Goes(t, "joinVideo", "drop")
    /\ video \in {"absent", "finished"}
    /\ video' = "absent"
    /\ UNCHANGED <<openVars, keptVars, audio, failures, held, got, sourceVars, crashed>>

\* The encoders go, with pusher_ when it is a Close; the recorder is told to stop.
DropsEncoders(t) ==
    /\ Goes(t, "drop", "silence")
    /\ encoder' = None
    /\ RecorderIsTold
    /\ UNCHANGED <<openVars, exit, live, source, gpu, codeVars, sourceVars, crashed>>

ClosesSound(t) ==
    /\ Goes(t, "silence", "stop")
    /\ SoundCloses
    /\ UNCHANGED <<openVars, exit, live, source, encoder, gpu, codeVars, sourceVars, crashed>>

StopsCapture(t) ==
    /\ Goes(t, "stop", "join")
    /\ halted' = (halted \/ source # None)
    /\ quit' = (quit \/ source # None)
    /\ UNCHANGED <<openVars, keptVars, codeVars, capture, fresh, buf, pool, last, latest,
                   shot, newest, image, crashed>>

\* The capture thread has ended: the source, its frames and the shared device go.
\* A Close may be followed by Open, a teardown by the next path.
ReleasesSource(t) ==
    /\ capture \in {"absent", "finished"}
    /\ Goes(t, "join", IF then[t] \in Paths THEN "source" ELSE then[t])
    /\ capture' = "absent" /\ source' = None /\ gpu' = FALSE
    /\ quit' = FALSE /\ halted' = FALSE /\ fresh' = FALSE
    /\ buf' = Started /\ pool' = {} /\ last' = None /\ latest' = None
    /\ shot' = 0 /\ newest' = 0
    /\ image' = [p \in Places |-> IF p \in Textures /\ p = held THEN image[p] ELSE 0]
    /\ rung' = [rung EXCEPT ![t] = IF then[t] \in Paths THEN then[t] ELSE None]
    /\ then' = [then EXCEPT ![t] = "idle"]
    /\ wish' = IF t = "loop" THEN wish
               ELSE IF then[t] = "init" THEN "software"
               ELSE IF then[t] = "idle" THEN "hardware" ELSE wish
    /\ opens' = IF then[t] = "init" THEN opens + 1 ELSE opens
    /\ UNCHANGED <<role, addr, backend, active, exit, live, encoder, soundVars, codeVars, crashed>>
-----------------------------------------------------------------------------
(* The capture thread.                                                        *)

CaptureGoes(here, there) == /\ capture = here
                            /\ capture' = there
                            /\ ~crashed

CaptureEnds ==
    /\ quit
    /\ CaptureGoes("top", "finished")
    /\ halted' = (halted \/ source = "camera")
    /\ UNCHANGED <<at, openVars, keptVars, codeVars, quit, fresh, buf, pool, last, latest,
                   shot, newest, image, crashed>>

\* The camera is gone or has changed its size: its thread ends on its own.
CameraLost ==
    /\ source = "camera"
    /\ CaptureGoes("top", "finished")
    /\ halted' = TRUE
    /\ UNCHANGED <<at, openVars, keptVars, codeVars, quit, fresh, buf, pool, last, latest,
                   shot, newest, image, crashed>>

\* WinRT throws: the worker asks itself to stop and gives up its frames.
WorkerFails ==
    /\ source \in Slotted
    /\ CaptureGoes("top", "finished")
    /\ quit' = TRUE /\ halted' = TRUE /\ fresh' = FALSE
    /\ pool' = {} /\ last' = None /\ latest' = None
    /\ UNCHANGED <<at, openVars, keptVars, codeVars, buf, shot, newest, image, crashed>>

\* Decode fills the buffer that is the capture thread's own...
FillsBuffer ==
    /\ source \in Buffered /\ ~quit /\ shot < MaxFrames
    /\ CaptureGoes("top", "deliver")
    /\ shot' = shot + 1
    /\ image' = [image EXCEPT ![buf.back] = shot + 1]
    /\ UNCHANGED <<at, openVars, keptVars, codeVars, quit, halted, fresh, buf, pool, last,
                   latest, newest, crashed>>

\* ...and hands it over.
DeliversBuffer ==
    /\ CaptureGoes("deliver", "top")
    /\ buf' = Delivered(buf) /\ fresh' = TRUE /\ newest' = shot
    /\ UNCHANGED <<at, openVars, keptVars, codeVars, quit, halted, pool, last, latest,
                   shot, image, crashed>>

\* Textures that frames refer to.
Referenced == {last, latest, held} \ {None}

\* Read copies a new frame into a free texture of the pool, made anew if the last
\* pool went with its session; readback takes memory that nobody refers to.
CopiesFrame ==
    /\ source \in Slotted /\ ~quit /\ shot < MaxFrames
    /\ CaptureGoes("top", "publish")
    /\ pool' = IF source = "gpu" /\ pool = {} THEN Made(Referenced) ELSE pool
    /\ \E p \in Free(IF source = "gpu" THEN pool' ELSE Textures, Referenced) :
          last' = p /\ image' = [image EXCEPT ![p] = shot + 1]
    /\ shot' = shot + 1
    /\ UNCHANGED <<at, openVars, keptVars, codeVars, quit, halted, fresh, buf, latest,
                   newest, crashed>>

\* There is no new frame: the last one is published again, to keep the pace.
RepeatsFrame ==
    /\ source \in Slotted /\ ~quit /\ last # None
    /\ CaptureGoes("top", "publish")
    /\ UNCHANGED <<at, openVars, keptVars, codeVars, quit, halted, fresh, buf, pool, last,
                   latest, shot, newest, image, crashed>>

\* The display changed or a read failed: the session and its pool are made anew.
RestartsSession ==
    /\ source \in Slotted /\ ~quit
    /\ CaptureGoes("top", "top")
    /\ last' = None /\ pool' = {}
    /\ UNCHANGED <<at, openVars, keptVars, codeVars, quit, halted, fresh, buf, latest,
                   shot, newest, image, crashed>>

PublishesFrame ==
    /\ CaptureGoes("publish", "top")
    /\ IF halted THEN UNCHANGED <<latest, fresh, newest>>
                 ELSE latest' = last /\ fresh' = TRUE /\ newest' = image[last]
    /\ UNCHANGED <<at, openVars, keptVars, codeVars, quit, halted, buf, pool, last, shot,
                   image, crashed>>
-----------------------------------------------------------------------------
(* The encoding threads.                                                      *)

VideoGoes(here, there) == /\ video = here
                          /\ video' = there
                          /\ ~crashed

VideoWaits ==
    /\ live
    /\ VideoGoes("top", "wait")
    /\ UNCHANGED <<at, openVars, keptVars, audio, failures, held, got, sourceVars, crashed>>

\* The loop's condition fails, or the source has stopped.  The frame goes with the thread.
VideoEnds ==
    /\ \/ ~live /\ VideoGoes("top", "finished")
       \/ halted /\ VideoGoes("wait", "finished")
    /\ held' = None /\ got' = 0
    /\ UNCHANGED <<at, openVars, keptVars, audio, failures, sourceVars, crashed>>

\* WaitLatestFrame returns the newest frame.
VideoTakes ==
    /\ fresh /\ ~halted
    /\ VideoGoes("wait", "encode")
    /\ fresh' = FALSE
    /\ buf' = IF source \in Buffered THEN Taken(buf) ELSE buf
    /\ held' = IF source \in Buffered THEN buf'.front ELSE latest
    /\ got' = image[held']
    /\ UNCHANGED <<at, openVars, keptVars, audio, failures, capture, quit, halted, pool,
                   last, latest, shot, newest, image, crashed>>

VideoEncodes ==
    /\ VideoGoes("encode", "top")
    /\ UNCHANGED <<at, openVars, keptVars, audio, failures, held, got, sourceVars, crashed>>

\* Only a hardware encoder can fail for good.
VideoFails ==
    /\ encoder = "hardware"
    /\ VideoGoes("encode", "finished")
    /\ held' = None /\ got' = 0 /\ failures' = failures + 1
    /\ UNCHANGED <<at, openVars, keptVars, audio, sourceVars, crashed>>

\* What a step of the sound alone leaves as it is.
SoundOnly == /\ ~crashed
             /\ UNCHANGED <<at, openVars, exit, live, source, encoder, gpu, codeVars, sourceVars,
                            crashed>>

\* EncodeAudio takes a frame as soon as the buffer holds one.
AudioEncodes ==
    /\ audio = "runs" /\ live
    /\ ReadsFrame /\ SoundOnly

AudioEnds ==
    /\ audio = "runs" /\ ~live /\ ~crashed
    /\ audio' = "finished"
    /\ UNCHANGED <<at, openVars, keptVars, video, failures, held, got, sourceVars, crashed>>
-----------------------------------------------------------------------------
Open(t) == \/ BeginsInit(t)
           \/ SourceStarts(t) \/ SourceFails(t)
           \/ EncodersOpen(t) \/ EncodersFail(t)
           \/ Publishing(t) \/ PublishingFails(t)
           \/ StartsVideo(t) \/ StartsAudio(t)

Close(t) == \/ Closes(t) \/ WakesVideo(t)
            \/ JoinsAudio(t) \/ JoinsVideo(t) \/ DropsEncoders(t)
            \/ ClosesSound(t) \/ StopsCapture(t) \/ ReleasesSource(t)

Capture == \/ FillsBuffer \/ DeliversBuffer
           \/ CopiesFrame \/ RepeatsFrame \/ RestartsSession \/ PublishesFrame

Video == VideoWaits \/ VideoEnds \/ VideoTakes \/ VideoEncodes \/ VideoFails

Next == \/ \E wanted \in Backends : CreateStream(wanted)
        \/ DeleteStream \/ VideoPathFailed
        \/ \E t \in Threads : Open(t) \/ Close(t)
        \/ Capture \/ CaptureEnds \/ CameraLost \/ WorkerFails
        \/ Video \/ AudioEncodes \/ AudioEnds
        \/ Recorder /\ SoundOnly

(* Handlers and encoding threads go on; a capture thread and a recorder that  *)
(* were told to stop end, and hand over what they have begun.  Frames and     *)
(* samples need not come.                                                     *)
Fairness == /\ \A t \in Threads : WF_vars(Open(t) \/ Close(t))
            /\ WF_vars(CaptureEnds \/ DeliversBuffer \/ PublishesFrame)
            /\ WF_vars(Video) /\ WF_vars(AudioEnds)
            /\ WF_vars(RecorderEnds /\ SoundOnly)

Spec == Init /\ [][Next]_vars /\ Fairness
-----------------------------------------------------------------------------
HandlersOK == /\ at \in [Threads -> {"idle"} \union Opening \union Closing]
              /\ then \in [Threads -> {"idle", "init"} \union Paths]
              /\ rung \in [Threads -> Paths \union {None}]
              /\ role \in {"IDLE", "PUSHER"}
              /\ backend \in Backends
              /\ wish \in {"hardware", "software"}
              /\ active \in Paths \union {None}
              /\ opens \in 0..MaxOpens

KeptOK == /\ source \in Paths \union {None}
          /\ encoder \in {"hardware", "software", None}

FlagsOK == {addr, exit, live, gpu, quit, halted, fresh, crashed} \subseteq BOOLEAN

CodersOK == /\ video \in {"absent", "top", "wait", "encode", "finished"}
            /\ audio \in {"absent", "runs", "finished"}
            /\ failures \in Nat
            /\ held \in Places \union {None}
            /\ got \in 0..MaxFrames

SourceOK == /\ capture \in {"absent", "top", "deliver", "publish", "finished"}
            /\ pool \in SUBSET Textures /\ Cardinality(pool) \in {0, Capacity}
            /\ last \in Textures \union {None}
            /\ latest \in Textures \union {None}
            /\ shot \in 0..MaxFrames
            /\ newest \in 0..shot
            /\ image \in [Places -> 0..MaxFrames]

\* The three indices are always different buffers.
IndicesOK == /\ buf \in [front : Buffers, middle : Buffers, back : Buffers]
             /\ {buf.front, buf.middle, buf.back} = Buffers

\* The fields keep their types, and the indices of the buffers stay pairwise
\* different whatever the two threads trade.
TypeOK == HandlersOK /\ KeptOK /\ FlagsOK /\ CodersOK /\ SourceOK /\ SoundOK /\ IndicesOK

\* No thread object is replaced while its thread was not waited for.
NoCrash == ~crashed

\* "While the thread runs videoSource_ is not reset", so it takes the pointer once.
SourceOutlivesVideo == video \in {"top", "wait", "encode"} => source # None

\* The source, the encoders, the audio client and the device shared with the GPU are
\* only released when the encoding threads, the capture thread and the recorder have
\* been collected.
UsersEndFirst ==
    /\ SourceOutlivesVideo
    /\ video \in {"top", "wait", "encode"} => encoder # None
    /\ audio = "runs" => sound
    /\ RecorderKept
    /\ (capture \in {"top", "publish"} /\ source = "gpu") \/ encoder = "hardware" => gpu

\* The frame that the encoder reads is not written, and its memory not released,
\* until it asks for the next one.
FrameStaysIntact == held # None => image[held] = got

\* The texture pool is never exhausted: a new frame always finds a free texture.
PoolSuffices ==
    source = "gpu" /\ capture = "top" /\ ~quit /\ pool # {} => Free(pool, Referenced) # {}

\* A device that does not publish holds no source, encoder, device or thread:
\* neither a stream that was stopped nor a path that failed leaves a part behind.
NothingLeft ==
    role = "IDLE" /\ (\A t \in Threads : at[t] = "idle") =>
        /\ source = None /\ encoder = None /\ ~sound /\ ~gpu
        /\ video = "absent" /\ audio = "absent" /\ capture = "absent" /\ recorder = "absent"

\* The video thread is given the newest frame handed over, and none twice unless
\* the source repeats it.
TakesNewest ==
    [][VideoTakes => /\ got' = newest
                     /\ got' >= got
                     /\ source \in Buffered => got' > got]_vars

\* Close returns, whatever the threads it collects wait for: no thread stays in it.
CloseReturns == \A t \in Threads : []<>(at[t] \notin Closing)
=============================================================================
