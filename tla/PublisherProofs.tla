---------------------------- MODULE PublisherProofs ----------------------------
(* Proofs about Publisher, for any number of frames and of calls of Open, as  *)
(* long as a failed video path is dealt with while the loop is in no handler  *)
(* (RebuildsAlone): its types, that what a thread uses outlives the thread,   *)
(* that the frame being encoded stays intact, and that frames are taken in    *)
(* order.                                                                     *)
EXTENDS Publisher, FiniteSetTheorems, TLAPS

-----------------------------------------------------------------------------
(* The inductive invariant: where a handler is says what exists, and what the *)
(* source's variables say of the frames depends on the kind of the source.    *)

\* One handler at a time.
Alone == at["loop"] = "idle" \/ at["gui"] = "idle"

\* Nothing of a stream exists.
Nothing ==
    /\ source = None /\ encoder = None /\ ~sound /\ ~gpu
    /\ video = "absent" /\ audio = "absent" /\ capture = "absent" /\ recorder = "absent"

\* What exists while a handler is at a statement: each part is there from the
\* statement that makes it to the one that releases it.
Opened(t) ==
    /\ at[t] \in {"init", "source"} => Nothing
    /\ at[t] \in Opening \ {"init"} => rung[t] \in Paths
    /\ at[t] = "encoder" => source = rung[t] /\ encoder = None /\ ~sound /\ recorder = "absent"
    /\ at[t] \in {"encoder", "url", "publishing", "video"} => video = "absent"
    /\ at[t] \in {"encoder", "url", "publishing", "video", "audio"} =>
          source # None /\ audio = "absent"
    /\ at[t] \in {"url", "publishing", "video", "audio"} =>
          encoder # None /\ sound /\ active \in Paths

Closed(t) ==
    /\ at[t] \in {"joinVideo", "drop", "silence", "stop", "join"} => audio = "absent"
    /\ at[t] \in {"drop", "silence", "stop", "join"} => video = "absent"
    /\ at[t] \in {"silence", "stop", "join"} => encoder = None
    /\ at[t] \in {"stop", "join"} => ~sound /\ recorder = "absent"

\* The GUI's handler runs for a device that publishes, since a video thread that can
\* fail belongs to a stream that is open or being opened.
Roles ==
    /\ at["gui"] # "idle" => role = "PUSHER"
    /\ role = "IDLE" /\ at["loop"] = "idle" => Nothing
    /\ addr /\ (failures > 0 \/ video # "absent") => role = "PUSHER" \/ at["loop"] = "audio"
    /\ then["loop"] # "init"
    /\ then["gui"] = "init" => at["gui"] \in Closing /\ opens < MaxOpens

\* What a thread uses is there as long as the thread's object.
Used ==
    /\ video # "absent" => source # None /\ encoder # None
    /\ audio # "absent" \/ recorder # "absent" => sound
    /\ recording => recorder = "runs"
    /\ source = "gpu" \/ encoder = "hardware" => gpu
    /\ source = None <=> capture = "absent"

Control == Alone /\ (\A t \in Threads : Opened(t) /\ Closed(t)) /\ Roles /\ Used

\* Without a source there are no frames; no frame is newer than the last one captured,
\* and the encoder has none that is newer than what was handed over.
Counted ==
    /\ source = None => shot = 0 /\ newest = 0 /\ ~fresh
    /\ newest <= shot /\ got <= newest
    /\ \A p \in Places : image[p] <= shot
    /\ held # None => image[held] = got
    /\ video \notin {"top", "wait", "encode"} => held = None /\ got = 0

\* GDI and camera: the encoder has the front buffer, what is handed over and not yet
\* taken is in the middle, and the one being handed over is at the back.
Traded ==
    source \in Buffered =>
        /\ held # None => held = buf.front
        /\ fresh => image[buf.middle] = newest /\ got < newest
        /\ capture = "deliver" => image[buf.back] = shot /\ newest < shot
        /\ capture # "publish"

\* WGC: the last frame is not older than the one handed over, and is that one while
\* the thread looks for another.
Shared ==
    source \in Slotted =>
        /\ held # None => held \in Textures
        /\ last # None => image[last] >= newest
        /\ fresh => latest # None /\ image[latest] = newest
        /\ capture = "publish" => last # None
        /\ capture # "deliver"
        /\ halted => quit
        /\ capture = "top" /\ ~halted => last \in {None, latest}
        /\ source = "gpu" /\ pool = {} => last = None

Frames == Counted /\ Traded /\ Shared

IInv == TypeOK /\ NoCrash /\ Control /\ Frames

-----------------------------------------------------------------------------
(* Lemmas about the parts the invariant is made of.                           *)

\* Sets of at most two textures: what a frame that is copied must not overwrite.
LEMMA ThreeSpare ==
    ASSUME NEW a, NEW b
    PROVE  \E spare \in SUBSET (Textures \ {a, b}) : Cardinality(spare) = Capacity
<1>1. \E x, y, z \in 3 .. 7 : /\ x # y /\ y # z /\ x # z
                              /\ x \notin {a, b} /\ y \notin {a, b} /\ z \notin {a, b}
  <2>1. CASE 3 \in {a, b}
    <3>1. CASE 4 \in {a, b}
      BY <2>1, <3>1
    <3>2. CASE 4 \notin {a, b} /\ 5 \notin {a, b}
      <4>1. 6 \notin {a, b} \/ 7 \notin {a, b}
        BY <2>1
      <4>2. QED
        BY <3>2, <4>1
    <3>3. CASE 4 \notin {a, b} /\ 5 \in {a, b}
      BY <2>1, <3>3
    <3>4. QED
      BY <3>1, <3>2, <3>3
  <2>2. CASE 3 \notin {a, b} /\ 4 \in {a, b}
    <3>1. CASE 5 \in {a, b}
      BY <2>2, <3>1
    <3>2. CASE 5 \notin {a, b}
      <4>1. 6 \notin {a, b} \/ 7 \notin {a, b}
        BY <2>2
      <4>2. QED
        BY <2>2, <3>2, <4>1
    <3>3. QED
      BY <3>1, <3>2
  <2>3. CASE 3 \notin {a, b} /\ 4 \notin {a, b}
    <3>1. 5 \notin {a, b} \/ 6 \notin {a, b} \/ 7 \notin {a, b}
      OBVIOUS
    <3>2. QED
      BY <2>3, <3>1
  <2>4. QED
    BY <2>1, <2>2, <2>3
<1>2. PICK x, y, z \in 3 .. 7 : /\ x # y /\ y # z /\ x # z
                                /\ x \notin {a, b} /\ y \notin {a, b} /\ z \notin {a, b}
  BY <1>1
<1>3. {x, y, z} \in SUBSET (Textures \ {a, b})
  BY <1>2 DEF Textures, Capacity
<1>4. Cardinality({x, y, z}) = 3
  <2>1. IsFiniteSet({x}) /\ Cardinality({x}) = 1
    BY FS_Singleton
  <2>2. IsFiniteSet({x} \union {y}) /\ Cardinality({x} \union {y}) = 2
    BY <1>2, <2>1, FS_AddElement
  <2>3. IsFiniteSet(({x} \union {y}) \union {z}) /\ Cardinality(({x} \union {y}) \union {z}) = 3
    BY <1>2, <2>2, FS_AddElement
  <2>4. {x, y, z} = ({x} \union {y}) \union {z}
    OBVIOUS
  <2>5. QED
    BY <2>3, <2>4
<1>5. QED
  BY <1>3, <1>4 DEF Capacity

\* Ensure makes a pool of the textures that nobody refers to.
LEMMA MadePool ==
    ASSUME NEW a, NEW b, NEW referenced \in SUBSET {a, b}
    PROVE  /\ Made(referenced) \in SUBSET Textures /\ Made(referenced) # {}
           /\ Cardinality(Made(referenced)) = Capacity
           /\ Made(referenced) \intersect referenced = {}
<1>1. \E spare \in SUBSET (Textures \ referenced) : Cardinality(spare) = Capacity
  BY ThreeSpare
<1>2. /\ Made(referenced) \in SUBSET (Textures \ referenced)
      /\ Cardinality(Made(referenced)) = Capacity
  BY <1>1 DEF Made
<1>3. Made(referenced) # {}
  BY <1>2, FS_EmptySet DEF Capacity
<1>4. QED
  BY <1>2, <1>3

\* A pool has a texture left when two frames refer to textures of it.
LEMMA OneLeft ==
    ASSUME NEW a, NEW b, NEW spare, Cardinality(spare) = Capacity
    PROVE  spare \ {a, b} # {}
<1> SUFFICES ASSUME spare \subseteq {a, b} PROVE FALSE
  OBVIOUS
<1>1. IsFiniteSet({a}) /\ Cardinality({a}) = 1
  BY FS_Singleton
<1>2. IsFiniteSet({a} \union {b}) /\ Cardinality({a} \union {b}) \in {1, 2}
  BY <1>1, FS_AddElement
<1>3. Cardinality(spare) <= Cardinality({a} \union {b})
  BY <1>2, FS_Subset
<1>4. QED
  BY <1>2, <1>3 DEF Capacity

-----------------------------------------------------------------------------
(* What follows from the invariant.                                           *)

\* While handlers are one at a time, the parts of a stream outlive their users.
LEMMA InvUsers == IInv => UsersEndFirst
<1> SUFFICES ASSUME IInv PROVE UsersEndFirst
  OBVIOUS
<1> USE DEF IInv, TypeOK, Control, Used
<1>1. audio = "runs" \/ recorder = "runs" => sound
  BY DEF CodersOK, SoundOK
<1>2. (capture \in {"top", "publish"} /\ source = "gpu") \/ encoder = "hardware" => gpu
  OBVIOUS
<1>3. QED
  BY <1>1, <1>2 DEF UsersEndFirst, SourceOutlivesVideo, RecorderKept

\* A device that has no stream has no part of one.
LEMMA InvNothing == IInv => NothingLeft
BY DEF IInv, Control, Roles, Nothing, NothingLeft, Threads

\* The thread that copies refers to no third texture while it looks for a frame, so of
\* the three that the pool has one is free.
LEMMA InvPool == IInv => PoolSuffices
<1> SUFFICES ASSUME IInv, source = "gpu", capture = "top", ~quit, pool # {}
             PROVE  Free(pool, Referenced) # {}
  BY DEF PoolSuffices
<1>1. Referenced \subseteq {latest, held}
  BY DEF IInv, Frames, Shared, Slotted, Referenced
<1>2. Cardinality(pool) = Capacity
  <2>1. pool \in SUBSET Textures /\ IsFiniteSet(Textures)
    <3>1. Textures = 3 .. 7 /\ IsFiniteSet(3 .. 7)
      <4>1. 3 \in Int /\ 7 \in Int /\ Textures = 3 .. 7
        BY DEF Textures, Capacity
      <4>2. QED
        BY <4>1, FS_Interval
    <3>2. QED
      BY <3>1 DEF IInv, TypeOK, SourceOK
  <2>2. IsFiniteSet(pool) /\ Cardinality(pool) # 0
    BY <2>1, FS_Subset, FS_EmptySet
  <2>3. QED
    BY <2>2 DEF IInv, TypeOK, SourceOK
<1>3. pool \ {latest, held} # {}
  BY <1>2, OneLeft
<1>4. QED
  BY <1>1, <1>3 DEF Free

-----------------------------------------------------------------------------
(* The steps keep Control.                                                    *)

\* Handlers begin one at a time, with nothing left of the stream before.
LEMMA ControlOfHandlers ==
    ASSUME IInv, RebuildsAlone,
           (\E wanted \in Backends : CreateStream(wanted)) \/ DeleteStream \/ VideoPathFailed
    PROVE  Control'
<1> USE DEF IInv, TypeOK, HandlersOK, CodersOK, Control, Alone, Opened, Closed, Roles, Used,
            Nothing, Threads, Opening, Closing, Goes,
            openVars, keptVars, codeVars, sourceVars, soundVars
<1>1. ASSUME NEW wanted \in Backends, CreateStream(wanted) PROVE Control'
  BY <1>1 DEF CreateStream
<1>2. CASE DeleteStream
  BY <1>2 DEF DeleteStream
<1>3. CASE VideoPathFailed
  BY <1>3 DEF VideoPathFailed
<1>4. QED
  BY <1>1, <1>2, <1>3

\* Each statement of Open makes what the next ones find, or leads to a Close or a
\* teardown, whose statements expect less.
LEMMA ControlOfOpen ==
    ASSUME IInv, RebuildsAlone, NEW t \in Threads, Open(t)
    PROVE  Control'
<1> USE PublisherAssumption
    DEF IInv, TypeOK, HandlersOK, Control, Alone, Opened, Closed, Roles, Used,
        Nothing, Threads, Opening, Closing, Paths, Places, Goes, TearsDown,
        openVars, keptVars, codeVars, sourceVars, soundVars
<1>1. CASE BeginsInit(t)
  BY <1>1 DEF BeginsInit, FirstPath, Backends
<1>2. CASE SourceStarts(t)
  BY <1>2 DEF SourceStarts, Slotted
<1>3. CASE SourceFails(t)
  BY <1>3 DEF SourceFails, Below, FlagsOK
<1>4. CASE EncodersOpen(t)
  BY <1>4 DEF EncodersOpen, EncoderOf, SoundOpens, ClientOpens, RecorderStarts
<1>5. CASE EncodersFail(t)
  BY <1>5 DEF EncodersFail, EncoderOf, Below, SoundOpens, ClientOpens, RecorderStarts
<1>6. CASE Publishing(t)
  BY <1>6 DEF Publishing
<1>7. CASE PublishingFails(t)
  BY <1>7 DEF PublishingFails
<1>8. CASE StartsVideo(t)
  BY <1>8 DEF StartsVideo
<1>9. CASE StartsAudio(t)
  <2>1. at[t] = "audio" /\ at' = [at EXCEPT ![t] = "idle"] /\ rung' = [rung EXCEPT ![t] = None]
    BY <1>9 DEF StartsAudio
  <2>2. /\ UNCHANGED <<then, addr, active, opens, video, failures, source, encoder, gpu,
                      sound, recorder, recording, capture>>
        /\ audio = "absent" /\ audio' \in {"absent", "runs"} /\ sound
        /\ role' = IF t = "loop" THEN "PUSHER" ELSE role
    BY <1>9, <2>1 DEF StartsAudio
  <2>3. Alone' /\ Used'
    BY <2>1, <2>2
  <2>4. ASSUME NEW u \in Threads PROVE (Opened(u) /\ Closed(u))'
    <3>1. at'[u] = "idle"
      BY <2>1
    <3>2. QED
      BY <3>1
  <2>5. Roles'
    BY <2>1, <2>2
  <2>6. QED
    BY <2>3, <2>4, <2>5
<1>10. QED
  BY <1>1, <1>2, <1>3, <1>4, <1>5, <1>6, <1>7, <1>8, <1>9 DEF Open

\* Each statement of Close waits for the threads before the next one releases what they
\* use.
LEMMA ControlOfClose ==
    ASSUME IInv, RebuildsAlone, NEW t \in Threads, Close(t)
    PROVE  Control'
<1> USE PublisherAssumption
    DEF IInv, TypeOK, HandlersOK, CodersOK, SoundOK, Control, Alone, Opened, Closed, Roles, Used,
        Nothing, Threads, Opening, Closing, Paths, Places, Goes,
        openVars, keptVars, codeVars, sourceVars, soundVars
<1>1. CASE Closes(t)
  BY <1>1 DEF Closes
<1>2. CASE WakesVideo(t)
  BY <1>2 DEF WakesVideo
<1>3. CASE JoinsAudio(t)
  BY <1>3 DEF JoinsAudio
<1>4. CASE JoinsVideo(t)
  BY <1>4 DEF JoinsVideo
<1>5. CASE DropsEncoders(t)
  BY <1>5 DEF DropsEncoders, RecorderIsTold
<1>6. CASE ClosesSound(t)
  BY <1>6 DEF ClosesSound, SoundCloses
<1>7. CASE StopsCapture(t)
  BY <1>7 DEF StopsCapture
<1>8. CASE ReleasesSource(t)
  BY <1>8 DEF ReleasesSource
<1>9. QED
  BY <1>1, <1>2, <1>3, <1>4, <1>5, <1>6, <1>7, <1>8 DEF Close

\* The threads themselves make and release nothing: they go on, or end.
LEMMA ControlOfThreads ==
    ASSUME IInv,
           \/ Capture \/ CaptureEnds \/ CameraLost \/ WorkerFails
           \/ Video \/ AudioEncodes \/ AudioEnds \/ (Recorder /\ SoundOnly)
    PROVE  Control'
<1> USE DEF IInv, TypeOK, CodersOK, Control, Alone, Opened, Closed, Roles, Used, Nothing,
            Threads, Opening, Closing, CaptureGoes, VideoGoes, SoundOnly,
            openVars, keptVars, codeVars, sourceVars, soundVars
<1>1. CASE Capture
  BY <1>1 DEF Capture, FillsBuffer, DeliversBuffer, CopiesFrame, RepeatsFrame,
              RestartsSession, PublishesFrame
<1>2. CASE CaptureEnds \/ CameraLost \/ WorkerFails
  BY <1>2 DEF CaptureEnds, CameraLost, WorkerFails
<1>3. CASE VideoWaits \/ VideoEnds \/ VideoTakes \/ VideoEncodes
  BY <1>3 DEF VideoWaits, VideoEnds, VideoTakes, VideoEncodes
<1>4. CASE VideoFails
  BY <1>4 DEF VideoFails
<1>5. CASE AudioEncodes \/ AudioEnds
  BY <1>5 DEF AudioEncodes, AudioEnds, ReadsFrame
<1>6. CASE Recorder /\ SoundOnly
  BY <1>6 DEF Recorder, RecordsPacket, RecorderFails, RecorderEnds, SoundOK
<1>7. QED
  BY <1>1, <1>2, <1>3, <1>4, <1>5, <1>6 DEF Video

-----------------------------------------------------------------------------
(* The steps keep Frames.                                                     *)

\* A step that touches neither frames nor flags of the source keeps Frames, if the
\* video thread keeps its frame while it runs and has none when it does not.
LEMMA FramesAlone ==
    ASSUME IInv, UNCHANGED <<source, halted, quit, fresh, buf, pool, last, latest, shot, newest,
                             image, capture, held, got>>,
           video' \notin {"top", "wait", "encode"} => video' = video \/ (held = None /\ got = 0)
    PROVE  Frames'
BY DEF IInv, Frames, Counted, Traded, Shared

\* The handlers' statements, of which only the start and the end of a source and of
\* the video thread, and the flags that stop them, matter.
LEMMA FramesOfHandlers ==
    ASSUME IInv, NEW t \in Threads,
           \/ \E wanted \in Backends : CreateStream(wanted)
           \/ DeleteStream \/ VideoPathFailed \/ Open(t) \/ Close(t)
    PROVE  Frames'
<1> USE PublisherAssumption DEF IInv, Goes, openVars, keptVars, codeVars, sourceVars
<1>1. CASE (\E wanted \in Backends : CreateStream(wanted)) \/ DeleteStream \/ VideoPathFailed
  BY <1>1, FramesAlone DEF CreateStream, DeleteStream, VideoPathFailed
<1>2. CASE BeginsInit(t) \/ SourceFails(t) \/ EncodersOpen(t) \/ EncodersFail(t)
  BY <1>2, FramesAlone DEF BeginsInit, SourceFails, EncodersOpen, EncodersFail, TearsDown
<1>3. CASE Publishing(t) \/ PublishingFails(t) \/ StartsAudio(t)
  BY <1>3, FramesAlone DEF Publishing, PublishingFails, StartsAudio
<1>4. CASE SourceStarts(t)
  <2> DEFINE made == Made({held} \ {None})
             first == CHOOSE p \in made : TRUE
  <2>1. /\ source = None /\ video = "absent" /\ rung[t] \in Paths
    BY <1>4 DEF SourceStarts, Control, Opened, Nothing, Opening
  <2>2. /\ shot = 0 /\ newest = 0 /\ held = None /\ got = 0 /\ \A p \in Places : image[p] <= 0
    BY <2>1 DEF Frames, Counted
  <2>3. made # {} /\ made \subseteq Textures
    BY MadePool
  <2>4. first \in Textures /\ first \in Places
    BY <2>3 DEF Places
  <2>5. \A p \in Places : image[p] \in Nat
    BY DEF TypeOK, SourceOK
  <2>6. /\ source' = rung[t] /\ capture' = "top" /\ ~quit' /\ ~halted'
        /\ UNCHANGED <<video, held, got>>
        /\ IF rung[t] \in Slotted
             THEN /\ pool' = IF rung[t] = "gpu" THEN made ELSE {}
                  /\ last' = first /\ latest' = first /\ shot' = 1 /\ newest' = 1
                  /\ image' = [image EXCEPT ![first] = 1]
             ELSE ~fresh' /\ shot' = 0 /\ newest' = 0 /\ image' = image
    BY <1>4 DEF SourceStarts
  <2> HIDE DEF made, first
  <2>7. Counted'
    <3>1. rung[t] # None
      BY <2>1 DEF Paths, Places
    <3>2. CASE rung[t] \in Slotted
      BY <2>1, <2>2, <2>4, <2>5, <2>6, <3>1, <3>2 DEF Counted, TypeOK, SourceOK
    <3>3. CASE rung[t] \notin Slotted
      BY <2>1, <2>2, <2>4, <2>5, <2>6, <3>1, <3>3 DEF Counted
    <3>4. QED
      BY <3>2, <3>3
  <2>8. Traded'
    BY <2>2, <2>6 DEF Traded, Buffered, Slotted
  <2>9. Shared'
    BY <2>2, <2>3, <2>4, <2>6 DEF Shared, TypeOK, SourceOK
  <2>10. QED
    BY <2>7, <2>8, <2>9 DEF Frames
<1>5. CASE StartsVideo(t)
  <2>1. CASE video = "absent"
    BY <1>5, <2>1 DEF StartsVideo, Frames, Counted, Traded, Shared
  <2>2. CASE video # "absent"
    BY <1>5, <2>2, FramesAlone DEF StartsVideo
  <2>3. QED
    BY <2>1, <2>2
<1>6. CASE Closes(t) \/ JoinsAudio(t) \/ DropsEncoders(t) \/ ClosesSound(t)
  BY <1>6, FramesAlone DEF Closes, JoinsAudio, DropsEncoders, ClosesSound
<1>7. CASE JoinsVideo(t)
  <2>1. held = None /\ got = 0
    BY <1>7 DEF JoinsVideo, Frames, Counted
  <2>2. QED
    BY <1>7, <2>1, FramesAlone DEF JoinsVideo
<1>8. CASE WakesVideo(t) \/ StopsCapture(t)
  BY <1>8 DEF WakesVideo, StopsCapture, Frames, Counted, Traded, Shared, TypeOK, FlagsOK, Slotted
<1>9. CASE ReleasesSource(t)
  <2>1. video = "absent"
    BY <1>9 DEF ReleasesSource, Control, Closed
  <2>2. held = None /\ got = 0
    BY <2>1 DEF Frames, Counted
  <2>3. \A p \in Places : image'[p] = 0
    BY <1>9, <2>2 DEF ReleasesSource, Places
  <2>4. Counted'
    BY <1>9, <2>2, <2>3 DEF ReleasesSource, Counted
  <2>5. QED
    BY <1>9, <2>4 DEF ReleasesSource, Frames, Traded, Shared, Buffered, Slotted, Paths
<1>10. QED
  BY <1>1, <1>2, <1>3, <1>4, <1>5, <1>6, <1>7, <1>8, <1>9 DEF Open, Close

\* The thread of GDI or of the camera writes its own buffer and trades it for the
\* middle one.
LEMMA FramesOfBuffers ==
    ASSUME IInv, FillsBuffer \/ DeliversBuffer
    PROVE  Frames'
<1> USE PublisherAssumption DEF IInv, TypeOK, CaptureGoes, openVars, keptVars, codeVars
<1>1. /\ buf.front \in Places /\ buf.middle \in Places /\ buf.back \in Places
      /\ buf.front # buf.middle /\ buf.middle # buf.back /\ buf.front # buf.back
  BY DEF IndicesOK, Places, Buffers
<1>2. source \in Buffered /\ source \notin Slotted
  BY DEF FillsBuffer, DeliversBuffer, Frames, Shared, KeptOK, Paths, Buffered, Slotted,
         Control, Used
<1>3. /\ shot \in Nat /\ newest \in Nat /\ got \in Nat /\ \A p \in Places : image[p] \in Nat
  BY DEF SourceOK, CodersOK
<1>4. CASE FillsBuffer
  <2>1. /\ shot' = shot + 1 /\ capture' = "deliver"
        /\ image'[buf.back] = shot + 1 /\ \A p \in Places \ {buf.back} : image'[p] = image[p]
        /\ UNCHANGED <<source, fresh, buf, newest, video, held, got>>
    BY <1>1, <1>4 DEF FillsBuffer, SourceOK
  <2>2. held # None => held = buf.front
    BY <1>2 DEF Frames, Traded
  <2>3. Counted'
    BY <1>1, <1>2, <1>3, <2>1, <2>2 DEF Frames, Counted, Buffered, Paths, Places
  <2>4. Traded'
    BY <1>1, <1>2, <1>3, <2>1 DEF Frames, Counted, Traded
  <2>5. QED
    BY <1>2, <2>1, <2>3, <2>4 DEF Frames, Shared
<1>5. CASE DeliversBuffer
  <2>1. /\ buf'.front = buf.front /\ buf'.middle = buf.back /\ newest' = shot /\ capture' = "top"
        /\ UNCHANGED <<source, shot, image, video, held, got>>
    BY <1>5 DEF DeliversBuffer, Delivered
  <2>2. image[buf.back] = shot /\ newest < shot
    BY <1>2, <1>5 DEF DeliversBuffer, Frames, Traded
  <2>3. source # None
    BY <1>5 DEF DeliversBuffer, Control, Used
  <2>4. Counted'
    BY <1>3, <2>1, <2>2, <2>3 DEF Frames, Counted
  <2>5. Traded'
    BY <1>3, <2>1, <2>2 DEF Frames, Counted, Traded
  <2>6. QED
    BY <1>2, <2>1, <2>4, <2>5 DEF Frames, Shared
<1>6. QED
  BY <1>4, <1>5

\* The texture a WGC source copies to is one that no frame refers to.
LEMMA CopyIsFree ==
    ASSUME IInv, CopiesFrame
    PROVE  /\ pool' \in SUBSET Textures /\ Cardinality(pool') \in {0, Capacity}
           /\ source = "gpu" => pool' # {}
           /\ \E p \in Textures \ Referenced :
                 last' = p /\ image' = [image EXCEPT ![p] = shot + 1]
<1> USE DEF IInv, TypeOK, SourceOK
<1>1. PICK p \in Free(IF source = "gpu" THEN pool' ELSE Textures, Referenced) :
        last' = p /\ image' = [image EXCEPT ![p] = shot + 1]
  BY DEF CopiesFrame
<1>2. CASE source = "gpu" /\ pool = {}
  <2>1. last = None
    BY <1>2 DEF Frames, Shared, Slotted
  <2>2. Referenced \in SUBSET {latest, held}
    BY <2>1 DEF Referenced
  <2>3. pool' = Made(Referenced)
    BY <1>2 DEF CopiesFrame
  <2>4. QED
    BY <1>1, <1>2, <2>2, <2>3, MadePool DEF Free
<1>3. CASE ~(source = "gpu" /\ pool = {})
  <2>1. pool' = pool
    BY <1>3 DEF CopiesFrame
  <2>2. QED
    BY <1>1, <1>3, <2>1 DEF Free
<1>4. QED
  BY <1>2, <1>3

\* The steps of a WGC source's thread.
LEMMA FramesOfTextures ==
    ASSUME IInv, CopiesFrame \/ RepeatsFrame \/ RestartsSession \/ PublishesFrame
    PROVE  Frames'
<1> USE PublisherAssumption DEF IInv, TypeOK, CaptureGoes, openVars, keptVars, codeVars
<1>1. source \in Slotted /\ source \notin Buffered /\ source # None
  BY DEF CopiesFrame, RepeatsFrame, RestartsSession, PublishesFrame, Frames, Traded, KeptOK,
         Paths, Buffered, Slotted, Places, Control, Used
<1>2. /\ shot \in Nat /\ newest \in Nat /\ got \in Nat /\ \A p \in Places : image[p] \in Nat
      /\ last # None => last \in Places
  BY DEF SourceOK, CodersOK, Places
<1>3. CASE CopiesFrame
  <2>1. PICK p \in Textures \ Referenced :
          last' = p /\ image' = [image EXCEPT ![p] = shot + 1]
    BY <1>3, CopyIsFree
  <2>2. /\ p \in Places /\ p # None /\ p # latest /\ p # held
    BY <2>1 DEF Referenced, Places
  <2>3. /\ image'[p] = shot + 1 /\ \A q \in Places \ {p} : image'[q] = image[q]
        /\ shot' = shot + 1 /\ capture' = "publish"
        /\ UNCHANGED <<source, quit, halted, fresh, buf, latest, newest, video, held, got>>
    BY <1>3, <2>1, <2>2 DEF CopiesFrame, SourceOK
  <2>4. Counted'
    BY <1>1, <1>2, <2>2, <2>3 DEF Frames, Counted, CodersOK
  <2>5. Shared'
    <3>1. source = "gpu" => pool' # {}
      BY <1>3, CopyIsFree
    <3>2. latest # None => latest \in Places
      BY DEF SourceOK, Places
    <3>3. QED
      BY <1>1, <1>2, <2>1, <2>2, <2>3, <3>1, <3>2 DEF Frames, Counted, Shared
  <2>6. QED
    BY <1>1, <2>3, <2>4, <2>5 DEF Frames, Traded
<1>4. CASE RepeatsFrame
  BY <1>1, <1>4 DEF RepeatsFrame, Frames, Counted, Traded, Shared
<1>5. CASE RestartsSession
  BY <1>1, <1>5 DEF RestartsSession, Frames, Counted, Traded, Shared
<1>6. CASE PublishesFrame
  <2>1. last # None /\ image[last] >= newest /\ image[last] <= shot
    BY <1>1, <1>2, <1>6 DEF PublishesFrame, Frames, Counted, Shared
  <2>2. QED
    BY <1>1, <1>2, <1>6, <2>1 DEF PublishesFrame, Frames, Counted, Traded, Shared
<1>7. QED
  BY <1>3, <1>4, <1>5, <1>6

\* A capture thread that ends, and the video thread.
LEMMA FramesOfThreads ==
    ASSUME IInv, \/ CaptureEnds \/ CameraLost \/ WorkerFails \/ Video
                 \/ AudioEncodes \/ AudioEnds \/ (Recorder /\ SoundOnly)
    PROVE  Frames'
<1> USE PublisherAssumption
    DEF IInv, TypeOK, CaptureGoes, VideoGoes, openVars, keptVars, codeVars, sourceVars
<1>1. CASE CaptureEnds \/ CameraLost \/ WorkerFails
  BY <1>1 DEF CaptureEnds, CameraLost, WorkerFails, Frames, Counted, Traded, Shared, Slotted
<1>2. CASE VideoWaits \/ VideoEncodes
  BY <1>2, FramesAlone DEF VideoWaits, VideoEncodes
<1>3. CASE VideoEnds \/ VideoFails
  BY <1>3 DEF VideoEnds, VideoFails, Frames, Counted, Traded, Shared, SourceOK, CodersOK
<1>4. CASE VideoTakes
  <2>1. /\ video' = "encode" /\ ~fresh' /\ got' = image[held'] /\ fresh /\ video = "wait"
        /\ UNCHANGED <<source, capture, quit, halted, pool, last, latest, shot, newest, image>>
    BY <1>4 DEF VideoTakes
  <2>2. source # None
    BY <2>1 DEF Frames, Counted
  <2>3. CASE source \in Buffered
    <3>1. /\ held' = buf.middle /\ buf'.front = buf.middle /\ buf'.back = buf.back
      BY <1>4, <2>3 DEF VideoTakes, Taken
    <3>2. image[buf.middle] = newest
      BY <2>1, <2>3 DEF Frames, Traded
    <3>3. QED
      BY <2>1, <2>2, <2>3, <3>1, <3>2 DEF Frames, Counted, Traded, Shared, Buffered, Slotted, SourceOK
  <2>4. CASE source \in Slotted
    <3>1. /\ held' = latest /\ latest \in Textures /\ image[latest] = newest
      BY <1>4, <2>1, <2>4 DEF VideoTakes, Frames, Shared, SourceOK, Buffered, Slotted
    <3>2. QED
      BY <2>1, <2>2, <2>4, <3>1 DEF Frames, Counted, Traded, Shared, Buffered, Slotted, SourceOK
  <2>5. QED
    BY <2>2, <2>3, <2>4 DEF KeptOK, Paths, Buffered, Slotted
<1>5. CASE AudioEncodes \/ AudioEnds \/ (Recorder /\ SoundOnly)
  BY <1>5, FramesAlone DEF AudioEncodes, AudioEnds, SoundOnly
<1>6. QED
  BY <1>1, <1>2, <1>3, <1>4, <1>5 DEF Video

-----------------------------------------------------------------------------
(* The steps keep the types, and no thread object is replaced.                *)

\* What the source's fields are when a source is made or released.
LEMMA SourceTypes ==
    ASSUME IInv, NEW t \in Threads, SourceStarts(t) \/ ReleasesSource(t)
    PROVE  SourceOK' /\ IndicesOK'
<1> USE PublisherAssumption DEF IInv, TypeOK
<1>0. Cardinality({}) = 0
  BY FS_EmptySet
<1>1. CASE SourceStarts(t)
  <2> DEFINE made == Made({held} \ {None})
             first == CHOOSE p \in made : TRUE
  <2>1. made # {} /\ made \in SUBSET Textures /\ Cardinality(made) = Capacity
    BY MadePool
  <2>2. first \in Textures /\ first \in Places
    BY <2>1 DEF Places
  <2>3. /\ capture' = "top" /\ buf' = Started
        /\ IF rung[t] \in Slotted
             THEN /\ pool' = IF rung[t] = "gpu" THEN made ELSE {}
                  /\ last' = first /\ latest' = first /\ shot' = 1 /\ newest' = 1
                  /\ image' = [image EXCEPT ![first] = 1]
             ELSE /\ pool' = {} /\ last' = None /\ latest' = None
                  /\ shot' = 0 /\ newest' = 0 /\ image' = image
    BY <1>1 DEF SourceStarts
  <2> HIDE DEF made, first
  <2>4. pool' \in SUBSET Textures /\ Cardinality(pool') \in {0, Capacity}
    BY <1>0, <2>1, <2>3
  <2>5. SourceOK'
    BY <2>2, <2>3, <2>4 DEF SourceOK
  <2>6. QED
    BY <2>3, <2>5 DEF IndicesOK, Started, Buffers
<1>2. CASE ReleasesSource(t)
  <2>1. image' \in [Places -> 0 .. MaxFrames]
    BY <1>2 DEF ReleasesSource, SourceOK, Places
  <2>2. SourceOK'
    BY <1>0, <1>2, <2>1 DEF ReleasesSource, SourceOK
  <2>3. QED
    BY <1>2, <2>2 DEF ReleasesSource, IndicesOK, Started, Buffers
<1>3. QED
  BY <1>1, <1>2

\* The handlers' fields: only a rebuild counts a call of Open that CreateStream has not
\* counted.
LEMMA HandlersTyped ==
    ASSUME IInv, RebuildsAlone, Next
    PROVE  HandlersOK'
<1> USE PublisherAssumption
    DEF IInv, TypeOK, HandlersOK, Goes, Threads, Opening, Closing
<1>1. CASE (\E wanted \in Backends : CreateStream(wanted)) \/ DeleteStream \/ VideoPathFailed
  BY <1>1 DEF CreateStream, DeleteStream, VideoPathFailed
<1>2. ASSUME NEW t \in Threads, Open(t)
      PROVE  HandlersOK'
  <2> USE DEF openVars
  <2>1. at[t] \in Opening \ {"init"} => rung[t] \in Paths
    BY DEF Control, Opened
  <2>2. CASE BeginsInit(t)
    BY <2>2 DEF BeginsInit, FirstPath, Backends, Paths
  <2>3. CASE SourceStarts(t) \/ Publishing(t) \/ PublishingFails(t) \/ StartsVideo(t)
    BY <2>3 DEF SourceStarts, Publishing, PublishingFails, StartsVideo
  <2>4. CASE SourceFails(t) \/ EncodersFail(t)
    BY <2>4 DEF SourceFails, EncodersFail, TearsDown, Below, Paths
  <2>5. CASE EncodersOpen(t)
    BY <2>1, <2>5 DEF EncodersOpen
  <2>6. CASE StartsAudio(t)
    <3>1. active \in Paths
      BY <2>6 DEF StartsAudio, Control, Opened
    <3>2. (IF active \in Slotted THEN "wgc" ELSE active) \in Backends
      BY <3>1 DEF Paths, Slotted, Backends
    <3>3. QED
      BY <2>6, <3>1, <3>2 DEF StartsAudio
  <2>7. QED
    BY <1>2, <2>2, <2>3, <2>4, <2>5, <2>6 DEF Open
<1>3. ASSUME NEW t \in Threads, Close(t)
      PROVE  HandlersOK'
  <2> USE DEF openVars
  <2>1. CASE ReleasesSource(t)
    <3>1. then[t] = "init" => opens < MaxOpens
      BY DEF Control, Roles
    <3>2. QED
      BY <2>1, <3>1 DEF ReleasesSource, Paths
  <2>2. CASE Closes(t) \/ WakesVideo(t) \/ JoinsAudio(t) \/ JoinsVideo(t)
    BY <2>2 DEF Closes, WakesVideo, JoinsAudio, JoinsVideo
  <2>3. CASE DropsEncoders(t) \/ ClosesSound(t) \/ StopsCapture(t)
    BY <2>3 DEF DropsEncoders, ClosesSound, StopsCapture
  <2>4. QED
    BY <1>3, <2>1, <2>2, <2>3 DEF Close
<1>4. CASE \/ Capture \/ CaptureEnds \/ CameraLost \/ WorkerFails
           \/ Video \/ AudioEncodes \/ AudioEnds \/ (Recorder /\ SoundOnly)
  <2>1. UNCHANGED <<at, openVars>>
    BY <1>4 DEF Capture, FillsBuffer, DeliversBuffer, CopiesFrame, RepeatsFrame,
       RestartsSession, PublishesFrame, CaptureEnds, CameraLost, WorkerFails, Video,
       VideoWaits, VideoEnds, VideoTakes, VideoEncodes, VideoFails, AudioEncodes, AudioEnds,
       SoundOnly
  <2>2. QED
    BY <2>1 DEF openVars
<1>5. QED
  BY <1>1, <1>2, <1>3, <1>4 DEF Next

\* What is kept for the stream.
LEMMA KeptTyped ==
    ASSUME IInv, Next
    PROVE  KeptOK'
<1> USE DEF IInv, TypeOK, KeptOK, openVars, keptVars
<1>1. CASE (\E wanted \in Backends : CreateStream(wanted)) \/ DeleteStream \/ VideoPathFailed
  BY <1>1 DEF CreateStream, DeleteStream, VideoPathFailed
<1>2. ASSUME NEW t \in Threads, Open(t)
      PROVE  KeptOK'
  <2>1. CASE SourceStarts(t)
    <3>1. rung[t] \in Paths
      BY <2>1 DEF SourceStarts, Goes, Control, Opened, Opening
    <3>2. QED
      BY <2>1, <3>1 DEF SourceStarts
  <2>2. CASE EncodersOpen(t) \/ EncodersFail(t)
    BY <2>2 DEF EncodersOpen, EncodersFail, EncoderOf
  <2>3. CASE BeginsInit(t) \/ SourceFails(t) \/ Publishing(t) \/ PublishingFails(t)
    BY <2>3 DEF BeginsInit, SourceFails, Publishing, PublishingFails
  <2>4. CASE StartsVideo(t) \/ StartsAudio(t)
    BY <2>4 DEF StartsVideo, StartsAudio
  <2>5. QED
    BY <1>2, <2>1, <2>2, <2>3, <2>4 DEF Open
<1>3. ASSUME NEW t \in Threads, Close(t)
      PROVE  KeptOK'
  BY <1>3 DEF Close, Closes, WakesVideo, JoinsAudio, JoinsVideo, DropsEncoders, ClosesSound,
              StopsCapture, ReleasesSource
<1>4. CASE \/ Capture \/ CaptureEnds \/ CameraLost \/ WorkerFails
           \/ Video \/ AudioEncodes \/ AudioEnds \/ (Recorder /\ SoundOnly)
  <2>1. UNCHANGED <<source, encoder>>
    BY <1>4 DEF Capture, FillsBuffer, DeliversBuffer, CopiesFrame, RepeatsFrame,
       RestartsSession, PublishesFrame, CaptureEnds, CameraLost, WorkerFails, Video,
       VideoWaits, VideoEnds, VideoTakes, VideoEncodes, VideoFails, AudioEncodes, AudioEnds,
       SoundOnly
  <2>2. QED
    BY <2>1
<1>5. QED
  BY <1>1, <1>2, <1>3, <1>4 DEF Next

\* The flags.
LEMMA FlagsTyped ==
    ASSUME IInv, Next, crashed' = FALSE
    PROVE  FlagsOK'
<1> USE DEF IInv, TypeOK, FlagsOK, openVars, keptVars, sourceVars
<1>0. crashed' \in BOOLEAN
  OBVIOUS
<1>1. CASE (\E wanted \in Backends : CreateStream(wanted)) \/ DeleteStream \/ VideoPathFailed
  BY <1>0, <1>1 DEF CreateStream, DeleteStream, VideoPathFailed
<1>2. ASSUME NEW t \in Threads, Open(t)
      PROVE  FlagsOK'
  <2>1. CASE SourceStarts(t)
    <3>1. /\ gpu' = (gpu \/ rung[t] = "gpu") /\ fresh' = (rung[t] \in Slotted)
          /\ quit' = FALSE /\ halted' = FALSE /\ addr' = addr
          /\ UNCHANGED <<exit, live>>
      BY <2>1 DEF SourceStarts
    <3>2. gpu' \in BOOLEAN
      BY <3>1
    <3>3. fresh' \in BOOLEAN
      BY <3>1
    <3>4. quit' \in BOOLEAN /\ halted' \in BOOLEAN
      BY <3>1
    <3>5. {addr', exit', live'} \subseteq BOOLEAN
      BY <3>1
    <3>6. QED
      BY <1>0, <3>2, <3>3, <3>4, <3>5
  <2>2. CASE SourceFails(t)
    BY <1>0, <2>2 DEF SourceFails
  <2>3. CASE BeginsInit(t) \/ EncodersOpen(t) \/ EncodersFail(t) \/ Publishing(t)
    BY <1>0, <2>3 DEF BeginsInit, EncodersOpen, EncodersFail, Publishing
  <2>4. CASE PublishingFails(t) \/ StartsVideo(t) \/ StartsAudio(t)
    BY <1>0, <2>4 DEF PublishingFails, StartsVideo, StartsAudio
  <2>5. QED
    BY <1>2, <2>1, <2>2, <2>3, <2>4 DEF Open
<1>3. ASSUME NEW t \in Threads, Close(t)
      PROVE  FlagsOK'
  <2>1. CASE WakesVideo(t) \/ StopsCapture(t)
    BY <1>0, <2>1 DEF WakesVideo, StopsCapture
  <2>2. CASE ReleasesSource(t)
    BY <1>0, <2>2 DEF ReleasesSource
  <2>3. CASE Closes(t) \/ JoinsAudio(t) \/ JoinsVideo(t) \/ DropsEncoders(t) \/ ClosesSound(t)
    BY <1>0, <2>3 DEF Closes, JoinsAudio, JoinsVideo, DropsEncoders, ClosesSound
  <2>4. QED
    BY <1>3, <2>1, <2>2, <2>3 DEF Close
<1>4. CASE Capture
  BY <1>0, <1>4 DEF Capture, FillsBuffer, DeliversBuffer, CopiesFrame, RepeatsFrame,
                    RestartsSession, PublishesFrame
<1>5. CASE CaptureEnds \/ CameraLost \/ WorkerFails
  BY <1>0, <1>5 DEF CaptureEnds, CameraLost, WorkerFails
<1>6. CASE Video \/ AudioEncodes \/ AudioEnds \/ (Recorder /\ SoundOnly)
  BY <1>0, <1>6 DEF Video, VideoWaits, VideoEnds, VideoTakes, VideoEncodes, VideoFails,
                    AudioEncodes, AudioEnds, SoundOnly
<1>7. QED
  BY <1>1, <1>2, <1>3, <1>4, <1>5, <1>6 DEF Next

\* A thread is only made where Control says that there is none.
LEMMA ThreadsSafe ==
    ASSUME IInv, Next
    PROVE  crashed' = FALSE
<1>0. crashed = FALSE
  BY DEF IInv, TypeOK, FlagsOK, NoCrash
<1> USE <1>0 DEF IInv
<1>1. ASSUME NEW t \in Threads, StartsVideo(t) \/ StartsAudio(t)
      PROVE  crashed' = FALSE
  BY <1>1 DEF StartsVideo, StartsAudio, Goes, Control, Opened
<1>2. CASE (\E wanted \in Backends : CreateStream(wanted)) \/ DeleteStream \/ VideoPathFailed
  BY <1>2 DEF CreateStream, DeleteStream, VideoPathFailed
<1>3. ASSUME NEW t \in Threads, Open(t)
      PROVE  crashed' = FALSE
  BY <1>1, <1>3 DEF Open, BeginsInit, SourceStarts, SourceFails, EncodersOpen, EncodersFail,
                    Publishing, PublishingFails
<1>4. ASSUME NEW t \in Threads, Close(t)
      PROVE  crashed' = FALSE
  BY <1>4 DEF Close, Closes, WakesVideo, JoinsAudio, JoinsVideo, DropsEncoders, ClosesSound,
              StopsCapture, ReleasesSource
<1>5. CASE \/ Capture \/ CaptureEnds \/ CameraLost \/ WorkerFails
           \/ Video \/ AudioEncodes \/ AudioEnds \/ (Recorder /\ SoundOnly)
  BY <1>5 DEF Capture, FillsBuffer, DeliversBuffer, CopiesFrame, RepeatsFrame,
     RestartsSession, PublishesFrame, CaptureEnds, CameraLost, WorkerFails, Video,
     VideoWaits, VideoEnds, VideoTakes, VideoEncodes, VideoFails, AudioEncodes, AudioEnds,
     SoundOnly
<1>6. QED
  BY <1>2, <1>3, <1>4, <1>5 DEF Next

\* The sound of the stream.
LEMMA SoundTyped ==
    ASSUME IInv, Next
    PROVE  SoundOK'
<1> USE DEF IInv, TypeOK, SoundOK, Room, openVars, keptVars, soundVars
<1>1. CASE (\E wanted \in Backends : CreateStream(wanted)) \/ DeleteStream \/ VideoPathFailed
  BY <1>1 DEF CreateStream, DeleteStream, VideoPathFailed
<1>2. ASSUME NEW t \in Threads, Open(t)
      PROVE  SoundOK'
  <2>1. UNCHANGED soundVars \/ SoundOpens
    BY <1>2 DEF Open, BeginsInit, SourceStarts, SourceFails, EncodersOpen, EncodersFail,
                Publishing, PublishingFails, StartsVideo, StartsAudio
  <2>2. CASE SoundOpens
    <3>1. sound' \in BOOLEAN /\ recording' \in BOOLEAN
      BY <2>2 DEF SoundOpens, ClientOpens, RecorderStarts
    <3>2. recorder' = "runs" /\ samples' \in 0 .. 2
      BY <2>2 DEF SoundOpens, RecorderStarts
    <3>3. QED
      BY <3>1, <3>2
  <2>3. QED
    BY <2>1, <2>2
<1>3. ASSUME NEW t \in Threads, Close(t)
      PROVE  SoundOK'
  <2>1. UNCHANGED soundVars \/ RecorderIsTold \/ SoundCloses
    BY <1>3 DEF Close, Closes, WakesVideo, JoinsAudio, JoinsVideo, DropsEncoders,
                ClosesSound, StopsCapture, ReleasesSource
  <2>2. CASE RecorderIsTold
    BY <2>2 DEF RecorderIsTold
  <2>3. CASE SoundCloses
    <3>1. sound' \in BOOLEAN /\ recording' \in BOOLEAN
      BY <2>3 DEF SoundCloses
    <3>2. recorder' = "absent" /\ samples' \in 0 .. 2
      BY <2>3 DEF SoundCloses
    <3>3. QED
      BY <3>1, <3>2
  <2>4. QED
    BY <2>1, <2>2, <2>3
<1>4. CASE Capture \/ CaptureEnds \/ CameraLost \/ WorkerFails \/ Video \/ AudioEnds
  BY <1>4 DEF Capture, FillsBuffer, DeliversBuffer, CopiesFrame, RepeatsFrame,
     RestartsSession, PublishesFrame, CaptureEnds, CameraLost, WorkerFails, Video,
     VideoWaits, VideoEnds, VideoTakes, VideoEncodes, VideoFails, AudioEnds
<1>5. CASE AudioEncodes
  <2>1. samples' = samples - 2 /\ samples >= 2 /\ UNCHANGED <<sound, recorder, recording>>
    BY <1>5 DEF AudioEncodes, ReadsFrame, Frame
  <2>2. samples \in 0 .. 2
    OBVIOUS
  <2>3. samples' \in 0 .. 2
    BY <2>1, <2>2
  <2>4. {sound, recording} \subseteq BOOLEAN /\ recorder \in {"absent", "runs", "finished"}
    OBVIOUS
  <2>5. QED
    BY <2>1, <2>3, <2>4
<1>6. CASE Recorder
  <2>1. samples \in 0 .. 2
    OBVIOUS
  <2>2. Written(Packet) \in 0 .. 2
    BY <2>1 DEF Written, Packet
  <2>3. QED
    BY <1>6, <2>2 DEF Recorder, RecordsPacket, RecorderFails, RecorderEnds
<1>7. QED
  BY <1>1, <1>2, <1>3, <1>4, <1>5, <1>6 DEF Next

\* The source and its buffers.
LEMMA SourceTyped ==
    ASSUME IInv, Next
    PROVE  SourceOK' /\ IndicesOK'
<1> USE PublisherAssumption DEF IInv, TypeOK, CaptureGoes, VideoGoes
<1>0. Cardinality({}) = 0 /\ {} \in SUBSET Textures
  BY FS_EmptySet
<1>1. CASE UNCHANGED <<capture, buf, pool, last, latest, shot, newest, image>>
  BY <1>1 DEF SourceOK, IndicesOK
<1>2. CASE (\E wanted \in Backends : CreateStream(wanted)) \/ DeleteStream \/ VideoPathFailed
  BY <1>1, <1>2 DEF CreateStream, DeleteStream, VideoPathFailed, sourceVars
<1>3. ASSUME NEW t \in Threads, Open(t) \/ Close(t)
      PROVE  SourceOK' /\ IndicesOK'
  <2>1. CASE Open(t) /\ ~SourceStarts(t)
    BY <1>1, <2>1 DEF Open, BeginsInit, SourceFails, EncodersOpen, EncodersFail,
                      Publishing, PublishingFails, StartsVideo, StartsAudio, sourceVars
  <2>2. CASE Close(t) /\ ~ReleasesSource(t)
    BY <1>1, <2>2 DEF Close, Closes, WakesVideo, JoinsAudio, JoinsVideo, DropsEncoders,
                      ClosesSound, StopsCapture, sourceVars
  <2>3. QED
    BY <1>3, <2>1, <2>2, SourceTypes
<1>4. CASE FillsBuffer
  <2>1. /\ shot \in Nat /\ shot < MaxFrames /\ newest \in 0 .. shot
        /\ image \in [Places -> 0 .. MaxFrames]
    BY <1>4 DEF FillsBuffer, SourceOK
  <2>2. shot + 1 \in 0 .. MaxFrames /\ newest \in 0 .. (shot + 1)
    BY <2>1
  <2>3. /\ shot' = shot + 1 /\ capture' = "deliver"
        /\ image' = [image EXCEPT ![buf.back] = shot + 1]
        /\ UNCHANGED <<pool, last, latest, newest, buf>>
    BY <1>4 DEF FillsBuffer
  <2>4. image' \in [Places -> 0 .. MaxFrames]
    BY <2>1, <2>2, <2>3
  <2>5. QED
    BY <2>2, <2>3, <2>4 DEF SourceOK, IndicesOK
<1>5. CASE DeliversBuffer
  <2>1. IndicesOK'
    BY <1>5 DEF DeliversBuffer, Delivered, IndicesOK
  <2>2. SourceOK'
    BY <1>5 DEF DeliversBuffer, SourceOK
  <2>3. QED
    BY <2>1, <2>2
<1>6. CASE CopiesFrame
  <2>1. PICK p \in Textures \ Referenced :
          last' = p /\ image' = [image EXCEPT ![p] = shot + 1]
    BY <1>6, CopyIsFree
  <2>2. pool' \in SUBSET Textures /\ Cardinality(pool') \in {0, Capacity}
    BY <1>6, CopyIsFree
  <2>3. /\ shot \in Nat /\ shot < MaxFrames /\ newest \in 0 .. shot
        /\ image \in [Places -> 0 .. MaxFrames]
    BY <1>6 DEF CopiesFrame, SourceOK
  <2>4. shot + 1 \in 0 .. MaxFrames /\ newest \in 0 .. (shot + 1)
    BY <2>3
  <2>5. image' \in [Places -> 0 .. MaxFrames]
    BY <2>1, <2>3, <2>4
  <2>6. /\ shot' = shot + 1 /\ capture' = "publish" /\ UNCHANGED <<latest, newest, buf>>
    BY <1>6 DEF CopiesFrame
  <2>7. QED
    BY <2>1, <2>2, <2>4, <2>5, <2>6 DEF SourceOK, IndicesOK
<1>7. CASE RepeatsFrame
  BY <1>7 DEF RepeatsFrame, SourceOK, IndicesOK
<1>8. CASE RestartsSession \/ WorkerFails
  <2>1. pool' = {} /\ last' = None /\ latest' \in {latest, None}
        /\ capture' \in {"top", "finished"} /\ UNCHANGED <<shot, newest, image, buf>>
    BY <1>8 DEF RestartsSession, WorkerFails
  <2>2. QED
    BY <1>0, <2>1 DEF SourceOK, IndicesOK
<1>9. CASE PublishesFrame
  <2>1. last # None
    BY <1>9 DEF PublishesFrame, Frames, Traded, Shared, KeptOK, Paths, Buffered, Slotted,
                Control, Used
  <2>2. last \in Places /\ image[last] \in 0 .. shot
    BY <2>1 DEF SourceOK, Places, Frames, Counted
  <2>3. newest' \in 0 .. shot /\ latest' \in {last, latest} /\ capture' = "top"
        /\ UNCHANGED <<buf, pool, last, shot, image>>
    BY <1>9, <2>2 DEF PublishesFrame, SourceOK
  <2>4. QED
    BY <2>3 DEF SourceOK, IndicesOK
<1>10. CASE CaptureEnds \/ CameraLost
  BY <1>10 DEF CaptureEnds, CameraLost, SourceOK, IndicesOK
<1>11. CASE VideoTakes
  <2>1. IndicesOK'
    BY <1>11 DEF VideoTakes, Taken, IndicesOK
  <2>2. SourceOK'
    BY <1>11 DEF VideoTakes, SourceOK
  <2>3. QED
    BY <2>1, <2>2
<1>12. CASE VideoWaits \/ VideoEnds \/ VideoEncodes \/ VideoFails
  BY <1>1, <1>12 DEF VideoWaits, VideoEnds, VideoEncodes, VideoFails, sourceVars
<1>13. CASE AudioEncodes \/ AudioEnds \/ (Recorder /\ SoundOnly)
  BY <1>1, <1>13 DEF AudioEncodes, AudioEnds, SoundOnly, sourceVars
<1>14. QED
  BY <1>2, <1>3, <1>4, <1>5, <1>6, <1>7, <1>8, <1>9, <1>10, <1>11, <1>12, <1>13
  DEF Next, Capture, Video

\* The encoding threads.
LEMMA CodersTyped ==
    ASSUME IInv, Next
    PROVE  CodersOK'
<1> USE PublisherAssumption DEF IInv, TypeOK, CodersOK, VideoGoes, codeVars
<1>1. CASE (\E wanted \in Backends : CreateStream(wanted)) \/ DeleteStream
  BY <1>1 DEF CreateStream, DeleteStream
<1>2. CASE VideoPathFailed
  BY <1>2 DEF VideoPathFailed
<1>3. ASSUME NEW t \in Threads, Open(t)
      PROVE  CodersOK'
  BY <1>3 DEF Open, BeginsInit, SourceStarts, SourceFails, EncodersOpen, EncodersFail,
              Publishing, PublishingFails, StartsVideo, StartsAudio
<1>4. ASSUME NEW t \in Threads, Close(t)
      PROVE  CodersOK'
  BY <1>4 DEF Close, Closes, WakesVideo, JoinsAudio, JoinsVideo, DropsEncoders, ClosesSound,
              StopsCapture, ReleasesSource
<1>5. CASE Capture \/ CaptureEnds \/ CameraLost \/ WorkerFails
  BY <1>5 DEF Capture, FillsBuffer, DeliversBuffer, CopiesFrame, RepeatsFrame,
              RestartsSession, PublishesFrame, CaptureEnds, CameraLost, WorkerFails
<1>6. CASE VideoWaits \/ VideoEnds \/ VideoEncodes \/ VideoFails
  BY <1>6 DEF VideoWaits, VideoEnds, VideoEncodes, VideoFails
<1>7. CASE VideoTakes
  <2>1. held' \in Places
    <3>1. CASE source \in Buffered
      BY <1>7, <3>1 DEF VideoTakes, Taken, IndicesOK, Places
    <3>2. CASE source \notin Buffered
      <4>1. source \in Slotted
        BY <1>7, <3>2 DEF VideoTakes, Frames, Counted, KeptOK, Paths, Buffered, Slotted
      <4>2. QED
        BY <1>7, <3>2, <4>1 DEF VideoTakes, Frames, Shared, SourceOK, Places
    <3>3. QED
      BY <3>1, <3>2
  <2>2. image[held'] \in 0 .. MaxFrames
    BY <2>1 DEF SourceOK
  <2>3. QED
    BY <1>7, <2>1, <2>2 DEF VideoTakes
<1>8. CASE AudioEncodes \/ AudioEnds \/ (Recorder /\ SoundOnly)
  BY <1>8 DEF AudioEncodes, AudioEnds, SoundOnly
<1>9. QED
  BY <1>1, <1>2, <1>3, <1>4, <1>5, <1>6, <1>7, <1>8 DEF Next, Video

-----------------------------------------------------------------------------
(* The theorems.                                                              *)

\* The invariant holds before the first stream.
LEMMA InitInv == Init => IInv
<1> SUFFICES ASSUME Init PROVE IInv
  OBVIOUS
<1> USE PublisherAssumption DEF Init, SoundInit
<1>1. HandlersOK /\ KeptOK
  BY DEF HandlersOK, KeptOK, Backends
<1>7. CodersOK
  BY DEF CodersOK
<1>8. SoundOK
  <2>1. sound \in BOOLEAN /\ recording \in BOOLEAN
    OBVIOUS
  <2>2. recorder \in {"absent", "runs", "finished"}
    OBVIOUS
  <2>3. samples \in 0 .. Room
    BY DEF Room
  <2>4. QED
    BY <2>1, <2>2, <2>3 DEF SoundOK
<1>2. FlagsOK
  BY DEF FlagsOK
<1>3. SourceOK /\ IndicesOK
  <2>1. Cardinality({}) = 0
    BY FS_EmptySet
  <2>2. QED
    BY <2>1 DEF SourceOK, IndicesOK, Started, Buffers
<1>4. Control
  BY DEF Control, Alone, Opened, Closed, Roles, Used, Nothing, Threads, Opening, Closing,
         Paths, Places
<1>5. Frames
  BY DEF Frames, Counted, Traded, Shared, Buffered, Slotted, Paths, Places
<1>6. QED
  BY <1>1, <1>2, <1>3, <1>4, <1>5, <1>7, <1>8 DEF IInv, TypeOK, NoCrash

\* Every step keeps it, while failures are dealt with alone.
LEMMA InvStep == RebuildsAlone /\ IInv /\ [Next]_vars => IInv'
<1> SUFFICES ASSUME RebuildsAlone, IInv, [Next]_vars PROVE IInv'
  OBVIOUS
<1>1. CASE UNCHANGED vars
  BY <1>1 DEF vars, openVars, keptVars, codeVars, sourceVars, soundVars, IInv, TypeOK,
     HandlersOK, KeptOK, FlagsOK, CodersOK, SourceOK, SoundOK, IndicesOK, NoCrash, Control, Alone,
     Opened, Closed, Roles, Used, Nothing, Frames, Counted, Traded, Shared
<1>2. CASE Next
  <2>1. TypeOK' /\ NoCrash'
    BY <1>2, HandlersTyped, KeptTyped, FlagsTyped, ThreadsSafe, SoundTyped, SourceTyped,
       CodersTyped DEF TypeOK, NoCrash
  <2>2. Control'
    BY <1>2, ControlOfHandlers, ControlOfOpen, ControlOfClose, ControlOfThreads DEF Next
  <2>3. Frames'
    <3>1. "loop" \in Threads
      BY DEF Threads
    <3>2. QED
      BY <1>2, <3>1, FramesOfHandlers, FramesOfBuffers, FramesOfTextures, FramesOfThreads
      DEF Next, Capture
  <2>4. QED
    BY <2>1, <2>2, <2>3 DEF IInv
<1>3. QED
  BY <1>1, <1>2

\* The invariant holds always.
LEMMA Invariant == ASSUME RebuildsAlone PROVE Spec => []IInv
<1>1. IInv /\ [Next]_vars => IInv'
  BY InvStep
<1>2. QED
  BY <1>1, InitInv, PTL DEF Spec

\* The fields of the publisher keep their types, and the indices of the three buffers
\* stay different, for any number of frames and streams.
THEOREM PublisherTypes == ASSUME RebuildsAlone PROVE Spec => []TypeOK
<1>1. IInv => TypeOK
  BY DEF IInv
<1>2. QED
  BY <1>1, Invariant, PTL

\* No std::thread object is assigned to or destroyed while its thread was not joined.
THEOREM ThreadsJoined == ASSUME RebuildsAlone PROVE Spec => []NoCrash
<1>1. IInv => NoCrash
  BY DEF IInv
<1>2. QED
  BY <1>1, Invariant, PTL

\* The source, the encoders, the audio client and the shared device outlive the threads
\* that use them, wherever Open fails and whenever Close comes.
THEOREM UsersCollected == ASSUME RebuildsAlone PROVE Spec => []UsersEndFirst
BY Invariant, InvUsers, PTL

\* The frame the encoder reads is neither written nor released under it, whether it is
\* one of three buffers or a texture of the pool.
THEOREM FrameIntact == ASSUME RebuildsAlone PROVE Spec => []FrameStaysIntact
<1>1. IInv => FrameStaysIntact
  BY DEF IInv, Frames, Counted, FrameStaysIntact
<1>2. QED
  BY <1>1, Invariant, PTL

\* The pool of three textures is never exhausted, however frames, repetitions, session
\* restarts and the encoder interleave.
THEOREM PoolNeverExhausted == ASSUME RebuildsAlone PROVE Spec => []PoolSuffices
BY Invariant, InvPool, PTL

\* A stream that was stopped or could not be opened leaves nothing behind.
THEOREM NothingStays == ASSUME RebuildsAlone PROVE Spec => []NothingLeft
BY Invariant, InvNothing, PTL

\* The encoder is given the newest frame that was handed over, never an older one than
\* before, and from a buffered source never the same one.
THEOREM NewestTaken == ASSUME RebuildsAlone PROVE Spec => TakesNewest
<1>1. ASSUME IInv, VideoTakes
      PROVE  got' = newest /\ got' >= got /\ (source \in Buffered => got' > got)
  <2> USE DEF IInv, TypeOK
  <2>1. newest \in Nat /\ got \in Nat /\ got <= newest
    BY <1>1 DEF SourceOK, CodersOK, Frames, Counted
  <2>2. fresh /\ got' = image[held'] /\ image' = image
    BY <1>1 DEF VideoTakes
  <2>3. CASE source \in Buffered
    <3>1. held' = buf.middle
      BY <1>1, <2>3 DEF VideoTakes, Taken
    <3>2. QED
      BY <1>1, <2>1, <2>2, <2>3, <3>1 DEF Frames, Traded
  <2>4. CASE source \in Slotted /\ source \notin Buffered
    BY <1>1, <2>1, <2>2, <2>4 DEF VideoTakes, Frames, Shared
  <2>5. source # None
    BY <1>1, <2>2 DEF Frames, Counted
  <2>6. QED
    BY <1>1, <2>3, <2>4, <2>5 DEF KeptOK, Paths, Buffered, Slotted
<1>2. IInv /\ [Next]_vars => [VideoTakes => /\ got' = newest
                                            /\ got' >= got
                                            /\ source \in Buffered => got' > got]_vars
  BY <1>1
<1>3. QED
  BY <1>2, Invariant, PTL DEF Spec, TakesNewest
==============================================================================
