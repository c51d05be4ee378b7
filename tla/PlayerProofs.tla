----------------------------- MODULE PlayerProofs -----------------------------
(***************************************************************************)
(* Proofs about Player, for streams of any length and any number of        *)
(* PLAYSTREAMs.  The hand-over of notifications needs nothing of the       *)
(* threads that start and stop the player; that a demuxer is not used      *)
(* after its release needs StopsAlone.                                     *)
(***************************************************************************)
EXTENDS Player, TLAPS

----------------------------------------------------------------------------
\* Types.  Besides TypeOK: where each thread can be, that enough resets are left
\* for the handlers that have begun and for closing the window, and that the
\* painting thread's frame was taken in the session it names.

Resetting == IF at["loop"] \in {"make", "run", "empty", "present"} THEN 1 ELSE 0

Places == /\ at["loop"] \in {"idle"} \union Starting
          /\ at["gui"] \in {"idle"} \union Closing \union Painting
          /\ at["gui"] \in Closing => connected

ResetsLeft == presenter.session + Resetting + (IF connected THEN 1 ELSE 0) <= MaxSession

MineWasTaken == /\ at["gui"] = "mark" => mine # None
                /\ mine # None => /\ mine.session <= presenter.session
                                  /\ mine.session = presenter.session
                                       => mine.seq <= presenter.taken

TypeInv == TypeOK /\ Places /\ ResetsLeft /\ MineWasTaken

LEMMA Bounds == /\ MaxFrames \in Nat /\ MaxFrames > 0
                /\ MaxSession \in Nat /\ MaxSession > 0
                /\ StopsAlone \in BOOLEAN
BY PlayerAssumption

LEMMA InitTypeInv == Init => TypeInv
<1> SUFFICES ASSUME Init PROVE TypeInv
  OBVIOUS
<1> USE Bounds DEF Init, Emptied, NoFrame, Threads
<1>1. TypeOK
  <2>1. ThreadsOK
    BY DEF ThreadsOK
  <2>2. NoticesOK
    BY DEF NoticesOK
  <2>3. PresenterOK /\ PaintOK
    BY DEF PresenterOK, PaintOK
  <2>4. FlagsOK
    BY DEF FlagsOK
  <2>5. QED
    BY <2>1, <2>2, <2>3, <2>4 DEF TypeOK
<1>2. Places /\ ResetsLeft /\ MineWasTaken
  BY DEF Places, ResetsLeft, MineWasTaken, Resetting, Closing, Starting
<1>3. QED
  BY <1>1, <1>2 DEF TypeInv

----------------------------------------------------------------------------
\* The handlers that have begun have a reset left.
LEMMA ResetIsLeft ==
    ASSUME TypeInv, NEW t \in Threads, at[t] \in {"present", "reset"}
    PROVE  /\ presenter.session + 1 \in 0..MaxSession
           /\ presenter.session + Resetting + (IF connected THEN 1 ELSE 0) <= MaxSession
<1>1. presenter.session \in Nat
  BY Bounds DEF TypeInv, TypeOK, ThreadsOK, FlagsOK, NoticesOK, PresenterOK, PaintOK,
     PresenterOK
<1>2. Resetting = 1 \/ connected
  BY DEF TypeInv, Places, Resetting, Threads, Closing, Painting, Starting
<1>3. QED
  BY <1>1, <1>2, Bounds DEF TypeInv, ResetsLeft, Resetting

LEMMA TypeStep == TypeInv /\ [Next]_vars => TypeInv'
<1> SUFFICES ASSUME TypeInv, [Next]_vars PROVE TypeInv'
  OBVIOUS
<1> USE Bounds DEF TypeInv
<1> USE DEF Places, ResetsLeft, Resetting, MineWasTaken, Threads, Starting, Closing,
        Painting, playVars, paintVars, loopVars, NoFrame
<1>1. CASE PlayStream
  <2>1. ThreadsOK'
    BY <1>1 DEF PlayStream, Goes, TypeOK, ThreadsOK
  <2>2. NoticesOK'
    BY <1>1 DEF PlayStream, Goes, TypeOK, NoticesOK
  <2>3. PresenterOK'
    BY <1>1 DEF PlayStream, Goes, TypeOK, ThreadsOK, PresenterOK
  <2>4. PaintOK'
    BY <1>1 DEF PlayStream, Goes, TypeOK, PresenterOK, PaintOK, Drawn
  <2>5. Places' /\ ResetsLeft'
    BY <1>1 DEF PlayStream, Goes, TypeOK, ThreadsOK, PresenterOK
  <2>6. MineWasTaken'
    BY <1>1 DEF PlayStream, Goes, TypeOK, ThreadsOK, PresenterOK, PaintOK, Drawn
  <2>7. FlagsOK'
    BY <1>1 DEF PlayStream, Goes, TypeOK, FlagsOK
  <2>8. QED
    BY <2>1, <2>2, <2>3, <2>4, <2>5, <2>6, <2>7 DEF TypeOK
<1>2. CASE MakesDemuxer
  BY <1>2 DEF MakesDemuxer, Goes, TypeOK, ThreadsOK, FlagsOK, NoticesOK, PresenterOK,
     PaintOK
<1>3. CASE Runs
  <2>1. ThreadsOK'
    BY <1>3 DEF Runs, Goes, TypeOK, ThreadsOK
  <2>2. FlagsOK'
    BY <1>3 DEF Runs, Goes, TypeOK, FlagsOK
  <2>3. NoticesOK'
    BY <1>3 DEF Runs, Goes, TypeOK, NoticesOK
  <2>4. PresenterOK'
    BY <1>3 DEF Runs, Goes, TypeOK, ThreadsOK, PresenterOK
  <2>5. PaintOK'
    BY <1>3 DEF Runs, Goes, TypeOK, PresenterOK, PaintOK, Drawn
  <2>6. Places' /\ ResetsLeft'
    BY <1>3 DEF Runs, Goes, TypeOK, ThreadsOK, PresenterOK
  <2>7. MineWasTaken'
    BY <1>3 DEF Runs, Goes, TypeOK, ThreadsOK, PresenterOK, PaintOK, Drawn
  <2>8. QED
    BY <2>1, <2>2, <2>3, <2>4, <2>5, <2>6, <2>7 DEF TypeOK
<1>4. CASE EmptiesQueue
  BY <1>4 DEF EmptiesQueue, Goes, TypeOK, ThreadsOK, FlagsOK, NoticesOK, PresenterOK,
     PaintOK
<1>5. CASE PresentsAfresh
  <2>1. at["loop"] = "present" /\ presenter' = Reset(presenter)
    BY <1>5 DEF PresentsAfresh, Goes, ResetPresentation
  <2>2. TypeOK'
    BY <1>5, <2>1, ResetIsLeft DEF Reset, Emptied, PresentsAfresh, Goes,
       ResetPresentation, TypeOK, ThreadsOK, FlagsOK, NoticesOK, PresenterOK, PaintOK
  <2>3. Places' /\ ResetsLeft'
    BY <1>5, <2>1, ResetIsLeft DEF Reset, Emptied, PresentsAfresh, Goes, TypeOK,
       ThreadsOK, FlagsOK, NoticesOK, PresenterOK, PaintOK
  <2>4. MineWasTaken'
    <3>1. presenter'.session = presenter.session + 1
      BY <2>1 DEF Reset, Emptied
    <3>2. mine' = mine /\ at'["gui"] = at["gui"]
      BY <1>5 DEF PresentsAfresh, Goes, TypeOK, ThreadsOK
    <3>3. mine # None => mine.session \in Nat
      BY DEF TypeOK, PaintOK, Drawn
    <3>4. QED
      BY <3>1, <3>2, <3>3 DEF TypeOK, PresenterOK
  <2>5. QED
    BY <2>2, <2>3, <2>4
<1>6. CASE Opens
  <2>1. ThreadsOK'
    BY <1>6 DEF Opens, Goes, TypeOK, ThreadsOK
  <2>2. NoticesOK'
    BY <1>6 DEF Opens, Goes, TypeOK, NoticesOK
  <2>3. PresenterOK'
    BY <1>6 DEF Opens, Goes, TypeOK, ThreadsOK, PresenterOK
  <2>4. PaintOK'
    BY <1>6 DEF Opens, Goes, TypeOK, PresenterOK, PaintOK, Drawn
  <2>5. Places' /\ ResetsLeft'
    BY <1>6 DEF Opens, Goes, TypeOK, ThreadsOK, PresenterOK
  <2>6. MineWasTaken'
    BY <1>6 DEF Opens, Goes, TypeOK, ThreadsOK, PresenterOK, PaintOK, Drawn
  <2>7. FlagsOK'
    BY <1>6 DEF Opens, Goes, TypeOK, FlagsOK
  <2>8. QED
    BY <2>1, <2>2, <2>3, <2>4, <2>5, <2>6, <2>7 DEF TypeOK
<1>7. CASE StartsAudio
  <2>1. ThreadsOK'
    BY <1>7 DEF StartsAudio, Goes, TypeOK, ThreadsOK
  <2>2. FlagsOK'
    BY <1>7 DEF StartsAudio, Goes, TypeOK, FlagsOK
  <2>3. NoticesOK'
    BY <1>7 DEF StartsAudio, Goes, TypeOK, NoticesOK
  <2>4. PresenterOK'
    BY <1>7 DEF StartsAudio, Goes, TypeOK, ThreadsOK, PresenterOK
  <2>5. PaintOK'
    BY <1>7 DEF StartsAudio, Goes, TypeOK, PresenterOK, PaintOK, Drawn
  <2>6. Places' /\ ResetsLeft'
    BY <1>7 DEF StartsAudio, Goes, TypeOK, ThreadsOK, PresenterOK
  <2>7. MineWasTaken'
    BY <1>7 DEF StartsAudio, Goes, TypeOK, ThreadsOK, PresenterOK, PaintOK, Drawn
  <2>8. QED
    BY <2>1, <2>2, <2>3, <2>4, <2>5, <2>6, <2>7 DEF TypeOK
<1>8. CASE StartsVideo
  <2>1. ThreadsOK'
    BY <1>8 DEF StartsVideo, Goes, TypeOK, ThreadsOK
  <2>2. FlagsOK'
    BY <1>8 DEF StartsVideo, Goes, TypeOK, FlagsOK
  <2>3. NoticesOK'
    BY <1>8 DEF StartsVideo, Goes, TypeOK, NoticesOK
  <2>4. PresenterOK'
    BY <1>8 DEF StartsVideo, Goes, TypeOK, ThreadsOK, PresenterOK
  <2>5. PaintOK'
    BY <1>8 DEF StartsVideo, Goes, TypeOK, PresenterOK, PaintOK, Drawn
  <2>6. Places' /\ ResetsLeft'
    BY <1>8 DEF StartsVideo, Goes, TypeOK, ThreadsOK, PresenterOK
  <2>7. MineWasTaken'
    BY <1>8 DEF StartsVideo, Goes, TypeOK, ThreadsOK, PresenterOK, PaintOK, Drawn
  <2>8. QED
    BY <2>1, <2>2, <2>3, <2>4, <2>5, <2>6, <2>7 DEF TypeOK
<1>10. CASE StopRemote
  BY <1>10 DEF StopRemote, Goes, TypeOK, ThreadsOK, FlagsOK, NoticesOK, PresenterOK, PaintOK
<1>11. CASE Close
  <2>1. CASE JoinsAudio
    BY <2>1 DEF JoinsAudio, Goes, TypeOK, ThreadsOK, FlagsOK, NoticesOK, PresenterOK,
       PaintOK
  <2>2. CASE JoinsVideo
    BY <2>2 DEF JoinsVideo, Goes, TypeOK, ThreadsOK, FlagsOK, NoticesOK, PresenterOK,
       PaintOK
  <2>3. CASE ReleasesDemuxer
    BY <2>3 DEF ReleasesDemuxer, Goes, TypeOK, ThreadsOK, FlagsOK, NoticesOK,
       PresenterOK, PaintOK
  <2>4. CASE Closes
    <3>1. at["gui"] = "reset" /\ presenter' = Reset(presenter)
      BY <2>4 DEF Closes, Goes, ResetPresentation
    <3>2. /\ presenter.session \in Nat
          /\ presenter'.session = presenter.session + 1
          /\ presenter.session + 1 \in 0..MaxSession
      BY <3>1, ResetIsLeft DEF Reset, Emptied, TypeOK, PresenterOK, Threads
    <3>3. ThreadsOK'
      BY <2>4 DEF Closes, Goes, TypeOK, ThreadsOK
    <3>4. FlagsOK'
      BY <2>4 DEF Closes, Goes, ResetPresentation, TypeOK, FlagsOK
    <3>5. NoticesOK'
      BY <2>4 DEF Closes, Goes, TypeOK, NoticesOK
    <3>6. PresenterOK'
      BY <2>4, <3>1, <3>2 DEF Reset, Emptied, Closes, Goes, TypeOK, ThreadsOK, PresenterOK
    <3>7. PaintOK'
      BY <2>4 DEF Closes, Goes, TypeOK, PaintOK, Drawn
    <3>8. Places' /\ ResetsLeft'
      <4>1. connected /\ ~connected' /\ at'["loop"] = at["loop"] /\ at'["gui"] = "idle"
        BY <2>4 DEF Closes, Goes, TypeOK, ThreadsOK
      <4>2. Places'
        BY <4>1
      <4>3. ResetsLeft'
        BY <3>2, <4>1
      <4>4. QED
        BY <4>2, <4>3
    <3>9. MineWasTaken'
      <4>1. mine' = mine /\ at'["gui"] = "idle"
        BY <2>4 DEF Closes, Goes, TypeOK, ThreadsOK
      <4>2. mine # None => mine.session \in Nat
        BY DEF TypeOK, PaintOK, Drawn
      <4>3. QED
        BY <3>2, <4>1, <4>2
    <3>10. QED
      BY <3>3, <3>4, <3>5, <3>6, <3>7, <3>8, <3>9 DEF TypeOK
  <2>5. QED
    BY <1>11, <2>1, <2>2, <2>3, <2>4 DEF Close
<1>12. CASE DecodesFrame
  BY <1>12 DEF DecodesFrame, TypeOK, ThreadsOK, FlagsOK, NoticesOK, PresenterOK, PaintOK
<1>13. CASE AudioEnds
  BY <1>13 DEF AudioEnds, TypeOK, ThreadsOK, FlagsOK, NoticesOK, PresenterOK, PaintOK
<1>14. CASE VideoEnds
  BY <1>14 DEF VideoEnds, VideoGoes, TypeOK, ThreadsOK, FlagsOK, NoticesOK, PresenterOK,
     PaintOK
<1>15. CASE VideoSeesFrame
  BY <1>15 DEF VideoSeesFrame, VideoGoes, TypeOK, ThreadsOK, FlagsOK, NoticesOK,
     PresenterOK, PaintOK
<1>16. CASE VideoPops
  BY <1>16 DEF VideoPops, VideoGoes, TypeOK, ThreadsOK, FlagsOK, NoticesOK, PresenterOK,
     PaintOK
<1>17. CASE VideoPublishes
  <2>1. presenter' = Publish(presenter, held) /\ held \in 0..stream
    BY <1>17 DEF VideoPublishes, TypeOK, ThreadsOK
  <2>2. ThreadsOK'
    BY <1>17, <2>1 DEF Publish, VideoPublishes, VideoGoes, TypeOK, ThreadsOK
  <2>3. FlagsOK'
    BY <1>17, <2>1 DEF Publish, VideoPublishes, VideoGoes, TypeOK, FlagsOK
  <2>4. NoticesOK'
    BY <1>17, <2>1 DEF Publish, VideoPublishes, VideoGoes, TypeOK, ThreadsOK, NoticesOK,
       PresenterOK
  <2>5. PresenterOK'
    BY <1>17, <2>1 DEF Publish, VideoPublishes, VideoGoes, TypeOK, ThreadsOK, PresenterOK
  <2>6. PaintOK'
    BY <1>17, <2>1 DEF Publish, VideoPublishes, VideoGoes, TypeOK, PresenterOK, PaintOK,
       Drawn
  <2>7. Places' /\ ResetsLeft'
    BY <1>17, <2>1 DEF Publish, VideoPublishes, VideoGoes, TypeOK, ThreadsOK, PresenterOK
  <2>8. MineWasTaken'
    BY <1>17, <2>1 DEF Publish, VideoPublishes, VideoGoes, TypeOK, ThreadsOK,
       PresenterOK, PaintOK, Drawn
  <2>9. QED
    BY <2>2, <2>3, <2>4, <2>5, <2>6, <2>7, <2>8 DEF TypeOK
<1>18. CASE VideoNotifies
  <2>1. ThreadsOK'
    BY <1>18 DEF VideoNotifies, VideoGoes, TypeOK, ThreadsOK
  <2>2. NoticesOK'
    BY <1>18 DEF VideoNotifies, VideoGoes, TypeOK, NoticesOK
  <2>3. PresenterOK'
    BY <1>18 DEF VideoNotifies, VideoGoes, TypeOK, ThreadsOK, PresenterOK
  <2>4. PaintOK'
    BY <1>18 DEF VideoNotifies, VideoGoes, TypeOK, PresenterOK, PaintOK, Drawn
  <2>5. Places' /\ ResetsLeft'
    BY <1>18 DEF VideoNotifies, VideoGoes, TypeOK, ThreadsOK, PresenterOK
  <2>6. MineWasTaken'
    BY <1>18 DEF VideoNotifies, VideoGoes, TypeOK, ThreadsOK, PresenterOK, PaintOK, Drawn
  <2>7. FlagsOK'
    BY <1>18 DEF VideoNotifies, VideoGoes, TypeOK, FlagsOK
  <2>8. QED
    BY <2>1, <2>2, <2>3, <2>4, <2>5, <2>6, <2>7 DEF TypeOK
<1>19. CASE RepaintRequested
  <2>1. PICK s \in DOMAIN notices :
           /\ notices[s] > 0
           /\ notices' = [notices EXCEPT ![s] = @ - 1]
           /\ presenter' = OnNotified(presenter, s)
           /\ update' = (update \/ s = presenter.session)
    BY <1>19 DEF RepaintRequested
  <2>2. s \in 0..MaxSession /\ notices' \in [0..MaxSession -> Nat]
    BY <2>1 DEF TypeOK, NoticesOK
  <2>3. ThreadsOK'
    BY <1>19, <2>1, <2>2 DEF RepaintRequested, OnNotified, TypeOK, ThreadsOK
  <2>4. NoticesOK'
    BY <1>19, <2>1, <2>2 DEF RepaintRequested, OnNotified, TypeOK, NoticesOK
  <2>5. PresenterOK'
    BY <1>19, <2>1, <2>2 DEF RepaintRequested, OnNotified, TypeOK, ThreadsOK, PresenterOK
  <2>6. PaintOK'
    BY <1>19, <2>1, <2>2 DEF RepaintRequested, OnNotified, TypeOK, PresenterOK, PaintOK,
       Drawn
  <2>7. Places' /\ ResetsLeft'
    BY <1>19, <2>1, <2>2 DEF RepaintRequested, OnNotified, TypeOK, ThreadsOK, PresenterOK
  <2>8. MineWasTaken'
    BY <1>19, <2>1, <2>2 DEF RepaintRequested, OnNotified, TypeOK, ThreadsOK,
       PresenterOK, PaintOK, Drawn
  <2>9. FlagsOK'
    BY <1>19, <2>1, <2>2 DEF RepaintRequested, OnNotified, TypeOK, FlagsOK
  <2>10. QED
    BY <2>3, <2>4, <2>5, <2>6, <2>7, <2>8, <2>9 DEF TypeOK
<1>20. CASE ResetUpdates
  <2>1. ThreadsOK'
    BY <1>20 DEF ResetUpdates, TypeOK, ThreadsOK
  <2>2. FlagsOK'
    BY <1>20 DEF ResetUpdates, TypeOK, FlagsOK
  <2>3. NoticesOK'
    BY <1>20 DEF ResetUpdates, TypeOK, NoticesOK
  <2>4. PresenterOK'
    BY <1>20 DEF ResetUpdates, TypeOK, ThreadsOK, PresenterOK
  <2>5. PaintOK'
    BY <1>20 DEF ResetUpdates, TypeOK, PresenterOK, PaintOK, Drawn
  <2>6. Places' /\ ResetsLeft'
    BY <1>20 DEF ResetUpdates, TypeOK, ThreadsOK, PresenterOK
  <2>7. MineWasTaken'
    BY <1>20 DEF ResetUpdates, TypeOK, ThreadsOK, PresenterOK, PaintOK, Drawn
  <2>8. QED
    BY <2>1, <2>2, <2>3, <2>4, <2>5, <2>6, <2>7 DEF TypeOK
<1>21. CASE PaintBegins
  <2>1. ThreadsOK'
    BY <1>21 DEF PaintBegins, Goes, TypeOK, ThreadsOK
  <2>2. NoticesOK'
    BY <1>21 DEF PaintBegins, Goes, TypeOK, NoticesOK
  <2>3. PresenterOK'
    BY <1>21 DEF PaintBegins, Goes, TypeOK, ThreadsOK, PresenterOK
  <2>4. PaintOK'
    BY <1>21 DEF PaintBegins, Goes, TypeOK, PresenterOK, PaintOK, Drawn
  <2>5. Places' /\ ResetsLeft'
    BY <1>21 DEF PaintBegins, Goes, TypeOK, ThreadsOK, PresenterOK
  <2>6. MineWasTaken'
    BY <1>21 DEF PaintBegins, Goes, TypeOK, ThreadsOK, PresenterOK, PaintOK, Drawn
  <2>7. FlagsOK'
    BY <1>21 DEF PaintBegins, Goes, TypeOK, FlagsOK
  <2>8. QED
    BY <2>1, <2>2, <2>3, <2>4, <2>5, <2>6, <2>7 DEF TypeOK
<1>22. CASE PaintTakes
  <2>1. ThreadsOK'
    BY <1>22 DEF PaintTakes, Goes, TakeFrameForPaint, HasNewFrame, TypeOK, ThreadsOK
  <2>2. NoticesOK'
    BY <1>22 DEF PaintTakes, Goes, TakeFrameForPaint, HasNewFrame, TypeOK, NoticesOK
  <2>3. PresenterOK'
    BY <1>22 DEF PaintTakes, Goes, TakeFrameForPaint, HasNewFrame, TypeOK, ThreadsOK,
       PresenterOK
  <2>4. PaintOK'
    BY <1>22 DEF PaintTakes, Goes, TakeFrameForPaint, HasNewFrame, TypeOK, PresenterOK,
       PaintOK, Drawn
  <2>5. Places' /\ ResetsLeft'
    BY <1>22 DEF PaintTakes, Goes, TakeFrameForPaint, HasNewFrame, TypeOK, ThreadsOK,
       PresenterOK
  <2>6. MineWasTaken'
    BY <1>22 DEF PaintTakes, Goes, TakeFrameForPaint, HasNewFrame, TypeOK, ThreadsOK,
       PresenterOK, PaintOK, Drawn
  <2>7. FlagsOK'
    BY <1>22 DEF PaintTakes, Goes, TakeFrameForPaint, HasNewFrame, TypeOK, FlagsOK
  <2>8. QED
    BY <2>1, <2>2, <2>3, <2>4, <2>5, <2>6, <2>7 DEF TypeOK
<1>23. CASE PaintDraws
  <2>1. ThreadsOK'
    BY <1>23 DEF PaintDraws, Goes, TypeOK, ThreadsOK
  <2>2. NoticesOK'
    BY <1>23 DEF PaintDraws, Goes, TypeOK, NoticesOK
  <2>3. PresenterOK'
    BY <1>23 DEF PaintDraws, Goes, TypeOK, ThreadsOK, PresenterOK
  <2>4. PaintOK'
    BY <1>23 DEF PaintDraws, Goes, TypeOK, PresenterOK, PaintOK, Drawn
  <2>5. Places' /\ ResetsLeft'
    BY <1>23 DEF PaintDraws, Goes, TypeOK, ThreadsOK, PresenterOK
  <2>6. MineWasTaken'
    BY <1>23 DEF PaintDraws, Goes, TypeOK, ThreadsOK, PresenterOK, PaintOK, Drawn
  <2>7. FlagsOK'
    BY <1>23 DEF PaintDraws, Goes, TypeOK, FlagsOK
  <2>8. QED
    BY <2>1, <2>2, <2>3, <2>4, <2>5, <2>6, <2>7 DEF TypeOK
<1>24. CASE PaintMarks
  <2>1. ThreadsOK'
    BY <1>24 DEF PaintMarks, Goes, MarkPainted, TypeOK, ThreadsOK
  <2>2. NoticesOK'
    BY <1>24 DEF PaintMarks, Goes, MarkPainted, TypeOK, NoticesOK
  <2>3. PresenterOK'
    <3>1. mine \in Drawn /\ at["gui"] = "mark" /\ stream' = stream
      BY <1>24 DEF PaintMarks, Goes, TypeOK, PaintOK
    <3>2. presenter' = MarkPainted(presenter, mine.seq, mine.session)
      BY <1>24 DEF PaintMarks
    <3>3. mine.session = presenter.session => mine.seq <= presenter.taken
      BY <3>1
    <3>4. QED
      BY <3>1, <3>2, <3>3 DEF MarkPainted, TypeOK, ThreadsOK, PresenterOK, Drawn
  <2>4. PaintOK'
    BY <1>24 DEF PaintMarks, Goes, MarkPainted, TypeOK, PresenterOK, PaintOK, Drawn
  <2>5. Places' /\ ResetsLeft'
    BY <1>24 DEF PaintMarks, Goes, MarkPainted, TypeOK, ThreadsOK, PresenterOK
  <2>6. MineWasTaken'
    BY <1>24 DEF PaintMarks, Goes, MarkPainted, TypeOK, ThreadsOK, PresenterOK, PaintOK,
       Drawn
  <2>7. FlagsOK'
    BY <1>24 DEF PaintMarks, Goes, MarkPainted, TypeOK, FlagsOK
  <2>8. QED
    BY <2>1, <2>2, <2>3, <2>4, <2>5, <2>6, <2>7 DEF TypeOK
<1>25. CASE UNCHANGED vars
  BY <1>25 DEF vars, TypeOK, ThreadsOK, FlagsOK, NoticesOK, PresenterOK, PaintOK
<1>26. QED
  BY <1>1, <1>2, <1>3, <1>4, <1>5, <1>6, <1>7, <1>8, <1>10, <1>11, <1>12, <1>13,
     <1>14, <1>15, <1>16, <1>17, <1>18, <1>19, <1>20, <1>21, <1>22, <1>23, <1>24, <1>25
  DEF Next, Start, Video, Paint

\* The fields of the player keep their types, and a frame is painted only after it
\* was taken and taken only after it was published, however many PLAYSTREAMs come and
\* whenever the window is closed.
THEOREM TypeCorrect == Spec => []TypeOK
<1>1. Init => TypeInv
  BY InitTypeInv
<1>2. TypeInv /\ [Next]_vars => TypeInv'
  BY TypeStep
<1>3. TypeInv => TypeOK
  BY DEF TypeInv
<1>4. QED
  BY <1>1, <1>2, <1>3, PTL DEF Spec

----------------------------------------------------------------------------
\* Notifications.  OneNotification alone is not inductive: a session that has not
\* begun must have no notification, or its first one would be its second.

NoneAhead == /\ owed <= presenter.session
             /\ \A s \in 0..MaxSession : s > presenter.session => notices[s] = 0

NoticeInv == TypeInv /\ NoneAhead /\ OneNotification

LEMMA InitNoticeInv == Init => NoticeInv
<1> SUFFICES ASSUME Init PROVE NoticeInv
  OBVIOUS
<1>1. TypeInv
  BY InitTypeInv
<1>2. NoneAhead /\ OneNotification
  BY Bounds DEF Init, Emptied, NoneAhead, OneNotification, Outstanding
<1>3. QED
  BY <1>1, <1>2 DEF NoticeInv

\* A step that touches neither the presenter's flag and session nor a notification.
LEMMA NoticesAlone ==
    ASSUME NoticeInv, UNCHANGED <<notices, owed>>,
           presenter'.session = presenter.session,
           presenter'.pending = presenter.pending,
           (video' = "notify") = (video = "notify")
    PROVE  NoneAhead' /\ OneNotification'
BY DEF NoticeInv, NoneAhead, OneNotification, Outstanding

\* The new session has no notification yet, and its flag is down.
LEMMA NoticesReset ==
    ASSUME NoticeInv, UNCHANGED <<notices, owed, video>>, presenter' = Reset(presenter),
           NEW t \in Threads, at[t] \in {"present", "reset"}
    PROVE  NoneAhead' /\ OneNotification'
<1>1. /\ presenter'.session = presenter.session + 1
      /\ presenter'.session \in 0..MaxSession
      /\ ~presenter'.pending
  BY ResetIsLeft DEF Reset, Emptied, NoticeInv
<1>2. presenter.session \in Nat /\ owed \in Nat /\ notices \in [0..MaxSession -> Nat]
  BY Bounds DEF NoticeInv, TypeInv, TypeOK, PresenterOK, NoticesOK
<1>3. QED
  BY <1>1, <1>2 DEF NoticeInv, NoneAhead, OneNotification, Outstanding

LEMMA NoticeStep == NoticeInv /\ [Next]_vars => NoticeInv'
<1> SUFFICES ASSUME NoticeInv, [Next]_vars PROVE NoticeInv'
  OBVIOUS
<1>0. TypeInv /\ TypeInv'
  BY TypeStep DEF NoticeInv
<1> DEFINE Kept == NoneAhead' /\ OneNotification'
<1> SUFFICES Kept
  BY <1>0 DEF NoticeInv
<1> USE DEF playVars, paintVars, loopVars
<1>1. CASE PlayStream \/ MakesDemuxer \/ Runs \/ EmptiesQueue \/ Opens \/ StartsAudio
           \/ StopRemote
  BY <1>1, NoticesAlone DEF PlayStream, MakesDemuxer, Runs, EmptiesQueue, Opens,
     StartsAudio, StopRemote
<1>2. CASE PresentsAfresh
  BY <1>2, NoticesReset DEF PresentsAfresh, ResetPresentation, Goes, Threads
<1>3. CASE StartsVideo
  BY <1>3, NoticesAlone DEF StartsVideo
<1>4. CASE Close
  <2>1. CASE JoinsAudio \/ ReleasesDemuxer
    BY <2>1, NoticesAlone DEF JoinsAudio, ReleasesDemuxer
  <2>2. CASE JoinsVideo
    BY <2>2, NoticesAlone DEF JoinsVideo
  <2>3. CASE Closes
    BY <2>3, NoticesReset DEF Closes, ResetPresentation, Goes, Threads
  <2>4. QED
    BY <1>4, <2>1, <2>2, <2>3 DEF Close
<1>5. CASE DecodesFrame \/ AudioEnds \/ ResetUpdates \/ PaintBegins \/ PaintDraws
  BY <1>5, NoticesAlone DEF DecodesFrame, AudioEnds, ResetUpdates, PaintBegins, PaintDraws
<1>6. CASE VideoEnds \/ VideoSeesFrame \/ VideoPops
  BY <1>6, NoticesAlone DEF VideoEnds, VideoSeesFrame, VideoPops, VideoGoes
<1>7. CASE VideoPublishes
  <2>1. /\ presenter'.session = presenter.session /\ presenter'.pending = TRUE
        /\ owed' = presenter.session /\ notices' = notices /\ video = "publish"
        /\ video' = (IF ~presenter.pending THEN "notify" ELSE "top")
    BY <1>7 DEF VideoPublishes, VideoGoes, Publish, MustNotify
  <2>2. presenter.session \in 0..MaxSession /\ notices \in [0..MaxSession -> Nat]
    BY <1>0 DEF TypeInv, TypeOK, PresenterOK, NoticesOK
  <2>3. QED
    BY <2>1, <2>2 DEF NoticeInv, NoneAhead, OneNotification, Outstanding
<1>8. CASE VideoNotifies
  <2>1. /\ video = "notify" /\ video' = "top" /\ presenter' = presenter /\ owed' = owed
        /\ notices' = [notices EXCEPT ![owed] = @ + 1]
    BY <1>8 DEF VideoNotifies, VideoGoes
  <2>2. /\ presenter.session \in 0..MaxSession /\ owed \in 0..MaxSession
        /\ notices \in [0..MaxSession -> Nat]
    BY <1>0 DEF TypeInv, TypeOK, PresenterOK, NoticesOK
  <2>3. QED
    BY <2>1, <2>2 DEF NoticeInv, NoneAhead, OneNotification, Outstanding
<1>9. CASE RepaintRequested
  <2>1. PICK s \in DOMAIN notices :
           /\ notices[s] > 0
           /\ notices' = [notices EXCEPT ![s] = @ - 1]
           /\ presenter' = OnNotified(presenter, s)
    BY <1>9 DEF RepaintRequested
  <2>2. /\ presenter.session \in 0..MaxSession /\ presenter.pending \in BOOLEAN
        /\ notices \in [0..MaxSession -> Nat] /\ s \in 0..MaxSession
        /\ owed' = owed /\ video' = video
    BY <1>0, <1>9, <2>1 DEF RepaintRequested, TypeInv, TypeOK, PresenterOK, NoticesOK
  <2>3. presenter'.session = presenter.session
    BY <1>0, <2>1 DEF OnNotified, TypeInv, TypeOK, PresenterOK
  <2>4. CASE s = presenter.session
    <3>1. ~presenter'.pending
      BY <1>0, <2>1, <2>4 DEF OnNotified, TypeInv, TypeOK, PresenterOK
    <3>2. QED
      BY <2>1, <2>2, <2>3, <2>4, <3>1 DEF NoticeInv, NoneAhead, OneNotification, Outstanding
  <2>5. CASE s # presenter.session
    <3>1. presenter' = presenter
      BY <2>1, <2>5 DEF OnNotified
    <3>2. QED
      BY <2>1, <2>2, <2>5, <3>1 DEF NoticeInv, NoneAhead, OneNotification, Outstanding
  <2>6. QED
    BY <2>4, <2>5
<1>10. CASE PaintTakes \/ PaintMarks
  <2>1. presenter'.session = presenter.session /\ presenter'.pending = presenter.pending
    BY <1>0, <1>10 DEF PaintTakes, PaintMarks, TakeFrameForPaint, MarkPainted, TypeInv,
       TypeOK, PresenterOK
  <2>2. QED
    BY <1>10, <2>1, NoticesAlone DEF PaintTakes, PaintMarks
<1>11. CASE UNCHANGED vars
  BY <1>11, NoticesAlone DEF vars
<1>12. QED
  BY <1>1, <1>2, <1>3, <1>4, <1>5, <1>6, <1>7, <1>8, <1>9, <1>10, <1>11
  DEF Next, Start, Video, Paint

\* The presenter's flag and the notifications under way agree, whenever the window is
\* closed and streams are started: the GUI never has two to come for one session,
\* and the flag is never left up without one.
THEOREM OneNotificationAtATime == Spec => []OneNotification
<1>1. Init => NoticeInv
  BY InitNoticeInv
<1>2. NoticeInv /\ [Next]_vars => NoticeInv'
  BY NoticeStep
<1>3. NoticeInv => OneNotification
  BY DEF NoticeInv
<1>4. QED
  BY <1>1, <1>2, <1>3, PTL DEF Spec

----------------------------------------------------------------------------
\* Starting and stopping, when the window is closed only between two handlers.
\* What the threads and the demuxer are at each statement of Start and Close: until
\* the process ends there is one stream at most, and its threads are started once.

OneStart == /\ stream <= 1
            /\ stream = 0 => audio = "absent" /\ video = "absent"
            /\ connected /\ at["gui"] # "reset"
                 => demuxer = (IF stream = 0 THEN "made" ELSE "fetching")
            /\ at["loop"] = "audio" => audio = "absent"
            /\ at["loop"] \in {"audio", "video"} => video = "absent" /\ stream = 1

LifeInv == /\ ~crashed => OneStart
           /\ crashed => stream > 1
           /\ at["gui"] \in Closing => at["loop"] = "idle"
           /\ at["loop"] \in Starting => connected
           /\ at["gui"] \in {"joinVideo", "release", "reset"} => audio = "absent"
           /\ at["gui"] \in {"release", "reset"} => video = "absent"
           /\ demuxer = "released" =>
                /\ audio = "absent" /\ video = "absent"
                /\ at["gui"] = "reset" \/ ~connected

LEMMA LifeStep ==
    ASSUME StopsAlone, TypeInv, LifeInv, [Next]_vars
    PROVE  LifeInv'
<1> USE DEF LifeInv, OneStart, Threads, Starting, Closing, playVars, paintVars, loopVars
<1> at \in [Threads -> {"idle"} \union Starting \union Closing \union Painting]
  BY DEF TypeInv, TypeOK, ThreadsOK
<1> stream \in Nat /\ connected \in BOOLEAN /\ crashed \in BOOLEAN
  BY DEF TypeInv, TypeOK, ThreadsOK, FlagsOK
<1>0. /\ at["gui"] \in {"idle"} \union Closing \union Painting
      /\ at["gui"] \in Closing => connected
  BY DEF TypeInv, Places
<1>1. CASE PlayStream
  BY <1>1 DEF PlayStream, Goes
<1>2. CASE MakesDemuxer
  BY <1>2 DEF MakesDemuxer, Goes
<1>3. CASE Runs
  BY <1>3 DEF Runs, Goes
<1>4. CASE EmptiesQueue
  BY <1>4 DEF EmptiesQueue, Goes
<1>5. CASE PresentsAfresh
  BY <1>5 DEF PresentsAfresh, Goes
<1>6. CASE Opens
  BY <1>6 DEF Opens, Goes
<1>7. CASE StartsAudio
  BY <1>7 DEF StartsAudio, Goes
<1>8. CASE StartsVideo
  BY <1>8 DEF StartsVideo, Goes
<1>10. CASE StopRemote
  BY <1>10 DEF StopRemote, Goes
<1>11. CASE Close
  <2>1. CASE JoinsAudio
    BY <2>1, <1>0 DEF JoinsAudio, Goes
  <2>2. CASE JoinsVideo
    BY <2>2, <1>0 DEF JoinsVideo, Goes
  <2>3. CASE ReleasesDemuxer
    BY <2>3, <1>0 DEF ReleasesDemuxer, Goes
  <2>4. CASE Closes
    BY <2>4, <1>0 DEF Closes, Goes
  <2>5. QED
    BY <1>11, <2>1, <2>2, <2>3, <2>4 DEF Close
<1>12. CASE DecodesFrame
  BY <1>12 DEF DecodesFrame
<1>13. CASE AudioEnds
  BY <1>13 DEF AudioEnds
<1>14. CASE VideoEnds
  BY <1>14 DEF VideoEnds, VideoGoes
<1>15. CASE VideoSeesFrame
  BY <1>15 DEF VideoSeesFrame, VideoGoes, MayPlay
<1>16. CASE VideoPops
  BY <1>16 DEF VideoPops, VideoGoes
<1>17. CASE VideoPublishes
  BY <1>17 DEF VideoPublishes, VideoGoes
<1>18. CASE VideoNotifies
  BY <1>18 DEF VideoNotifies, VideoGoes
<1>19. CASE RepaintRequested \/ ResetUpdates
  BY <1>19 DEF RepaintRequested, ResetUpdates
<1>20. CASE PaintBegins
  BY <1>20 DEF PaintBegins, Goes
<1>21. CASE PaintTakes
  BY <1>21 DEF PaintTakes, Goes
<1>22. CASE PaintDraws
  BY <1>22 DEF PaintDraws, Goes
<1>23. CASE PaintMarks
  BY <1>23 DEF PaintMarks, Goes
<1>24. CASE UNCHANGED vars
  BY <1>24 DEF vars
<1>25. QED
  BY <1>1, <1>2, <1>3, <1>4, <1>5, <1>6, <1>7, <1>8, <1>10, <1>11, <1>12, <1>13,
     <1>14, <1>15, <1>16, <1>17, <1>18, <1>19, <1>20, <1>21, <1>22, <1>23, <1>24
  DEF Next, Start, Video, Paint

\* When the window is closed only between two handlers of the loop, one PLAYSTREAM
\* and the closing of the window are safe in any order with the playing threads:
\* no handler uses a demuxer that was released or replaces a thread that runs.  And
\* whatever PLAYSTREAMs come, both playing threads are gone before the demuxer they
\* refer to is released.
THEOREM StoppedThreadsFirst ==
    ASSUME StopsAlone
    PROVE  Spec => []OneStreamIsSafe
<1>1. Init => TypeInv /\ LifeInv
  BY InitTypeInv DEF Init, LifeInv, OneStart, Threads, Starting, Closing
<1>2. TypeInv /\ LifeInv /\ [Next]_vars => TypeInv' /\ LifeInv'
  BY TypeStep, LifeStep
<1>3. TypeInv /\ LifeInv => OneStreamIsSafe
  BY DEF LifeInv, OneStreamIsSafe, NoCrash, DemuxerOutlivesPlayers, TypeInv, TypeOK,
     ThreadsOK
<1>4. QED
  BY <1>1, <1>2, <1>3, PTL DEF Spec

----------------------------------------------------------------------------
\* The screen.  What is drawn comes from the textures, which hold a frame of the
\* session they are marked with, never older than the one on the screen.

TextureInv == /\ texSession <= presenter.session
              /\ texture # None => /\ texture.session = texSession
                                   /\ texture.seq >= 1
                                   /\ texSession = presenter.session
                                        => texture.seq <= presenter.produced

ScreenInv == screen # None =>
               /\ screen.session <= presenter.session
               /\ screen.session = presenter.session =>
                    /\ texture # None
                    /\ texSession = presenter.session
                    /\ screen.seq >= 1 /\ screen.seq <= texture.seq

PictureInv == TypeInv /\ TextureInv /\ ScreenInv

\* The types the proofs below need.
LEMMA PictureTypes ==
    ASSUME TypeInv
    PROVE  /\ presenter.session \in Nat /\ presenter.produced \in Nat
           /\ presenter.painted \in Nat /\ presenter.painted <= presenter.produced
           /\ texSession \in Nat
           /\ texture # None => texture \in [session : Nat, seq : Nat]
           /\ screen # None => screen \in [session : Nat, seq : Nat]
           /\ \A a, b \in Nat : [session |-> a, seq |-> b] # None
<1>1. \A a, b \in Nat : [session |-> a, seq |-> b] \in [session : Nat, seq : Nat]
  OBVIOUS
<1>2. \A a, b \in Nat : [session |-> a, seq |-> b] # None
  BY <1>1, PlayerAssumption
<1>3. /\ presenter.session \in Nat /\ presenter.produced \in Nat
      /\ presenter.painted \in Nat /\ presenter.painted <= presenter.produced
  BY Bounds DEF TypeInv, TypeOK, PresenterOK
<1>4. /\ texSession \in Nat
      /\ texture # None => texture \in [session : Nat, seq : Nat]
      /\ screen # None => screen \in [session : Nat, seq : Nat]
  BY Bounds DEF TypeInv, TypeOK, PaintOK, Drawn
<1>5. QED
  BY <1>2, <1>3, <1>4

\* A step that leaves the picture alone, and publishes or resets at most.
LEMMA PictureAlone ==
    ASSUME PictureInv, UNCHANGED <<texSession, texture, screen>>,
           \/ presenter' = Reset(presenter)
           \/ /\ presenter'.session = presenter.session
              /\ presenter'.produced \in {presenter.produced, presenter.produced + 1}
    PROVE  /\ TextureInv' /\ ScreenInv'
           /\ [Promise!LNext]_(Promise!lvars)
<1> USE PictureTypes DEF PictureInv, TextureInv, ScreenInv
<1>1. CASE presenter' = Reset(presenter)
  <2>1. presenter'.session = presenter.session + 1 /\ presenter'.produced = 0
    BY <1>1 DEF Reset, Emptied
  <2>2. TextureInv' /\ ScreenInv'
    BY <2>1
  <2>3. Promise!Reset
    BY <2>1 DEF Promise!Reset
  <2>4. QED
    BY <2>2, <2>3 DEF Promise!LNext
<1>2. CASE /\ presenter'.session = presenter.session
           /\ presenter'.produced \in {presenter.produced, presenter.produced + 1}
  <2>1. TextureInv' /\ ScreenInv'
    BY <1>2
  <2>2. Promise!Publish \/ UNCHANGED Promise!lvars
    BY <1>2 DEF Promise!Publish, Promise!lvars
  <2>3. QED
    BY <2>1, <2>2 DEF Promise!LNext
<1>3. QED
  BY <1>1, <1>2

LEMMA PictureStep ==
    ASSUME PictureInv, [Next]_vars
    PROVE  PictureInv' /\ [Promise!LNext]_(Promise!lvars)
<1>0. TypeInv /\ TypeInv'
  BY TypeStep DEF PictureInv
<1> DEFINE Kept == TextureInv' /\ ScreenInv' /\ [Promise!LNext]_(Promise!lvars)
<1> SUFFICES Kept
  BY <1>0 DEF PictureInv
<1> USE DEF playVars, paintVars, loopVars
<1>1. CASE Start \/ StopRemote \/ DecodesFrame \/ AudioEnds
  BY <1>1, PictureAlone DEF Start, PlayStream, MakesDemuxer, Runs, EmptiesQueue,
     PresentsAfresh, ResetPresentation, Opens, StartsAudio, StartsVideo,
     StopRemote, DecodesFrame, AudioEnds
<1>2. CASE Close
  BY <1>2, PictureAlone DEF Close, JoinsAudio, JoinsVideo, ReleasesDemuxer, Closes,
     ResetPresentation
<1>3. CASE VideoEnds \/ VideoSeesFrame \/ VideoPops \/ VideoNotifies \/ ResetUpdates
  BY <1>3, PictureAlone DEF VideoEnds, VideoSeesFrame, VideoPops, VideoNotifies,
     ResetUpdates
<1>4. CASE VideoPublishes
  BY <1>4, PictureAlone DEF VideoPublishes, Publish
<1>5. CASE RepaintRequested
  <2>1. PICK s : presenter' = OnNotified(presenter, s)
    BY <1>5 DEF RepaintRequested
  <2>2. presenter'.session = presenter.session /\ presenter'.produced = presenter.produced
    BY <1>0, <2>1 DEF OnNotified, TypeInv, TypeOK, PresenterOK
  <2>3. QED
    BY <1>5, <2>2, PictureAlone DEF RepaintRequested
<1>6. CASE PaintBegins
  <2>1. /\ texture' = IF texSession # presenter.session THEN None ELSE texture
        /\ texSession' = presenter.session /\ screen' = screen /\ presenter' = presenter
    BY <1>6 DEF PaintBegins
  <2>2. TextureInv' /\ ScreenInv'
    BY <1>0, <2>1, PictureTypes DEF PictureInv, TextureInv, ScreenInv
  <2>3. QED
    BY <2>1, <2>2 DEF Promise!lvars
<1>7. CASE PaintTakes
  <2>1. /\ presenter'.session = presenter.session
        /\ presenter'.produced = presenter.produced
        /\ screen' = screen
    BY <1>0, <1>7 DEF PaintTakes, TakeFrameForPaint, TypeInv, TypeOK, PresenterOK
  <2>2. CASE HasNewFrame(presenter)
    <3>1. /\ texture' = [session |-> presenter.session, seq |-> presenter.produced]
          /\ texSession' = presenter.session
      BY <1>7, <2>2 DEF PaintTakes
    <3>2. presenter.produced >= 1
      BY <1>0, <2>2, PictureTypes DEF HasNewFrame
    <3>3. texture' # None
      BY <1>0, <3>1, PictureTypes
    <3>4. TextureInv' /\ ScreenInv'
      BY <1>0, <2>1, <3>1, <3>2, <3>3, PictureTypes DEF PictureInv, TextureInv, ScreenInv
    <3>5. QED
      BY <2>1, <3>4 DEF Promise!lvars
  <2>3. CASE ~HasNewFrame(presenter)
    <3>1. UNCHANGED <<texture, texSession>>
      BY <1>7, <2>3 DEF PaintTakes
    <3>2. QED
      BY <2>1, <3>1, PictureAlone
  <2>4. QED
    BY <2>2, <2>3
<1>8. CASE PaintDraws
  <2>1. presenter' = presenter /\ texSession' = texSession /\ screen' = texture'
    BY <1>8 DEF PaintDraws
  <2>2. CASE texSession # presenter.session
    <3>1. screen' = None /\ texture' = None
      BY <1>8, <2>2 DEF PaintDraws
    <3>2. screen # None => screen.session # presenter.session
      BY <2>2 DEF PictureInv, ScreenInv
    <3>3. Promise!Clear \/ UNCHANGED Promise!lvars
      BY <2>1, <3>1, <3>2 DEF Promise!Clear, Promise!lvars
    <3>4. TextureInv' /\ ScreenInv'
      BY <2>1, <3>1 DEF PictureInv, TextureInv, ScreenInv
    <3>5. QED
      BY <3>3, <3>4 DEF Promise!LNext
  <2>3. CASE texSession = presenter.session
    <3>1. screen' = texture /\ texture' = texture
      BY <1>8, <2>3 DEF PaintDraws
    <3>2. TextureInv' /\ ScreenInv'
      BY <1>0, <2>1, <2>3, <3>1, PictureTypes DEF PictureInv, TextureInv, ScreenInv
    <3>3. CASE texture = None
      <4>1. Promise!Clear \/ UNCHANGED Promise!lvars
        BY <2>1, <3>1, <3>3 DEF Promise!Clear, Promise!lvars, PictureInv, ScreenInv
      <4>2. QED
        BY <3>2, <4>1 DEF Promise!LNext
    <3>4. CASE texture # None
      <4>1. /\ texture = [session |-> presenter.session, seq |-> texture.seq]
            /\ texture.seq \in 1..presenter.produced
        BY <1>0, <2>3, <3>4, PictureTypes DEF PictureInv, TextureInv
      <4>2. CASE texture.seq > Promise!Shown
        <5>1. Promise!Shown \in Nat
          BY <1>0, PictureTypes DEF Promise!Shown
        <5>2. texture.seq \in (Promise!Shown + 1)..presenter.produced
          BY <1>0, <4>1, <4>2, <5>1, PictureTypes
        <5>3. Promise!Show
          BY <2>1, <3>1, <4>1, <5>2 DEF Promise!Show
        <5>4. QED
          BY <3>2, <5>3 DEF Promise!LNext
      <4>3. CASE ~(texture.seq > Promise!Shown)
        <5>1. /\ screen # None /\ screen.session = presenter.session
              /\ screen.seq = texture.seq
          BY <1>0, <3>4, <4>1, <4>3, PictureTypes DEF Promise!Shown, PictureInv, ScreenInv
        <5>2. screen = [session |-> presenter.session, seq |-> texture.seq]
          BY <1>0, <5>1, PictureTypes
        <5>3. QED
          BY <2>1, <3>1, <3>2, <4>1, <5>2 DEF Promise!lvars
      <4>4. QED
        BY <4>2, <4>3
    <3>5. QED
      BY <3>3, <3>4
  <2>4. QED
    BY <2>2, <2>3
<1>9. CASE PaintMarks
  <2>1. presenter'.session = presenter.session /\ presenter'.produced = presenter.produced
    BY <1>0, <1>9 DEF PaintMarks, MarkPainted, TypeInv, TypeOK, PresenterOK
  <2>2. QED
    BY <1>9, <2>1, PictureAlone DEF PaintMarks
<1>10. CASE UNCHANGED vars
  BY <1>10, PictureAlone DEF vars
<1>11. QED
  BY <1>1, <1>2, <1>3, <1>4, <1>5, <1>6, <1>7, <1>8, <1>9, <1>10 DEF Next, Video, Paint

\* Every step of the player is a step the hand-over allows, or changes nothing the
\* user sees: the screen shows only frames of the running session, in the order they
\* were published, and is cleared of an earlier session's (that it catches up with
\* the newest frame is liveness, which TLC checks).
THEOREM PlayerKeepsOrder == Spec => Promise!LSafe
<1>1. Init => PictureInv /\ Promise!LInit
  <2> SUFFICES ASSUME Init PROVE PictureInv /\ Promise!LInit
    OBVIOUS
  <2>1. TypeInv
    BY InitTypeInv
  <2>2. TextureInv /\ ScreenInv /\ Promise!LInit
    BY DEF Init, Emptied, TextureInv, ScreenInv, Promise!LInit
  <2>3. QED
    BY <2>1, <2>2 DEF PictureInv
<1>2. PictureInv /\ [Next]_vars => PictureInv' /\ [Promise!LNext]_(Promise!lvars)
  BY PictureStep
<1>3. QED
  BY <1>1, <1>2, PTL DEF Spec, Promise!LSafe
=============================================================================
