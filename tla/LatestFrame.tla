----------------------------- MODULE LatestFrame -----------------------------
(* What the hand-over between decoding and painting promises, whatever the   *)
(* threads between them do: the screen shows only frames of the session that *)
(* runs, in the order they were published, skipping but never going back; a  *)
(* newer frame is shown in the end, and the picture of a session that has    *)
(* ended is taken off the screen.                                            *)
EXTENDS Naturals

CONSTANT Blank       \* a screen without a picture

VARIABLES session,   \* the number of sessions that were begun or ended
          newest,    \* the number of frames published in this session
          screen     \* Blank, or the session and number of the frame shown

lvars == <<session, newest, screen>>

LInit == session = 0 /\ newest = 0 /\ screen = Blank

Shown == IF screen # Blank /\ screen.session = session THEN screen.seq ELSE 0

Publish == newest' = newest + 1 /\ UNCHANGED <<session, screen>>

Show == /\ \E q \in (Shown + 1)..newest : screen' = [session |-> session, seq |-> q]
        /\ UNCHANGED <<session, newest>>

Clear == /\ screen # Blank
         /\ screen.session # session
         /\ screen' = Blank
         /\ UNCHANGED <<session, newest>>

Reset == session' = session + 1 /\ newest' = 0 /\ UNCHANGED screen

LNext == Publish \/ Show \/ Clear \/ Reset

LSafe == LInit /\ [][LNext]_lvars

LFair == WF_lvars(Show) /\ WF_lvars(Clear)

LSpec == LSafe /\ LFair
=============================================================================
