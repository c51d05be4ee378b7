---------------------------- MODULE FramePresenter ----------------------------
(* VideoFramePresenter: the newest decoded frame and one notification, handed *)
(* from the playing thread to the painting thread.  Its fields are read and   *)
(* written under one mutex, so each method is one step; the methods are       *)
(* operators on the record of its fields.                                     *)
EXTENDS Naturals

NoFrame == 0     \* a null AVFramePtr; a frame is named by the stream it comes from

Emptied(session) == [latest |-> NoFrame, session |-> session, produced |-> 0,
                     taken |-> 0, painted |-> 0, pending |-> FALSE]

Publish(p, frame) == [latest |-> frame, session |-> p.session, produced |-> p.produced + 1,
                      taken |-> p.taken, painted |-> p.painted, pending |-> TRUE]

\* Publish's result: a notification must be posted.
MustNotify(p) == ~p.pending

\* Mutant: a notification left over from an earlier session clears the flag.
OnNotifiedOfAny(p, session) == [p EXCEPT !.pending = FALSE]

OnNotified(p, session) == IF session = p.session THEN [p EXCEPT !.pending = FALSE] ELSE p

HasNewFrame(p) == p.latest # NoFrame /\ p.produced # p.painted

TakeFrameForPaint(p) == IF HasNewFrame(p) THEN [p EXCEPT !.taken = p.produced] ELSE p

\* Mutant: a frame of an earlier session counts as painted in this one.
MarkPaintedOfAny(p, seq, session) == IF seq > p.painted THEN [p EXCEPT !.painted = seq] ELSE p

MarkPainted(p, seq, session) ==
    IF session = p.session /\ seq > p.painted THEN [p EXCEPT !.painted = seq] ELSE p

Reset(p) == Emptied(p.session + 1)
=============================================================================
