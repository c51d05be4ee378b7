----------------------------- MODULE TripleBuffer -----------------------------
(* The three frame buffers of GDIScreenCapture and CameraCapture.  The        *)
(* capture thread fills "back", the encoder thread reads "front", and each    *)
(* trades its buffer for "middle" under the mutex.                            *)
EXTENDS Naturals

Buffers == 0..2

\* Init and Close put the indices back.
Started == [front |-> 0, middle |-> 1, back |-> 2]

\* Mutant: the encoder is notified and nothing is handed over.
KeptBack(b) == b

\* Decode, after the copy: what was written is handed over.
Delivered(b) == [front |-> b.front, middle |-> b.back, back |-> b.middle]

\* Mutant: the encoder reads the buffer handed over and leaves it where it is.
TakenInPlace(b) == [front |-> b.middle, middle |-> b.middle, back |-> b.back]

\* WaitLatestFrame: what was handed over is the encoder's until its next call.
Taken(b) == [front |-> b.middle, middle |-> b.front, back |-> b.back]
=============================================================================
