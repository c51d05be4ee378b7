----------------------------- MODULE AudioCapture -----------------------------
(* The sound of a stream: AudioCapture, the WASAPICapture it keeps, and the   *)
(* AudioBuffer between them.  A thread of the WASAPICapture, the recorder,    *)
(* writes packets to the buffer, which drops what does not fit; the audio     *)
(* encoding thread reads whole frames from it.                                *)
EXTENDS Naturals

VARIABLES
    sound,     \* audio_Capture_, whose audio client is initialised
    recorder,  \* m_threadPtr: absent, running or finished
    recording, \* m_isEnabeld
    samples    \* what the buffer holds

soundVars == <<sound, recorder, recording, samples>>

\* Samples in a packet, in a frame of the encoder, and what fits into the buffer.
Packet == 1
Frame == 2
Room == 2

SoundInit == sound = FALSE /\ recorder = "absent" /\ recording = FALSE /\ samples = 0
-----------------------------------------------------------------------------
(* The operations of AudioCapture.                                            *)

\* WASAPICapture::init, which releases what it has acquired when a step fails.
ClientOpens == sound' = TRUE

\* start sets the flag and makes the thread; the one before has been joined.
RecorderStarts == recorder' = "runs" /\ recording' = TRUE

\* AudioCapture::Init
SoundOpens == ClientOpens /\ RecorderStarts /\ samples' = 0

\* stop clears the flag before it joins the thread...
RecorderIsTold == recording' = FALSE /\ UNCHANGED <<sound, recorder, samples>>

\* ...and the client and the buffer go when the thread has been joined.
SoundCloses == /\ recorder \in {"absent", "finished"}
               /\ recorder' = "absent"
               /\ sound' = FALSE /\ samples' = 0
               /\ UNCHANGED recording

\* GetSamples and Read of a frame.
ReadsFrame == /\ samples >= Frame
              /\ samples' = samples - Frame
              /\ UNCHANGED <<sound, recorder, recording>>
-----------------------------------------------------------------------------
(* The recorder.                                                              *)

\* AudioBuffer::write
Written(amount) == IF samples + amount < Room THEN samples + amount ELSE Room

\* capture() hands on packet after packet, also when the flag is cleared meanwhile.
RecordsPacket == /\ recorder = "runs"
                 /\ samples' = Written(Packet)
                 /\ UNCHANGED <<sound, recorder, recording>>

\* A call of the audio client fails: the thread ends and clears the flag itself.
RecorderFails == /\ recorder = "runs"
                 /\ recorder' = "finished" /\ recording' = FALSE
                 /\ UNCHANGED <<sound, samples>>

\* The loop's condition fails.
RecorderEnds == /\ recorder = "runs" /\ ~recording
                /\ recorder' = "finished"
                /\ UNCHANGED <<sound, recording, samples>>

Recorder == RecordsPacket \/ RecorderFails \/ RecorderEnds
-----------------------------------------------------------------------------
SoundOK == /\ {sound, recording} \subseteq BOOLEAN
           /\ recorder \in {"absent", "runs", "finished"}
           /\ samples \in 0..Room

\* The client is not released under the thread that reads it, and a flag that is
\* set has a thread: a later start would otherwise take it for one that runs.
RecorderKept == /\ recorder = "runs" => sound
                /\ recording => recorder = "runs"
=============================================================================
