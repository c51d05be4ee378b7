# A verification of the remote assistant

The repository is a remote-control system for Windows desktops. `ENET/` holds its
Linux servers, `ECloudAssistant/` the Qt client that is both the *device* (it is
controlled, captures its screen and publishes it) and the *controller* (it opens a
control window, plays the stream and sends mouse and keyboard packets).

This directory holds TLA+ modules of the system, the TLC configurations that
check them on small instances, and theorems checked by TLAPS.

## 1. Inventory

| Component | State | Operations | Hard because |
|---|---|---|---|
| SigServer (`ENET/SigServer`) | per connection: role, code, peers, forwarding target; the registry of codes | JOIN, OBTAINSTREAM, the reply to CREATESTREAM, DELETESTREAM, input, close | two parties' packets and departures interleave; replies carry no session |
| Signalling client (`Net/SigConnection`, `RemoteManager`, `AVPlayer`) | role, target, retries, stream counter, publishing | connect, join, retry, start and stop a stream, leave | stale packets of an earlier session, failed publishing |
| Network library (`ENET/EdoyunNet`, copied in `Net/`) | event loops, channels, buffers, timers | register, read, write, close, run timers | `try_lock` on the write path, close inside callbacks, timers added from another thread |
| RtmpServer (`ENET/RtmpServer`) | sessions, their publisher and players, per-connection state and the group-of-pictures cache | connect, createStream, publish, play, deleteStream, media, periodic cleaning | two loop threads share sessions |
| RTMP publishing client (`Pusher/rtmp`) | handshake/connect/publish state | handshake, results, send media, close | blocking open, callbacks of the loop thread |
| Publisher (`Pusher/RtmpPushManager`) | encoder threads, stop flags, active source | Open, Close, fall back, report failure | three threads and the GUI |
| Capture (`Pusher/capture`) | triple buffers, texture pool, latest sequence | init, produce, take, stop | buffers change hands between threads |
| Audio capture (`Pusher/capture`) | buffer of samples, recorder thread, audio client | init, read, write, close | overrun, a thread that ends by itself |
| Player (`Puller`, `Codec/AVDEMuxer`) | demuxer thread, queues, latest frame, session number | connect, start, play, publish a frame, paint, stop | four threads, sessions that end while notifications are queued |
| Codecs (`Codec`) | codec contexts | open, encode, decode, close | sequential: media data rather than control |
| LoginServer (`ENET/LoginServer`), login window (`UI/center/LoginWgt`) | accounts and their online flag in the database; a connection's account | log in, close, report the load; connect, click, read | a flag that outlives the process, packets that arrive together |
| LoadBanceServer (`ENET/LoadBanceServer`) | load reports of the login servers | report, choose | pointers into a connection's read buffer |
| Local player, widgets | GUI state | open, play, seek | asynchronous library signals |

What makes each correct: at most one control session has its input forwarded to a
device, both ends agree on it, and a departure at any step frees what was held
(signalling); what is written is eventually sent, and nothing is used after its
close (network); every player of a stream gets a decodable stream from its one
publisher, and none from a stream it did not ask for (RTMP server); the newest frame
reaches the screen, none of an earlier session does, and no buffer is read while it
is written (capture and player); an account is online exactly while its client is
(login).

## 2. The modules

| Module | Models | Role |
|---|---|---|
| `SigProtocol` | the packets of `SigServer/define.h`, TCP connections as two FIFO queues | component |
| `SigServer` | `SigServer/SigConnection`, `ConnectionManager` | component, EXTENDS `SigProtocol` |
| `SigClient` | the client's `SigConnection`, as a device and as a control window | component, EXTENDS `SigProtocol` |
| `SigSystem` | one server, its devices and windows; all signalling properties | composition |
| `ControlRight` | who may control a device, in the words of `context/CONTEXT.md` | abstract specification |
| `SigProofs` | | theorems about `SigSystem` |
| `RtmpServer` | the RTMP server's sessions under two loop threads; its properties | component |
| `RtmpProofs` | | theorems about `RtmpServer` |
| `FramePresenter` | `VideoFramePresenter` as functions on a record | operators |
| `Player` | `AVPlayer`, the video thread, `OpenGLRender`; its properties | component |
| `LatestFrame` | what a viewer is shown | abstract specification |
| `PlayerProofs` | | theorems about `Player` |
| `TripleBuffer`, `TexturePool` | the two ways frames change hands | operators |
| `AudioCapture` | `AudioCapture`, `WASAPICapture`, `AudioBuffer` | component |
| `Publisher` | `RtmpPushManager`, its threads and the capture threads; its properties | composition, EXTENDS the three above |
| `PublisherProofs` | | theorems about `Publisher` |
| `TcpConnection` | a connection used by several threads and its loop (`Net/TcpConnection`, buffers, `SelectTaskScheduler`) | component |
| `RtmpChunk` | writing and reading chunks (`rtmp/RtmpChunk.cpp`, both copies) | operators |
| `RtmpPush` | `RtmpPublisher`, the client's `RtmpConnection`, the threads that push, the server's end of the connection; its properties | composition, EXTENDS `TcpConnection`, `RtmpChunk` |
| `MessageChannel` | what a connection promises to its users | abstract specification |
| `ChunkProofs`, `ReadProofs`, `PushProofs` | | theorems about `RtmpPush`, each EXTENDS the one before |
| `LoginProtocol` | the packets of logging in, the window's connection | component |
| `LoadBance` | `LoadBanceServer` | component, EXTENDS `LoginProtocol` |
| `LoginServer` | `LoginConnection`, `ORMManager`, the link to `LoadBanceServer` | component, EXTENDS `LoadBance` |
| `LoginWgt` | the login window | component, EXTENDS `LoginServer` |
| `LoginSystem` | windows and both servers; the login properties | composition |
| `LoginProofs` | | theorems about `LoginSystem` |
| `MCSigSystem`, `MCRtmpServer` | instances for TLC | |

The modules without an MC module have only numbers and model values as parameters,
which their configurations give.

### Signalling

`c2s[x]` and `s2c[x]` are the packets on their way on connection `x`, `link[x]` the
state of its TCP connection (`"half"`: the client has closed, the server not yet).
The server's per-connection fields keep their names: `state`, `code`, `conn_`,
`objectes`; `registry` is `ConnectionManager::connMaps_`. The client has `cstate`
(its `state_`), `streamIndex`, `pushing`, `playing`.
A step is one handler with everything it calls: `Clear` tells every peer in the same
step, because the server has one event loop (`main.cpp`). Abstractions:

- Packets arrive whole and in order until the connection closes. A `Send` that fails
  in the middle of a handler closes the connection in line; that equals the handler
  followed by `DisConnected` of the peer, which is a step of its own here.
- A connection is a name that is used once. Reconnecting is another name with the
  same code (`CodesOf`).
- `by` on a packet and `session` on a device are history: the window a session is
  for. No guard reads them.
- No client in the repository sends `DELETESTREAM`, though the server accepts it;
  `Deleters` are windows that do.
- `AddressTaken` stands for the RTMP server's refusal of a name that is in use;
  `PushMayFail` lets publishing fail for every other reason.

### RTMP server

Handlers run on the loop (`LoopOf`) their connection was given. A step is what a
thread does between two acquisitions of a mutex; `th[l]` says where loop `l` is
inside a handler and `ServerFree`, `SessionFree` which mutexes are free. A
`weak_ptr` is a name with a liveness test (`SessionAlive`, `ConnAlive`). Media are a
sequence header, a key frame, a frame that depends on it, and audio; what a player
received is kept only as far as `Decodable` needs it. `Timer.cpp` adds timers to
another loop's queue without a lock: such a timer is kept or lost (`leaked`).
The code leaves two windows open, and so does the model: two loops in `HandlePublish` of
one stream, and the cleaner between a handler's `GetSession` and its `AddSink`. History
variables say whom they hit, the stream (`contested`) or the connection (`robbed`); no
guard reads them. A send that fails closes the player, as any error but EPIPE does:
`BufferWriter.cpp:59` does not suppress SIGPIPE, which ends the process.
A connection publishes or plays once. A session is its name and a number from `Ids`, of
which `RtmpAssumption` asks for more than there are connections, since `std::make_shared`
never runs out. Metadata and the AAC header are left out.

### Player

`at[t]` is the next statement of the loop's handler and of the GUI's, `video` and
`audio` the playing threads. The demuxer's reading thread and the decoder are one
step (`DecodesFrame`); the queue holds one frame, as in the code. A notification is
a Qt event: they are counted per session, since `OnNotified` looks at nothing else.
The shaders and sizes of a frame are left out. `PLAYSTREAM` may come at any time and more
than once: in `SigSystem` a window that obtained a device may also get the device's reply to
its predecessor. The second one replaces the objects of running threads, which
ends the process (`crashed`). `HandleStopStream` is not modelled, since only a controlled
end's `DELETESTREAM` calls it (`Net/SigConnection.cpp:286`): a window's player is stopped once,
by the GUI. `StopsAlone` says that the window is closed between two handlers of the loop.

### Publisher

`at[t]` is the next statement of the two threads that call `Open` and `Close`: the
signalling loop and the GUI (`HandleVideoPathFailed`). `then[t]` is what a `Close` or
`TeardownPipeline` returns to. `rung` is the path of `Init`'s ladder: `"gpu"`,
`"readback"`, `"gdi"`, `"camera"`. `exit` is `exit_`; `live` is what the threads ask,
`isConnect` and not `exit_`; `pusher_` goes with the encoders. The source's
thread, `capture`, delivers through `TripleBuffer` (GDI, camera) or a single slot
whose textures come from `TexturePool` (WGC); readback takes memory nobody refers to.
A frame is the number of its capture: `image[p]` is the frame that buffer or texture
`p` holds, so a write under a reader, or memory that is given back, shows as
`image[held] # got`. Abstractions: a source starts or fails in one step; reads that
fail in GDI change nothing; time stamps and statistics are left out; fields of a
source that was released are reset, since no thread may look at them.
`RebuildsAlone` says that a queued failure is handled before the loop's next
CREATESTREAM, and that the GUI's handler and the loop's do not overlap.

The sound is `AudioCapture`'s four variables: the client (`sound`), its thread
(`recorder`), the flag that keeps it going (`recording`) and what the buffer holds
(`samples`). `EncodersOpen` opens it, which starts the thread at once, so that the buffer
fills while `Open` waits for the server; `DropsEncoders` clears the flag and
`ClosesSound` waits for the thread. A recorder whose client fails ends and clears
the flag, and the stream goes on without sound. Samples are counted, a packet one
and a frame two; formats and the bytes of the buffer are left out.

### RTMP push

`TcpConnection` has the threads that use one connection: the loop, the thread `"open"`
(`RtmpPushManager::Open` and `Close`) and the two encoding threads. `at[t]` is the next
statement, `owner` holds `mutex_`; `HandleWrite`'s `try_lock` fails while another thread
has it, and while one is about to append. `queue` is `write_buffer_`, `c2s` and `s2c` what
is on its way, at most `Room` units, so that a write may be partial; a read takes any
part of what has come. `link` tells a server that has closed (`"fin"`, which the
client reads as nothing) from a reset one.
`RtmpChunk` cuts messages into units: a basic header, a message header, pieces of a
payload. Its reader (`Parse`) keeps the state of `RtmpChunk.cpp` for each chunk stream,
and `HandleChunk` is the loop of both ends' `OnRead`. A message is told by what it
says, its chunk stream and its length in pieces; a reader out of step sees `Garbled`.
Both ends' `RtmpConnection` are records, `client` and `svr`, with the handshake's state;
the server handles what a read brought in one step, and what it does with sessions
and players is in `RtmpServer`. Its connection is complete from the start, but in
`SpecWhileBuilding`, where the constructors run beside the loop that reads.
`dropped` is history: a packet found the queue full. `RefusedAlone`, in `TypeOK`, says that
the client's callback gives up only while no other thread is about to write. `DisConnects` and
`Drops` may find the loop in a handler of the connection, or another thread sending: memory
stays as it was, and behaviours that end there in a crash are prefixes of these.
The server answers nothing while frames are pushed, so the loop's reads seldom hold `mutex_`
then. What is not claimed: that the AAC header goes before the sound; that a client refused for a taken
name learns it from the status rather than from the server's close.

### Login

A window is one run of the program, with one connection (`peer`, `up`, `requests`,
`replies`), first to `LoadBanceServer`, then to the login server that one names. An
account stands for its code; `Wrong` for an unknown account and for a wrong password.
`Login_Info` and `UserLogin` have the same command, so a server handles either as its
own, and a short packet is read with what is behind it: at the start of the buffer the
credentials that an earlier read left there (`memory`), unless other short packets were
read over them, elsewhere pieces of packets, which are taken to be nobody's credentials (`Given`).
The check of the packet's time may fail at any time; `LoadBanceServer` then answers an error,
which the window only logs. One packet is handled for each read of any number
(`OnRead`, `HnadleLogin`). `monitorInfos` is the set of entries, `"live"` or `"dangling"`: the
second, and the missing one, are undefined behaviour, an answer that names any server
or the process's end. `online` is the database, which survives `SvrCrashes`; `failed` and
`crashed` are history. LoginServer's loop is one thread, so a handler is a step. A read
buffer grows to 100 MB (`MAX_BUFFER_SIZE`), which unhandled clicks are taken not to fill.

## 3. The runs

| Run | Bounds | Distinct states | Result |
|---|---|---|---|
| `SigSessions` | a device, its successor under the same code, 2 windows with colliding codes, 1 retry, 1 input each | 896,280 | holds |
| `SigLiveness` | 1 device, 2 windows that may also delete, 3 retries, publishing works | 30,980 | holds |
| `SigCreateMeetsIdle` | 1 device, 3 windows, publishing may fail | - | violated: finding 1 |
| `RtmpSessions` | publishers on loops 1 and 0, a player on loop 1 | 170,574 | holds |
| `RtmpCleanerStalls` | publisher on loop 1, player on loop 0 | - | violated: finding 2 |
| `PlayerSessions` | 3 frames of a stream, 4 resets | 22,995 | holds |
| `PlayerStopMeetsStart` | the window closes any time | - | violated: finding 3 |
| `PublisherSessions` | 3 frames of a source, 2 calls of Open | 593,994 | holds |
| `PublisherRebuildMeetsStop` | handlers overlap | - | violated: finding 4 |
| `RtmpPush` | 3 sending threads and the loop, 3 packets queued, 3 units on their way, 2 pictures, 1 sound | 113,500 | holds |
| `RtmpReadsTooEarly` | the same while the server's connection is built | - | violated: finding 5 |
| `LoginSessions` | 2 windows, 1 account, 3 clicks, 2 faults | 228,106 | holds |

**What they show.** `SigSessions`: the registry names the right connection through
refused joins and departures (`RegistryConsistent`); one window's input reaches a
device (`SingleController`) and the device counts that window (`ControlIsMutual`);
input is read in the session it was sent for (`InputsBelong`); every step of the packets
is a step of `ControlRight` (`ImplementsControlRight`), with a device's right seen through
`holder`. `SigLiveness`: a granted session starts or ends, a device nobody controls
stops publishing, an abandoned device can be obtained again, whether its windows leave or send
DELETESTREAM and stay.
`RtmpSessions`: no player's decoder gets a frame before what it depends on
(`Decodable`), unless two loops were in `HandlePublish` of the stream at once; a client
that was told to start is in the session of the map and stays there, and a publisher is
its publisher (`SessionKept`), in spite of the cleaner and of its predecessor's late `RemoveSink`,
but for the two windows above; a name becomes free (`PathFreed`), unless the cleaner and a
loop have stopped each other, which is finding 2.
`PlayerSessions`: exactly one notification is under way when the flag says so
(`OneNotification`); the screen is a `LatestFrame` (`ImplementsLatestFrame`); a window that is
told to play once starts and closes without a thread replaced or a demuxer gone before its users
(`OneStreamIsSafe`); `Close` returns. `PublisherSessions`: the three indices stay different; no thread object
is replaced; source, encoders, audio client and device outlive their users; a frame
is intact while it is encoded and is the newest there is; three textures are enough;
an idle device holds nothing; `Close` returns.
`RtmpPush`: whatever the threads interleave, and wherever writes and reads cut, the
server's reader gets the messages that were accepted, whole, once and in order
(`ImplementsMessageChannel`), media after the server has let the stream be published, and
headers before key frames before pictures unless a full queue dropped packets
(`HeadersFirst`); a packet in the queue is written in spite of `try_lock` (`QueuedIsSent`);
who asks to publish is answered (`PublishAnswered`). `LoginSessions`: the flag in the database says who is logged
in, but for a crash or a query that failed (`FlagFollowsSession`); no account is used
by two windows (`OneSession`) and a window that goes frees its account
(`AccountFreed`); a click gets an answer, be it an error, though packets that arrive together
are handled one for each read (`LoginAnswered`).

**Bounds.** Two windows and one code shared by two devices give every pair of
connections that a JOIN can collide with; with one device they give a session that ends and one that
begins while its packets are under way. `SigCreateMeetsIdle` needs a third, whose reply is confused with
theirs. Two publishers on the two loops meet in `HandlePublish`, and follow each other, so that a
late timer of the first meets the second; the cleaner is on one of these loops, the player
on the other. `GetTaskSchduler` deals loops in turn, so these are the loops of the
first three connections. Three frames
fill three buffers and the pool; two Opens give a stream and its rebuild, or the next
stream, and an idle device is as it was at first (`NothingLeft`), so that a third would
begin as the first did. Three units hold one short message, so that a longer one, or one
behind another, is written in parts; three queued packets are fewer than a first
picture's three beside a sound. Two faults let a server end and start again around a
query that fails; three clicks let two requests follow a login's and reach the server
together. The presenter is reset when the window closes and at each of three PLAYSTREAMs, of
which the second ends the process or meets the closing window. Every bound is
a named CONSTANT that appears in a guard. Symmetry is used where only invariants, or the
step formula of a refinement without fairness, are checked. `CHECK_DEADLOCK FALSE`:
connections are used once and users may stop, so the systems may come to rest; what must
not stop is in the liveness properties.

**Fairness.** The server's loop and the clients' keep reading (weak fairness of each
connection's handler); users do nothing for certain. The RTMP server's two loops serve
every due timer and ready socket in each turn, and a thread that waits for a mutex gets
it if it is freed again and again (strong fairness of `Continues`, `NextTimer`, and for
`RtmpCleanerStalls` `Closes` and `CleanStarts`); clients owe nothing. Threads of the player and the publisher
go on when they can; Qt delivers posted events and a paint that was asked for, with the
window exposed; a capture thread that was told to stop ends (a camera's when its next
frame comes), but frames need not come: `CloseReturns` holds without them; a recorder
that was told to stop ends. `RtmpPush` adds that the thread which waits for a
connection's `mutex_` gets it if it is freed again and again (strong fairness of
`Thread`); neither frames, nor the user, nor the time-out of five seconds need come. The
login servers' loops and the windows go on reading (weak fairness of each connection's
handler); users, reports, crashes and starts owe nothing.

**Mutants.** Each property has a mutated definition with which TLC finds it violated.
The mutants stand in the modules before what they replace, marked as such.

## 4. What is proved

Each theorem holds for every value of the constants that the named assumptions allow.
Every proof has the same frame: an invariant that the initial states satisfy and
every step keeps, and that implies what is claimed.

**Signalling** (assumptions of `SigProtocol`, `SigClient`, `SigSystem`).
`TypeCorrect` and `RegistryIsConsistent` follow from `TypeInv`: types
alone are not inductive, since a handler looks a code up, so it adds which
connections have a code (`CodesAssigned`) and the registry. `ControlIsKnownToTheDevice`
and `OnlyOneController` follow from `ControlInv`, which adds that a controlled device
counts its controller and has one: a grant requires the target to count nobody, so
mutuality gives exclusion. The lemma `ControlStep` says of each handler which
forwarding relations it may make or break.

`ServerImplementsControlRight`: the refinement of `ControlRight`, in full (it has no
fairness). `ControlInv` does not suffice, since nothing in it keeps a device from
asking for a code, or a window from being asked for, and then one step could take two
devices back. `RightInv` adds who sends what (`ClientsKeepRoles`: only windows obtain, only
codes that a user may enter) and what the server makes of it (`ServerKeepsRoles`: session
codes find no device, a device has one peer at most). `StepGivesOrTakes`: every step gives
one free device to one window without any, or takes the control of one window at most.

`InputsNeverInterleave`: an input is read in the session of the window that sent it.
`InputInv` adds to `RightInv` that the queue to a device *governs* each input in it
(`InputsGoverned`: between the CREATESTREAM of its window and the input there is no other
CREATESTREAM, nor a DELETESTREAM that leaves nobody), that the queue's end governs for the
present controller (`HolderGoverns`), and that the link of a device the
server has closed is down (`LinksFollow`). `Governs` says without CHOOSE what `SessionAt` chooses, so that
packets can be added at one end (`GovernsAppend`) and read at the other
(`GovernsTail`).

**RTMP server** (`RtmpAssumption`), for any connections and streams on any loops.
`RtmpTypes` follows from `Shape`: what
a thread's locals are while it is in a handler, that a session's sinks are connections
that have joined it and no other, that a pending `RemoveSink` is of a connection that
has been closed. `StreamDecodable` and `SessionsKept` say what still holds where the code
leaves a race: a player is sent nothing it cannot decode, unless two loops were in
`HandlePublish` of its stream at once, and the cleaner does not matter to that; a client keeps its
session, unless the cleaner erased that one session while this client joined it. The invariant
adds `Kept` (who was not robbed has the session of the map, also before `AddSink`), `Ownership`
(of a stream that is not contested, one loop is in `HandlePublish`; a session's publisher is
the one that claims it, and whoever has passed the check finds no other claim where it joins, though a
robbed publisher and its successor may have sessions of their own) and `Decoding` (what a
player's decoder has, in terms of the publisher's headers and of the frame that the thread
is sending). They rest on `StayDead`, a connection that nothing keeps alive is never alive again, so
that `publisher_.lock()` does not revive one, and on `StayLost`, the same of sessions.

**Player**. `TypeCorrect`, `OneNotificationAtATime` and `PlayerKeepsOrder`, with a stop
on any thread at any time, for any number of frames and of PLAYSTREAMs;
`StoppedThreadsFirst`, which is `OneStreamIsSafe`, assuming `StopsAlone`, without which
it is false (finding 3). `LifeInv` says which threads there are at each statement of the
loop's handler and of `Close`; of a second PLAYSTREAM nothing is claimed but that it
leaves no thread with a demuxer that is gone. `PlayerKeepsOrder` is the safety half of
`ImplementsLatestFrame`: `PictureInv` says that a texture of the running session is
one that was published, and not older than the screen's.

**Publisher**. Under `RebuildsAlone`, which finding 4 shows to be necessary, for any
number of frames and of calls of `Open`: `PublisherTypes`, `ThreadsJoined`,
`UsersCollected`, `FrameIntact`, `PoolNeverExhausted`, `NothingStays`, and the action
property `NewestTaken`. They are parts of one invariant or follow from it. `Control`
says what exists at each statement of `Open` and `Close`; it needs that the GUI's
handler runs only for a device that publishes (`Roles`), since that is why a rebuild does
not follow the end of the stream it rebuilds. `Frames` says where the newest frame
is: in the middle of the three buffers and older than the back one while GDI or a
camera delivers, in the slot and not older than the last texture with WGC. That the
pool never runs out is a count: at most two textures are referred to when the third is
taken (`OneLeft`).

**RTMP push** (`TcpAssumption`, `RtmpPushAssumption`, and `NoneAssumption`: the empty
slot of a reader is no message), for any write queue, socket buffer and number of frames.
`TypesHold` and `HeadersComeFirst` follow from `PushInv`. What the server has handled
is not inductive: it depends on every byte that is still under way, and the client's
requests on the server's answers under way to it. So the invariant says what all these
bytes are.

- `Upstream`: the server's buffer, the wire and the write queue together are, cut
  anywhere, the rest of a message that the server's reader has begun and the packets
  of whole messages P; with the packets that the video thread (V) and the loop (L) have in hand
  they are `Sane`: no media before the stream is accepted, and as long as no packet was
  dropped, after what the server has handled headers before key frames before pictures.
  When the handshake is not over, its bytes come first (`Knocking`, `Entering`); when
  a full queue has dropped SetChunkSize, the server reads the next long message with the
  wrong chunk size and closes (`Broken`).
- `Downstream`: the same of the client's reader and the server's answers; a Start on its way
  is of an accepted stream, a BadName of a name that is taken.
- `Answers`, `Opening`: no frame before the client is told that it publishes; C0C1
  leaves before anything else; the callback fails only for a stream that was never accepted.
  From these `RefusedAlone`, a conjunct of `TypeOK`.
- `InOrder`: what the server has handled is in order, which is `HeadersFirst`.
- `Shape`, `Resting`, `Hands`: ranges, connections outside of `OnRead`, and which
  threads have packets in hand.

The reader's loop and the write queue are folds over sequences. `ChunkProofs` proves by
induction over the turns (`Steps`, from the well-foundedness of the natural numbers) that
a fold of the specification is a run of its turns (`ServerChunkRuns`, `ClientChunkRuns`,
`WrittenIs`), and what `Parse` makes of any
cut of a stream of packets (`Carries`, `Outcome`). `ReadProofs` goes from there to a whole
read at either end: what it delivers, answers and leaves in the buffer. `PushProofs` has one
lemma for each action. Before it was proved, TLC checked `PushInv` as an invariant of
`RtmpPush` with the bounds of the run and with a queue of one packet and a socket of four units,
where packets are dropped and streams break.

`ChannelIsImplemented`: `RtmpPush` implements `MessageChannel`, whenever the connection is let go of.
A step that queues a packet accepts its message, a read of the server delivers the messages
that end in it (`TransitMoves`, `ServerReadsPasses`), closing loses what is queued, and every
other step stutters. `PushInv` does not give that: it admits a reader that has the wrong chunk
size, which delivers too little, so a second invariant, `ChannelInv`, excludes it.

- `InStep`: before anything is handled, the first message under way is SetChunkSize, and no
  message is half read while the size is not known.
- `Early` and `AsksFirst`: so the first packets after the handshake must find room in the queue.
  They do: until the client has asked, no other thread sends (`LoopAlone`), and the client gets
  nothing but the handshake's packet before it has sent C2 (`Welcome`), when the queue is empty
  (`Knocked`); after C2, which every queue has room for, `WritesC2` and
  `OwnerWorks` (`mutex_` is held only while a thread reads or writes) empty the queue before
  SetChunkSize is queued. TLC checked `ChannelInv` with queues of one and two packets.

`Ended`, the messages in a stretch of the stream, is a fold too: those of two stretches are
those of the first and those of the second (`EndedJoins`), and a packet has one (`EndedPacket`).

**Login** (`LoginAssumption`: clicks are a number, `Wrong` and `None` are no accounts), for any
windows, accounts, clicks and faults: `LoginTypes`, `FlagCorrect`, `AccountExclusive`.
A short request is read with what an earlier one left in the buffer, so that types and
sessions are not inductive: a repeated login must be known to be the
connection's own. `Remembered` says that the UserLogin is the first packet of its
connection, and that who is logged in is the one whose credentials the buffer holds;
`Matched`, that nothing but results comes back to a window that logs in.

**Only model-checked.** Liveness (`GrantedSessionStarts`, `FreeDeviceStops`,
`AbandonedDeviceIsObtainable`, `PathFreed`, both `CloseReturns`,
`QueuedIsSent`, `PublishAnswered`, `AccountFreed`, `LoginAnswered`, and the fairness of
`LatestFrame`): the prover has neither ENABLED nor fairness rules.

## 5. Findings

1. `CreateMeetsIdle`. The device's reply to CREATESTREAM names no session and is
   applied to whoever its peers are when it arrives (`SigServer/SigConnection.cpp:283`).
   A window that leaves early lets a later session be refused by its predecessor's
   error, or started by its success; then the device stays PUSHER and drops the next
   CREATESTREAM.
2. `CleanerRepeats`. A send that fails closes the player in line, under the session's
   mutex, and asks for the server's; the cleaner takes them in the other order.
3. `NoCrash` of the player. The window's `Close` on the GUI thread releases the
   demuxer between `HandleStartStream`'s check and its use.
4. `SourceOutlivesVideo`. The GUI's rebuild overlaps the loop's `Open` or `Close`: the one
   releases the source after the other has started a video thread that reads it.
5. `NoBadWeakPtr`. `TcpConnection`'s constructor registers the socket with a loop that is not
   the acceptor's; a client that writes at once is read before the connection is owned
   by a `shared_ptr`, and the callback's `shared_from_this()` throws, which ends the server.

Observed while modelling, without a run of their own:

- Stream addresses are counted per client process (`Net/SigConnection.cpp:253`), so two
  devices ask the RTMP server for the same name and the second is refused.
- Two publishers on different loops pass `HandlePublish`'s check before either is registered
  (`RtmpConnection.cpp:376`), and a player may then get pictures of the one after headers of the other.
  The cleaner may take a session out of the map between `GetSession` and `AddSink` (line 480);
  its publisher is in a session that nobody finds, and a second publisher of the stream is
  accepted. Both happen in `RtmpSessions`, where `contested` and `robbed` record them; without
  these exceptions TLC finds `Decodable` and `SessionKept` violated.
- A window that is sent a second PLAYSTREAM ends its process: `AVPlayer.cpp:269` and the lines after it
  replace running threads. `SigSystem` has windows that are sent two.
- A connection that is let go of while its loop is in `HandleWrite`, or another thread sends,
  may register its closed socket again after `RmoveChannel` (`Net/TcpConnection.cpp:56`).
- LoginServer ends by SIGPIPE when LoadBanceServer is gone; the online flag then stays set
  and the account is refused (`FlagFollowsSession` allows it by `crashed`).
- The main window shows the account field of the moment the reply comes, not the one that
  was sent.
- The audio buffer of 20480 bytes cuts a packet at a byte, which exchanges the channels of
  5.1 sound; COM is initialised on the thread that opens a stream and uninitialised
  on the one that closes it (`WASAPICapture.cpp:38`).

## 6. What is not modelled, and the plan

Modelled: signalling, RTMP server, player, publisher with capture and sound, the push
of media over one connection, logging in. Next:

1. The timer queue's two maps and the lifetime of the server's connections: what their races
   do is undefined and would be a choice over everything.
2. Packets of the signalling protocol in pieces.
3. Several players, with their number as a bound, where the liveness check allows it.

Not planned: AMF and the handshake's bytes (formats), the codecs (calls into FFmpeg and
D3D11 whose control is sequential), registering and destroying accounts (no client
asks for them), `TCPServer` (an echo sample nothing uses), the local player and the
widgets but the login window (library signals and layout).
