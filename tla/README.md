# Verification of VRC Stream Haven

TLA+ modules, TLC configurations and TLAPS proofs about the Go program in
`src/`. Paths below are relative to the repository; `circularBuffer.go:130`
means `src/buffer/circularBuffer.go`, line 130, and so on.

## 1. The system

A *flagship* receives one SRT stream from a publisher, keeps the last ten
seconds of it, sends its packets on to *escorts* (other machines that run the
same program), and serves viewers over HLS or redirects them to the closest
escort. An escort does the same with the flagship as its publisher.

    publisher --SRT--> srt.connection --packets--> Haven reader --> demuxer
                                            \--> escorts               |
                                                               frames  v
    viewers <--HLS-- hls.Connection <-- subBuffer <-- ring <-- Haven writer

| Component | State | Operations | Modules |
|---|---|---|---|
| Ring of frames (`buffer/circularBuffer.go`) | slots, write position, map of subscribers with two channels each, a context, a wait group | `Write` and its `broadcast`, `ReadFromPos` and its goroutine, `removeSubscriber`, `Close` | `CircularBuffer`, its promise `FrameFeed` |
| Sub-buffer (`buffer/subBuffer.go`, `types/orderedMap.go`) | the ring, the index of key frames, newest and first time, format, ready flag | `writeVideo`, `writeAudio`, `SubscribeOffset`, `SubscribePTS`, `subscribe`, `Close` | `KeyFrameIndex`, `ViewerStream` |
| Audio and video buffer (`buffer/buffer.go`) | two sub-buffers | `Write`, `Subscribe`, `Close` | `ViewerStream` |
| Haven (`haven/handler.go`) | publisher, buffer, demuxer, escorts, viewers, three locks, a context, a wait group | `AddConnection`, the monitors, `clearPublisher`, reader and writer goroutines, `GetClosestEscort`, `Close` | `Haven`; its sides towards the servers in `HlsServer` and `SrtLink` |
| HLS connection (`protocols/hls/connection.go`) | the muxer, its tracks, a context, a wait group | `Write` (`extractMetadata`, `primeMuxer`, `handleFrames`), `HandleHTTP`, `Close` | `HlsConnection` |
| HLS server (`protocols/hls/server.go`) | the one shared connection under `connMtx` | `ServeHTTP`, the goroutine that forgets the connection, `Close` | `HlsServer` |
| Demuxer (`multiplexer/`) | an input pipe, a channel of frames, the last timestamps | `StartDemuxer` and its two goroutines, timestamp unwrapping, AAC splitting, `Close` | `Demuxer`, `Timestamps`; a bounded channel in `Haven` |
| SRT connection and server (`protocols/srt/`) | socket, read channel, context; `acceptCh` | read loop, `Dial` with its retries, accept, handler, `WritePacket`, `Close` | `SrtLink`; a context in `Haven` |
| Geo locator (`geo/locator.go`) | the files of the database, the open one | choice, removal, download, opening, `Close` | `Locator` |
| Frames (`buffer/frame.go`) | pooled byte slices | `Clone`, `Decommission` | not modelled: a frame is its number |
| `types/`, `cmd/` | configuration | start-up | no state of their own |

How they interact:

- The Haven's reader goroutine sends packets to the demuxer's channel, and
  drops them when it is full; its writer receives frames from the demuxer and
  calls `buffer.Write`. Both use the fields
  `h.publisher`, `h.demuxer` and `h.buffer` without a lock.
- `addViewer` subscribes a connection to the buffer and hands it two channels.
  Behind each are a ring goroutine (history, then live) and a sub-buffer
  goroutine (prebuffer, then live); the HLS connection adds a relay and one
  goroutine per track.
- The HLS server asks the Haven for the closest escort, and calls
  `AddConnection` for a first viewer with `connMtx` held.
- A publisher's monitor goroutine runs `clearPublisher` when the publisher's
  context is done. It closes escorts, viewers, buffer and demuxer in this
  order, with `publisherMtx` held throughout.
- An escort's read loop dials the flagship again when it reads EOF; the new
  connection goes to `AddConnection`, which refuses it while the old session is
  there.
- `Close` at every level cancels a context, waits for a wait group and then
  takes the locks.

What is hard:

- The hand-over of a subscriber from history to live frames while the writer
  goes on, and its departure while the broadcast is on its way to it.
- The write position, which is both the end of the history and the oldest slot.
- An index of key frames that is never cut when the ring wraps, read under one
  lock and used under another.
- Two tracks looked up one after the other in two rings that go on.
- Sessions: the goroutines of a publisher that has gone run on while the
  session is cleared or the next publisher arrives.
- One shared HLS connection that requests, its own goroutine, the session's
  end and `Close` all take from one another.
- Every `Close` waits for goroutines, some of which block on channels, one of
  which sleeps on a condition variable.
- Two machines with their own view of whether a link is there.
- A clock that wraps under reordered pictures and two interleaved tracks.
- A database that is replaced in place by a process that may be killed.

What makes each component correct:

- *Ring*: a subscriber sees frames in order, none twice, none silently missing;
  a slow consumer delays nobody; no send on a closed channel; `Close` returns.
- *Sub-buffer and buffer*: a viewer starts on the key frame closest to the
  offset asked for; its two tracks start together; its history is whole and
  comes at once; each track is a feed as the ring promises it.
- *Haven*: one session at a time, buffer and demuxer belonging to the
  publisher; those who have gone are removed, those served are listed;
  sessions end; `Close` returns.
- *HLS connection*: no frame is lost in the search for the metadata; `Write`
  and `Close` return.
- *HLS server*: one connection, which shows the session there is; every request
  is answered.
- *Demuxer*: frames come out in order; no wake-up of the parser is lost;
  `Close` returns and the consumer ends; timestamps never jump.
- *SRT*: one goroutine of an escort looks for the flagship, and finds it again.
- *Locator*: a good database survives failures, and the flagship starts again.

The hazards are listed line by line in `PROJECT.json`, with the properties that
cover each one.

## 2. Plan

Everything planned is modelled: `CircularBuffer` and `FrameFeed`,
`KeyFrameIndex`, `Haven`, `HlsConnection`, `Demuxer`, `Timestamps`, then
`ViewerStream`, `HlsServer`, `SrtLink` and `Locator`, and every safety property
a run checks is proved. Left to do: a proof that the bounded channel of frames
in `Haven` is what `Demuxer` gives its consumer, and that the outcomes of
`AddConnection` in `HlsServer` are those of `Haven`; the two models now agree by
construction only.

## 3. Modules and code

Each `MC` module gives one model its values for TLC; each `...Proofs` module
holds the theorems about one model, `HlsProofs` those about `HlsConnection` and
`HlsServer`, and `FlagshipProofs` those about `Locator` and `SrtLink`. The
names of `HlsConnection` begin with `Conn` and those of `Locator` with `Db`
where they would be the same as the other model's.

### CircularBuffer and FrameFeed

Frames are numbered in the order of `Write`; a clone is the same frame. The
slots, `writePos` and the map `subs` are the code's. A subscriber's channels
are kept as all the frames they ever accepted and the number received, so that
properties can speak of the whole past.

| Action | Code |
|---|---|
| `Write`, `Offer`, `AbandonBroadcast` | `Write` 79-97 with the loop of `broadcast` 50-65. `mtx` is held from the store to the last offer, which is the time where `offers` is not empty |
| `ReadFromPos`, `Snapshot` | 116-143: the goroutine copies the history and registers its live channel under `mtx` |
| `SendHistory`, `HistorySent`, `TakeLive`, `SendLive` | 144-188; a full egress channel skips the frame |
| `Leave`, `RemoveSubscriber` | the context cases and the deferred `removeSubscriber` 67-77 |
| `CloseCancel`, `CloseWaited`, `CloseFinish` | `Close` 191-209, in three steps |
| `Receive`, `UpstreamDone` | the consumer and the viewer's connection |

A send on a closed channel is not a step of the model. `NoUseAfterClose` says
that nobody is ever about to make one, except the goroutine of a `ReadFromPos`
called between `Close`'s wait and its locks (the set `late`), which nothing in
the ring prevents; in the program the caller would have to hold a buffer that
`clearPublisher` is closing.

`FrameFeed` is what the ring promises: a reader that joins is owed the newest
frames without a hole, then every new one; it gets them oldest first; one that
is lost to it is never given later. `Feed` in `CircularBuffer` maps what the
history, the two channels and the running broadcast hold together to what is
due.

### KeyFrameIndex

A frame is its time and whether it holds an IDR picture. `StoreFrame` and
`IndexFrame` are the two critical sections of `writeVideo` (82-153): the ring's
and the index's. `LookUp` is `SubscribeOffset` with `getClosestKeyFramePos`
(194-204, 315-343); `CopyRing` is the later read of the ring. The loop of
`getClosestKeyFramePos` is written as the index it stops at. `Set`, `Drop` and
`Keys` are those of `OrderedMap`. Left out: the 8-second timer, which only
changes the error returned, and errors of format detection.

### ViewerStream

`Subscribe` (`buffer.go:54`) as a program counter `call`: `Ask` is the check of
readiness in `SubscribeOffset` and `SubscribePTS`, `LookUpVideo` and
`LookUpAudio` find the start, `OpenRing` calls `ReadFromPos`, and `TakeFirst`
waits for the first frame (`subBuffer.go:213`), whose time is what audio is
looked up by. The ring is used by its promise: `CopyRing`, `SkipFrame`,
`Receives` and `LeaveRing` are the steps of `FrameFeed` with the bound of the
two channels. `Start`, `Collect`, `Flush`, `Relay` and `End` are the goroutine
of `subscribe` (222-290): the prebuffer up to the newest frame at the time of
the start, its output with a default branch, and the live frames. `StoreVideo`,
`StampVideo`, `StampAudio` and `StoreAudio` are the halves of `writeVideo` and
`writeAudio`: video is in the ring before it counts as newest, audio counts
before it is in the ring. A `Subscribe` that has failed takes no further step,
whatever its goroutines still do. `age` counts the frames that have come since
the first look-up. `Close` is one step for each thing it waits for, video
first.

### Haven

A buffer or a demuxer is named by the publisher it was made for. Every place
where the code reads `h.publisher`, `h.buffer` or `h.demuxer` without a lock is
a step of its own that uses the value of that moment, and a nil one there ends
the process (`crashed`), or the HTTP handler for a viewer (`panicked`), which
`net/http` recovers. `clearPublisher` (261-288) takes `publisherMtx` and goes
step by step through the rest (`Clear`). `addEscort`'s append without the lock
is a read and a write.

Whoever closes the viewers, `clearPublisher` at 273-279 (`ClearViewers`) or
`Close` at 384-389 (`CloseViewers`), has `viewersMtx` and takes one after the
other: `CloseNext` cancels its context, `NextClosed` is the return of
`viewer.Close()`, which waits for the goroutines of the connection. The one it
waits for meanwhile is `victim`. A viewer's own monitor waits in the same way
(`CloseViewer`, `ViewerClosed`; 193). The goroutines of a viewer's connection
are `relays`: they start with `WriteViewer`, end with the context or the streams
(`RelayEnds`), or hang (`RelayHangs`, the `Abandoned` of `HlsConnection`), and
then no Close of this viewer returns. `Close` (364-400) is `CancelHaven`,
`CloseHaven` with all three locks, `CloseViewers` and `FinishClose`; nobody gets
a lock in between. The connections and the demuxer
are external: a context that may be done at any time, and a bounded channel
that closes when its context is done, when it is closed, or at any time (a full
channel or a parse error, `demuxer.go:178`).

### HlsServer

`connMtx` holds the request that has it. `Route` is the redirection (176-206)
with the nil publisher of `GetClosestEscort`; `Lock` to `Hook` are the critical
section 150-170 with the steps of the Haven's `addViewer` inside, and `Use` is
`HandleHTTP` on whatever `s.connection` is then. `Panic` is a panic of
`AddConnection`, whose request keeps the mutex for ever. The Haven's session is
a number and a `stage`: `StartSession`, `StartClear`, `CloseViewers`,
`CloseBuffer`. `CloseViewers` closes one connection after the other as in
`Haven`; `RelayHangs` says that the one it waits for, `victim`, never closes.
Meanwhile a request waits for `publisherMtx` in `CheckPublisher` or for
`viewersMtx` in `ListViewer`, with `connMtx`. `Forget` is the goroutine of 161-168. `Close` is `http.Server`'s
shutdown with the wait for requests in flight, then 77-90; the close of the
muxer in 84-86 is never reached, since the goroutine of the connection has set
it to nil by then.

### HlsConnection

The relay is the goroutine of `extractMetadata` (151-206): it takes a frame,
may find metadata in it, and sends it on, waiting for room. `Received` is
`receiveDone`: sent to when the last metadata was found, or closed by the end
of the relay. `PrimeMuxer` is `primeMuxer`; without an audio configuration it
is the nil dereference of line 230. `MuxFrame` and `EndPump` are
`handleFrames`. The upstream channels are those of `subBuffer.subscribe`, which
skips rather than waits and drains what is left after closing.

### SrtLink

One escort, one flagship and the links between them, each with an end at either
side and a socket. `Attempt`, `AttemptFails`, `Connect` and `AddFlagship` are
`Dial` (114-159); `ReadEof`, `CloseRead`, `ReadFails` and `EndRead` the ways out
of the read loop (`connection.go:198-248`), of which only EOF dials again.
`Accept2`, `Queue` and `EndListener` are the first goroutine of `Start`,
`Handle`, `AddEscort` and `EndHandler` the second, with
`NewConnectionFromRequest`. `CloseSocket` is the goroutine that closes an
accepted socket when its context is done; a dialed connection has none, so its
socket is never closed from the escort's side, and a redial that the escort's
own Haven refuses leaves the flagship an escort nobody reads. A flagship
notices that an escort is dead only by `Broadcast` (`WritePacket`). The network
is `LinkBreaks`, and `AttemptFails` for a dial whose answer is lost. `maxBackoff`
and `backoffMultiplier` (`server.go`) are unused by the code.

### Demuxer

A packet is one unit of the stream, known by its number; a frame is its
packet's number and its place in the packet. `TakePacket`, `WritePacket` and
`EndFeeder` are the first goroutine of `StartDemuxer` (101-120), `StartNext` to
`FramesSent` the second (122-187). The second reads `syncBuffer` and, finding
it empty, sleeps on the condition variable, which is a value of `parser`:
`Woken` is `Broadcast`. What the parser makes of a packet (how many frames, or
an error) is free. `CancelCtx`, `CloseBuffer` and `WaitDone` are the three
steps of `Close` (252-260). The consumer is the Haven's writer
(`handler.go:302-330`): it receives frames, ends with an error or the closed
channel, or leaves with the Haven's context (`HavenEnds`, `LeaveWithHaven`),
and Go's `select` takes any of these that is ready.

### Timestamps

`unwrapTs` and `getTimestamps` are the code's functions, with Go's remainder
(`GoRem`), on a clock of any even length. The encoder is outside: its own times
never wrap and each packet carries them modulo `Clock`. `VideoPacket` and
`AudioPacket` are `buildFrames` for the two tracks; `FirstFrameTime` is the
start of `SplitFrameWithTiming`. `epoch` remembers what the first packet made
of the encoder's time, so that properties can compare. The conversion to
nanoseconds is left out: it is monotonic, and no property needs more.

### Locator

A file of the database is its age in days, and whether it is whole. `Start` is
the main program, which panics when the locator cannot be made (`Fails`); `Scan`,
`Remove`, `Download`, `CreateFile`, `WriteFile` and `Mount` are `loadDatabase`,
`updateDatabase` and `mountDatabase` in the code's order, any of which may
fail. The file is written in place: a kill in between leaves a part of one,
which every later start takes for the database until it is too old.

## 4. Runs

Capacities of 250 and 55 and a ring of 500 slots become 1 to 6: what matters is
empty, partly full and full, and a ring that wraps while someone reads it.
Every bound is a CONSTANT.

| Run | Bounds | Shows |
|---|---|---|
| `ring` | 1 subscriber, 3 slots, 5 frames, channels of 1 and 2 | `InOrder`, `NoSilentLoss`, `NoUseAfterClose`, the refinement `FeedSpec`, `CloseReturns`, `FramesMove`. Five frames wrap three slots before, during and after the copy. Several subscribers are covered by the proofs |
| `key_frames` | 6 slots, 9 frames of 1 or 2 units, offset 1, a key frame in every 2, 1 frame between look-up and copy | `IndexSound`, `ClosestFound`, `ServedAsFound`. The ring wraps, so entries go stale |
| `viewer_stream` | rings of 5 slots, pictures of 2 and audio frames of 3 units up to time 18, channels of 1 and 2, a viewer that asks after time 10, up to 3 frames after its look-up | `StartsTogether`, `HistoryWhole`, the refinement `FeedSpec` for each track, `CloseReturns`, `PlayerStarts`. Rings wrap between look-up and copy, channels overflow, Close comes in every phase of Subscribe |
| `haven_sessions` | 2 interchangeable publishers, 1 escort | `SessionConsistent`, `NoTakeover`, `NoLiveMixing` over consecutive and competing sessions |
| `haven_live` | 1 publisher, 1 viewer | `ServedIsListed`; `SessionCleared`, `ViewerRemoved`, `CloseReturns`, each unless a viewer's relay hangs. The viewer is closed by the clearing, by its monitor or by `Close`, before, in and after its `Write` |
| `haven_crash` | violation | reader or writer use a field set to nil |
| `hls_server` | 2 requests, 2 sessions | `OneConnection`, `FedOrDone`, `Answered`, `CloseReturns`. The second request meets the connection of the first one in every phase, and either may meet the end of a session, and the clearing a relay that hangs |
| `hls_connection` | channels of 1, 3 frames per track | `NothingSkipped`, `WriteEnds`, `CloseEnds` |
| `srt_link` | 2 links, reused; `acceptCh` of 1; 1 swallowed attempt | `OneSeeker`, `FindsFlagshipAgain`, `ServerCloses`. A new link is made while the flagship still holds the old one |
| `demuxer` | 4 packets of up to 2 frames, channels of 1 and 2 | `FramesInOrder`, `SleepsOnEmptyPipe`, `CloseReturns`, `ConsumerEnds`. Both channels fill, the parser sleeps and is woken, the stream breaks, the consumer leaves with frames in the channel |
| `timestamps` | a clock of 14, times up to 29, audio frames of 2, an error of 1 and an allowed drift of 2 | `PicturesOnTime`, `AudioInStep`, `AudioIncreases`. The clock wraps twice; the stream may start just before the wrap |
| `locator` | the code's 7 days, 3 kills | `NewestSurvives`, `UpAgain` |

Deadlock is checked in `locator`, where days pass for ever. In every other
model the system may stop for good (all frames written and everyone gone, or
`Close` done, or the process ended), and it is not checked.

A step that a bound leaves out adds nothing new where the quantity only
repeats: a ring that wrapped once and again while it is read, a clock that
turned twice, a second session after the first. Where it could, the theorems of
section 5 cover every value.

### Assumptions

- `KeyFrameIndex.RoomAssumption`: the encoder has a key frame in every `Gop`
  frames, at most `Delay` frames are stored between look-up and copy, and
  `2 * Offset + Delay + 2 < Cap` and `Gop + Delay + 1 < Cap`, where a frame is
  at least one unit long. In the program: 500 slots, a 2-second offset, 50
  frames a second, so any encoder with a key frame at least every nine
  seconds. With key frames
  further apart than the ring is long, the index names slots that were written
  again, and a viewer starts on a frame that is not a key frame: nothing cuts
  the index (`subBuffer.go:135`).
- `Timestamps.TurnAssumption`: no step, no reordering and no distance of the
  two tracks reaches a quarter of a turn of the clock, which is more than six
  hours. `JitterAssumption`: an audio packet's time is off by no more than half
  the allowed drift (`AudioIncreases` needs it). `PicturesOnTime` says nothing
  of the DTS of a stream whose very first packet has the wrap between its two
  times: the code takes this DTS as it is, a whole clock ahead, until a packet
  without a DTS brings it back.
- `ViewerStream.RoomAssumption`: the two tracks are at most `Skew` apart, at most
  `Delay` frames come while `Subscribe` is between its first look-up and its
  last copy of a ring, and the audio ring, but for two frames, is as long as
  the offset, `Skew`, `Delay + 1` pictures and the distance of two key frames
  together. In the program: 500 audio frames, about ten seconds, against an
  offset of two. A smaller ring lets the writer come round to the frame audio
  was looked up at, and `StartsTogether` fails. Nothing else needs it.
- `HlsServer`: the streams of a session that goes on carry the metadata of both
  tracks before a channel of the relay is full of one, so that `Write` returns.
  Nothing is assumed of a clearing that waits for a viewer.
- Properties that end in an alternative name what the code really does there:
  `CloseEnds` of the HLS connection up to `Abandoned`, the relay that waits for
  room in a channel nobody reads; liveness of the Haven up to `crashed`, which
  `haven_crash` shows to be reachable, and up to a Close of such a connection:
  `HolderHangs`, where the holder of `viewersMtx` waits for it, and `CloseHangs`,
  where `Close` of the Haven is that holder, or waits for it or for the viewer's
  monitor; the requests and `Close` of the HLS server up to `LockLost`, a panic
  with `connMtx` held, and `ClearHangs`, the same clearing seen from the server;
  `ConsumerEnds` up to the consumer's leaving with the Haven, when frames stay
  in the channel; `FedOrDone` up to
  `overdue`, a viewer listed after the viewers of its session were closed;
  `FindsFlagshipAgain` up to `lost`, a redial the escort's own Haven refused
  or a read that failed otherwise than by EOF; `ServerCloses` up to `Stuck`,
  the listener that waits for room in `acceptCh`. No text of the repository
  promises otherwise, so these are hazards in `PROJECT.json` and not findings.

### Fairness

A goroutine that can go on goes on (weak fairness). Strong fairness is used
where the code's wait ends although the condition comes and goes: a critical
section of a mutex that others take in between (Go's mutexes hand over to a
waiter that has starved), and a `select` whose case is ready again and again
(Go chooses at random): the end of the Haven's writer, of the demuxer's feeder
and of a viewer's stream. A demuxer's end is assumed when it is closed, and not
when only its context is done, for this does not wake a sleeping parser. The
clearing of a session and `Close` go on only as far as the viewers they wait for
let them: a connection whose context is done has its goroutines end, or hang,
which is what `CloseEnds` shows of `HlsConnection`. The
flagship of `SrtLink` sends packets while it has a publisher, since only then it
notices a dead escort, and a dial whose request was dropped gives up in the end
(the timeout of gosrt). `Locator` assumes that it is started again, that time
passes, and that a scan, a download and a write that are tried again and again
succeed at some time. Nothing else is assumed of the outside: nobody need
connect, send, read or leave. Connections may stay for ever, and consumers may
never read.

## 5. Proofs

The theorems hold for every value of the constants that satisfies the named
assumptions, and so for any number of subscribers, connections, requests and
frames. Each rests on an inductive invariant: the property alone is hardly ever
inductive, and what is added says where its parts are on their way. Type
correctness (`TypeCorrect`) is proved of every model with proofs; no run checks
it, except as far as TLC would fail on a value outside its type.

| Module | Theorem | Property |
|---|---|---|
| `CircularBufferProofs` | `LifecycleInvariant`, `ClosedChannelsUnused` | `NoUseAfterClose` |
| | `FramesInOrder` | `InOrder` |
| | `NothingLostSilently` | `NoSilentLoss` |
| | `RingImplementsFeed` | `FeedSpec` |
| `KeyFrameIndexProofs` | `IndexAgrees` | `IndexSound` |
| | `SearchFindsClosest` | `ClosestFound` |
| | `StartsAsFound` | `ServedAsFound` |
| `HavenProofs` | `SessionIsOne` | `SessionConsistent` |
| | `NeverMixed` | `NoLiveMixing` |
| | `ServedStaysListed` | `ServedIsListed` |
| | `NeverReplaced` | `NoTakeover` |
| | `HungForGood` | |
| `HlsProofs` | `ConnectionIsOne` | `OneConnection` |
| | `ConnectionIsFed` | `FedOrDone` |
| | `NoFrameSkipped` | `NothingSkipped` |
| | `LostForGood`, `HangsForGood`, `AbandonedForGood` | |
| `DemuxerProofs` | `OrderKept` | `FramesInOrder` |
| | `NoLostWakeUp` | `SleepsOnEmptyPipe` |
| `TimestampsProofs` | `UnwrapExact` | |
| | `PicturesStayOnTime` | `PicturesOnTime` |
| | `AudioStaysInStep` | `AudioInStep` |
| | `AudioNeverBack` | `AudioIncreases` |
| `ViewerStreamProofs` | `TracksImplementFeed` | `FeedSpec` |
| | `HistoryReachesViewer` | `HistoryWhole` |
| | `StreamsStartTogether` | `StartsTogether` |
| `FlagshipProofs` | `DatabaseSurvives` | `NewestSurvives` |
| | `SeekerIsOne` | `OneSeeker` |
| | `LostIsFinal`, `StuckForGood` | |

*Ring.* `LifecycleInv`: a broadcast is only of a written frame to registered
subscribers; a forwarding goroutine has received a frame; nothing is sent
before the copy; a registered subscriber has a running goroutine and open
channels, closed channels belong to goroutines that have ended or to late
calls, and when `Close` takes its locks only late calls are left.
`removeSubscriber` takes `subMtx`, so the broadcast is over when it closes the
channels, and `Close` closes only what is registered after its wait. For the
order, `RingInv` says which frame each slot holds, and `OrderInv` that all a
subscriber was sent is older than all that is kept for it, and the copied
history older than what is in its live channel. For completeness, `CoverInv`
says that what is sent, held or skipped is one interval up to the newest frame.
The refinement maps each step to one of `FrameFeed`: the copy to `Join`, a send
to `Deliver`, a skip to `Lose`, `removeSubscriber` and `Close` to `Leave`; the
steps in between move a frame from one holder to the next and change nothing
that is due. It rests on `CapAssumption` and `ChannelAssumption`.

*Index.* `IndexInv` keeps the index sorted by time, and `PlaceInv` says how many
slots behind the write position an entry is, by its age. `ClosestFound` needs
that the loop stops at all (the least element of a set of naturals) and that
the distance to the target falls and then rises along a sorted index.
`ServedAsFound` counts: what was found is within the offset or one key frame
interval of the target, so by `RoomAssumption` the writer cannot come round to
it in the frames `Delay` allows.

*Viewer.* `FeedInv` says which phases of `Subscribe`, of the ring and of the
stream go together, and that out of what a track has for its viewer the
prebuffer comes before what the ring owes; so every step is one of `FrameFeed`
with both on the way: the copy is its `Join`, `Output` its `Deliver` or `Lose`.
For the history, `HistoryInv` counts: a frame still on the way has a number no
smaller than the first frame's plus what was already sent, so a channel that is
full has taken `OutChCap` frames of the history, and the ring skips at a full
channel only when the history is longer than that channel. For the start,
`StartInv` follows the two clocks. `Apace` keeps the newest audio frame at most
a picture and the skew ahead; `Ahead` bounds by `age` how far both have come
from the key frame found, which is less than the offset and one interval of key
frames old (`KeyFrameFound`: in every `Gop` pictures is a key frame, and the
search takes the closest); by `RoomAssumption` the frame at the first
picture's time is then in the audio ring, within one frame of it
(`LookUpAudioStartInv`), and the copy starts with this very frame since the
writer has not come round to it (`CopyRingStartInv`). The ring skips only behind
an older frame, so it is also the first that audio receives.

*Haven.* `Monitors` says that there is one monitor that may clear, which is that
of the session, and what is left of the session at each of its steps; `Emptied`,
that `Close` finds no monitor when it has the locks and lets no publisher in
before it is through. `Sources`
says of which publisher the frame a writer holds is; a reader that has found
the next session's publisher was of one whose context is done. `KeptListed`
follows a viewer from its listing to its removal; `VictimHeld` says that the one
somebody waits for was cancelled and that the locks are held.

*HLS server.* `MakerAlone`: a request between the check and the hook has
`connMtx`, and no connection is set. `WatchedIsHeld`: an open connection that is
watched is `s.connection`. `Listed` and `Subscribed` tie a fed connection to
its session, and `VictimHeld` a clearing that waits to its stage.

*HLS connection.* `RelayInv` orders what the muxer got, the channel and the
frame in the relay's hands, also across the change from the relay to the
goroutines of the tracks.

*Demuxer.* `OrderInv` orders everything on its way: the accepted frames before
those to be sent, both before the packets of the pipe, these before the packet
the feeder holds, and this before those of the channel. `SleepsOnEmptyPipe` is
inductive.

*Timestamps.* `UnwrapExact`: given a raw time that is `d` after the last one,
`unwrapTs` returns the last unwrapped time plus `d`, whenever `d` is less than
half a clock either way and the last time is no further than half a clock below
zero. The second condition is needed: further down, Go's negative remainder puts
the result a whole clock too high. A stream's times get below zero only by a
step back near its start. `ClockInv` carries it through a stream: the epoch is a
whole number of turns, and the last packet of either track is less than a
quarter of a turn away from the pictures. `CountInv` says how far the counted
audio time is from the encoder's.

*Locator.* The scan's result stays the newest file until something is written,
and nothing is written unless it is too old.

*SRT.* A link is read only once the Haven has it and until it was shut, so the
attempt that fails and the loop that ends are the last to seek: `SeekerMoves`
is the one lemma all steps of the escort go through. `ServerInv` says that the
listener holds one request at most, and only while it sends, so that it cannot
be back at `Accept2` once `Close` has returned.

*What does not recover.* The liveness properties of the Haven, the HLS server,
the HLS connection and the SRT link end in an alternative (section 4). Six
theorems say that it is final and not a passing state: from a lost `connMtx`
(`LostForGood`), a relay that waits for room in a channel whose goroutine is
gone (`AbandonedForGood`), a clearing or a `Close` of the Haven that waits for
such a relay (`HungForGood`, and `HangsForGood` for the requests and the `Close`
of the HLS server that wait behind it), an escort that nobody makes dial
(`LostIsFinal`) and a full `acceptCh` whose handler has ended (`StuckForGood`)
no step of anybody leads back. `crashed` is final by the shape of `Next`: the
process has ended. That these states are reached is what TLC shows: without the
alternative the properties fail.

Out of the provers' reach, and left to TLC: all liveness properties, since they
need fairness. Every safety and action property that a run checks and the two
refinements of `FrameFeed` are proved.

## 6. Findings

`haven_crash`: `clearPublisher` sets to nil what reader and writer of the
session may still be about to use, and the process panics (`handler.go:284`),
before the removal that `handler.go:222` announces is complete.

What else the models show, without a text of the repository that says
otherwise; each is a hazard in `PROJECT.json`:

- A frame received before the session was cleared may go into the next
  publisher's buffer (`handler.go:322`).
- The append of `addEscort` without the lock may lose an escort, or bring a
  removed one back (`handler.go:139`).
- `extractMetadata` returns nil metadata without an error when a stream ends
  early, and `primeMuxer` then dereferences it while `ServeHTTP` holds
  `connMtx`, which is never released (`hls/connection.go:230`,
  `hls/server.go:154`).
- The relay of `extractMetadata` may wait for ever for room in its channel, and
  `Close` of the connection with it (`hls/connection.go:163`): then
  `clearPublisher` keeps `publisherMtx` and `viewersMtx` (`handler.go:276`), new
  publishers and viewers wait, a request among them with `connMtx`, and neither
  the Haven nor the HLS server closes.
- An escort that dials again before its Haven has cleared the old session is
  refused and stops seeking (`srt/connection.go:216`).
- A `Close` of the SRT server that meets a full `acceptCh` waits for ever
  (`srt/server.go:79`).
- A database whose writing was interrupted keeps the flagship down until it is
  a week old (`locator.go:209`). The comment at `locator.go:53` speaks of a
  background update; the code waits for it.

## 7. Not modelled

- What comes between the return of `wg.Wait` in `Haven.Close` and its locks
  (`handler.go:368-385`), which is one step: a connection that is added there.
- The pool of frames and their bytes (`frame.go`): a frame is its number, and a
  clone is the same frame.
- NAL and ADTS parsing, the MPEG-TS format, HTTP headers and manifests: they
  decide whether a frame holds metadata, how many frames a packet holds and
  whether it can be parsed, which is left free.
- SRT itself, the network and the operating system, beyond what section 3 says.
- `GetLocation`, the unpacking of the downloaded archive, and the checks of
  path, passphrase and stream id with the wording of errors.
- `types/`, `cmd/`, logging and configuration, without state of their own. The
  main programs never call `Close` of the servers; they cancel the context.
