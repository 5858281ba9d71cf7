# TLA+ verification of moq-quic

moq-quic is a Media-over-QUIC relay with publisher and subscriber libraries, in Go. Its
hard part is the relay: goroutines of many sessions meet in a few shared structures, with
a condition variable, a WaitGroup, three read-write locks and unlocked reads between
them. This project models those structures and what passes through them, from the listener
and the handshake to the bytes of a message, checks the models with TLC on small
instances, and proves every safety property the runs check with TLAPS for every size.

## The system

| Part | Code | State | Operations | Correct when |
|---|---|---|---|---|
| Object buffer | `moqt/wire/groupstream.go`, `trackstream.go` | `ObjectsArr`, `IsEOF`, a condition variable | `ReadObject`/`WriteObject`, `Close`, `Pipe` | every copy gets a prefix of the stream, all of it if it ends well |
| Relay cache | `moqt/relaystream.go` | `ObjectCache`, `CurrentBytes` | `cacheObject`, `ClearCache`, `SendCachedObjects` | FIFO window within the limits, bytes exact, a replay is one state of the cache |
| Relay track | `moqt/relaystream.go`, `relayhandler.go` | `Subscribers`, a WaitGroup per stream, one copy per subscriber | `ProcessObjects`, `ForwardStream`, `ProcessMOQTStream`, `HandleSubscribe`, `HandleUnsubscribe`, `HandleClose` | headers before objects, a stable fan-out, no gap for a late subscriber, nobody blocked for ever |
| Control plane | `moqt/sessionmanager.go`, `relayhandler.go`, `streamsmap.go` | `namespaces`, `sessions`, `IncomingStreams`, `SubscribedStreams` | the control message handlers | publishers and subscribers meet in any order, answers reach the right subscription |
| Endpoints | `moqt/pubhandler.go`, `subhandler.go`, `pubstream.go`, `substream.go` | announced namespaces, subscribed streams, channels to the program | `SendAnnounce`, `Subscribe`, `NewStream`, handlers, accept loops with retries | no group is skipped, `NewStream` returns, nothing panics on the channels, the loops end |
| Session | `moqt/moqtsession.go`, `controlstream.go`, `handler.go` | role, handshake flag, control stream | `ServeCS`, handshake, `Close` | the handshake is done once and means agreement, a lost session is forgotten unless its track is blocked |
| Dialer, listener | `moqt/moqtdialer.go`, `moqlistener.go` | - | `Dial`, `Listen` | Dial returns after the handshake, a connection is served whatever the upgrades before it come to |
| WebTransport | `wt/` | channel of sorted streams | upgrade, `ProcesUniStreams`, `AcceptUniStream` | streams reach the session in order |
| HTTP/3 frames | `h3/` | - | encode, parse | settings are read as sent, an unwanted frame fails the upgrade |
| Wire codecs | `moqt/wire/` | - | `GetBytes`, `Parse` | what is written is what is read, whatever it follows |
| API, examples | `moqt/api/`, `examples/` | groups and objects counted | callbacks, publishing loops | groups and objects are published in order |

How they interact. A publisher announces a namespace; the relay stores it and tells the
subscribers. A SUBSCRIBE finds the publisher, makes or finds the track's RelayStream and
adds the session to its `Subscribers`. Each incoming stream of the track gets a
`ProcessObjects` goroutine, which starts a copy for every subscriber (`ProcessMOQTStream`)
and then reads objects into the stream's buffer, from which the copies pipe them, and into
the cache, from which a late subscriber is sent a replay. Control messages are handled on
one goroutine per session; `Close` runs on another.

What is hard here: the condition variable is waited on before the state is looked at;
`IsEOF` is read without its lock; a read lock is held while waiting for the network;
SUBSCRIBE is sent before its sender is registered (three times: relay, publisher,
subscriber); lookup and creation of a track are separate; `Close` has several callers and
races the handlers, and waits for the lock that a fan-out may hold; errors of Parse, Write
and ReadFull are dropped in places, so that a step that failed is followed by the next; an
upgrade waits for its client inside the accept loop. `PROJECT.json` lists each of these at
its line under "hazards".

## Modules

| Module | Models | Composed with |
|---|---|---|
| `PrefixMulticast` | the promise of a buffer: a log, and readers that have a growing prefix of it | - |
| `GroupStream` | the buffer and the Pipe loop of every copy | implements `PrefixMulticast` |
| `RelayCache` | the cache and the replay | - |
| `RelayStream` | one track: fan-out, subscribers, locks, stalled and closed connections | instantiates `GroupStream` for its buffers |
| `RelayControl` | announce and subscribe at the relay, with both kinds of endpoint | - |
| `Publisher` | a publishing program and `PubStream.NewStream` | extends `GroupStream`: the program's steps drive its buffers and pipes |
| `Session` | both ends of a session: handshake, `ServeCS`, `DoHandle`, `Close`, `Dial` | - |
| `Listener` | `Listen`, the WebTransport upgrade, the sorting of its streams | leads up to `Session` |
| `Wire` | `GetBytes` and `Parse` of every message, parameter, header and object (with the group IDs of TRACK streams), as operators | - |
| `StreamReader` | a stream that may end anywhere and the goroutine that reads it | extends `Wire` |
| `GroupStreamProof`, `RelayCacheProof`, `RelayStreamProof`, `RelayControlProof`, `SessionProof`, `PublisherProof`, `ListenerProof`, `StreamReaderProof` | the theorems about the module each is named after | `RelayStreamProof` instantiates, `PublisherProof` extends `GroupStreamProof` |
| `MC*` | constants for TLC | |

A definition named "Fault" in its comment is a mutant: a plausible bug in the definition
that follows it, used only to show that a property notices it.

**GroupStream.** A copy is a pair `<<stream, peer>>`; `pc` says where its goroutine is.
The sections under `ObjectLock` are single steps because nothing in them blocks; `Wait` is
two (`PipeWait` parks; `PipeCollect` runs after a `Broadcast` has made the goroutine
runnable). `IsEOF` is read unlocked: the read sees a `Close` that precedes the goroutine's
last critical section, and may or may not see a later one (`PipeReturnEOF`,
`PipeReturnNil`). A `Write` may fail after a part of the data, and a QUIC send stream that
failed once never succeeds again. The loops around Pipe differ: `ProcessMOQTStream` ends
on any error, `PubStream.NewStream` only on EOF.

**RelayCache.** `cacheObject` is lock, evict one, append and unlock, so that TLC sees the
loop's intermediate states. History variables record what was ever cached (`history`) and
its running total of bytes (`ends`); the properties compare the cache with them. An
object's group is what `ReadObject` leaves in it: the published group on TRACK streams,
zero on GROUP streams. `CacheEnabled` is never false in the code and is left out.
`ClearCache` has no caller and is kept as an operation of the type. A Write of the replay
that fails cuts its group short and the loop goes on with the next group, because its error
is not looked at; only a stream that cannot be opened ends the replay early.

**RelayStream.** `SubscribersLock` is a set of readers (the streams inside ForwardStream)
and one waiting writer, which keeps new readers out, as Go's RWMutex does. A connection is
open, stalled (no flow-control credit: Write blocks) or closed (Write fails). The cache is
the sequence of cached objects and does not overflow here. A copy that is given up is
"unknown" (GetSubID does not find the track, between AddSubscriber and AddStream) or
"refused" (OpenUniStream fails). `amid[r]` records, when r's subscription is registered by
AddStream, the streams under way without a copy for it, a copy given up as unknown
included: of these r misses what was not in its replay. The first subscriber's handler
starts where SUBSCRIBE has been sent upstream.

**RelayControl.** One namespace, one track. Control streams are FIFO queues; handlers are
split where they touch another session; `go WriteControlMessage` is a pending write.
`ForwardSubscribeOk` ranges over the map without its lock: it visits whoever was there at
the start and may visit whoever is added meanwhile. (Go may also abort the process on such
a concurrent map access; the model goes on.) The subscribing program calls `Subscribe` at
its start and on every ANNOUNCE, as `examples/sub` does. SubscribeIDs are drawn at random
in the code and taken to be distinct here. A failed handshake is in `Session`.

**Publisher.** The program of `examples/pub`: for each group `NewStream` (retries, header,
WaitGroup), the objects, `Close`. Group g is stream g of `GroupStream`, with one copy. A
stream may be refused for any reason at any of the five attempts; on a lost connection every
attempt and every Write fails. The program may stop at any point: `examples/pub` sleeps
between its steps and, with 0 for its group count, has no last group; the ffmpeg publishers
make the same calls and wait for their input on a channel, which is not modelled. Only
`NewStream`, once called, has to go on.

**Session.** Per end three goroutines: `main` (`InitiateHandshake` or
`handleControlStream`), `cs` (`ServeCS`) and `handle` (`DoHandle`). `Close` is two steps,
the connection and context, then the handler and the SessionManager, because others run in
between. In the relay there is a third between them: `HandleClose` asks for the
`SubscribersLock` of the tracks the session subscribes to (`RemoveSubscriber`), and has to
wait for a ForwardStream that holds it (`fanout`), which need not end if another subscriber
gives no credit. `web` says that the relay's end is a `WTSession`, whose `AcceptUniStream`
is a bare receive on a channel and never fails. `own` says which ends run this code: at the
other, if any, is a program that opens control streams, sends any setups and calls in any
order and ends its stream. Calls matter as messages whose handler may block on an unbuffered
channel (`Delivers`; that a handler may also drop them for want of a subscription is left to
`RelayControl`). `closes` counts how often a handler's channel was closed.

**Listener.** The goroutine of `Listen` is inside at most one upgrade (`lst`). A client's
part of an upgrade is a record chosen at the start (`hello`), of which each piece arrives
some time or never. `SettingsFrame.Parse` is modelled in detail, with the length of every
varint; a frame's `pad` is what longer encodings take. A request is reduced to the outcomes
`WrapRequest` tells apart. After the upgrade streams of known and unknown type are opened,
and `ProcesUniStreams` passes them on through a channel. An unknown
header, or the end of the connection, ends it, and `AcceptUniStream` then waits for ever.
QPACK streams are passed on like others, and `DoHandle`, which parses their header inline,
may wait for one as long as the client likes; therefore no fairness is assumed of
`ParseMOQTStream`. An upgrade that fails leaves the connection open.

**Wire, StreamReader.** The wire is a sequence of cells, a cell being one varint or one
byte. `Parse` is a chain of reads that stops at the first error where the code does, and
goes on where the code drops the error. Parameters are a map by type: a repeated one
overwrites. An object of a TRACK stream has its group ID before it, one of a GROUP stream
has not; which reader follows a header depends on the header read. There is no framing on a
MOQT stream, so what a Parse leaves over is the beginning of the next message:
`StreamReader` sends whole sequences of messages, ends the stream at any cell, and compares
what the handlers are given with what was sent (`Same` says what the code makes of each
field). `range` over the parameters gives any order; the messages of the instance have
theirs fixed. Two flaws are in the model: an unknown parameter that is not the last leaves
the rest on the stream (`Misframes`; the properties say nothing from there on), and
`SubscribeOk.Parse` reads the group's id into `largestObjectId` and drops the object's (so
`Same` says). `handleControlMessage` has no case for SUBSCRIBE_DONE: it is parsed and
dropped.

## Runs

| Run | Instance | Checks |
|---|---|---|
| `relayed_stream` | one stream, two copies, two objects | `PipeInv`; `MulticastSpec` (refinement); a parked goroutine delivers, a reached one finishes, a failed one closes |
| `published_stream` | a program with two groups of two objects, five attempts per stream | `DeliveredIsPrefix` although the loop goes on after errors; `GroupsAreContiguous`; `NewStreamReturns` |
| `relay_cache` | a TRACK and a GROUP stream, limits of 3 objects and 2 bytes, sizes 0 to 2, four insertions, one replay | FIFO, accounting (against the history), limits, no early eviction, replay is a snapshot; `CacheInv` |
| `relay_track` | two streams of one object, a first and a late subscriber, the late one may unsubscribe, stall, close | `TrackInv`, `HeadersBeforeObjects`, `FanOutStable`, `LateSubscriberNoGap` |
| `relay_track_live` | one stream of two objects, the first subscriber unsteady and its copy followed to the end | `GroupStreamSpec` (refinement); `ForwardReleased`, `CloseTerminates`, `SubscribeIsServed` |
| `relay_control` | two subscribers, a publisher that may be lost | `ControlInv`, `UpstreamIsKnown`, `OkAnswersOwnSubscribe` |
| `rendezvous` | a subscriber and a publisher in any order | `Rendezvous` |
| `session` | both ends this code, or one of them a program that sends two messages; a publisher or a subscriber | `SessionInv`, `ChannelsClosedOnce`, `HandshakeSignalledOnce`, `DialMeansAgreement`; `LostSessionIsForgotten`, `DoHandleEnds` |
| `listener` | a plain, a WebTransport and an unknown client; eight ways an upgrade can go; two streams after it, room for one | `SettingsAsSent`, `PumpKeepsStreams`; `ConnectionsAreServed` |
| `wire` | a control stream with three messages out of fourteen, a GROUP or a TRACK stream with a header and three objects; the end at any cell | `HandledAsSent`, `ObjectsAsSent`, `ReadToTheEnd` |
| `closed_stream_is_delivered` | as `relayed_stream` | violated: a copy parks after the last broadcast and hangs without the last objects |
| `replay_keeps_groups` | as `relay_cache` | violated: GROUP objects are replayed as group 0 |

What these rest on and except, in the code's terms. `GroupsAreContiguous` is about the
program: that a group has a QUIC stream does not mean that the relay gets its header, whose
Write may fail unnoticed. `LateSubscriberNoGap` excepts the streams in `amid` and those
refused, of which the subscriber may miss a part or all. `ChannelsClosedOnce` holds by a narrow
margin: `ServeCS` may go on reading after `handleSetupMessage` has closed the session, and
it is only because `ServeCS` does not close the session when its read then fails that
`HandleClose` is not run twice. `LostSessionIsForgotten` rests on `handleControlStream`
still waiting for a second control stream; it is claimed of the relay only, since nobody
closes a client's session when its connection is lost, and excepts a ForwardStream that
holds `SubscribersLock` for ever. `DoHandleEnds` excepts WebTransport, where
`AcceptUniStream` heeds neither the context nor the connection. `PumpKeepsStreams` gives
every stream that is not passed on its reason: late with its header, not reached yet, or
lost with the goroutine, which ends with an unknown header or with the connection.
`ConnectionsAreServed` excepts a client that stops half-way in its upgrade with its
connection open, or sends settings that `SettingsFrame.Parse` does not come to the end of:
there is no deadline, and everybody behind it waits. A client whose connection is gone is
no exception.

The violated properties state what the README or the example programs rely on; the
findings in `PROJECT.json` quote the lines. A third finding goes with a property that
holds: `CacheBounded` says that the cache without its newest object is below the limits,
and no more can be said, although the README calls the byte limit a maximum.

Two more behaviours the models show, without a property of their own: the streams that
arrive before the first subscriber is added are not forwarded to it (`RelayStream`), and two
subscribers that arrive together make the relay subscribe twice (`RelayControl`).

**Bounds.** `MaxObjects`, `MaxCached`, `Piped`, `Unsteady`, `Calls`, `Mortal`, `MaxSent`,
`MaxCalls`, `MaxForeign` and `MaxUni` are bounds and nothing else; `MaxGroups` is too, for a
program without a last group. `MaxRetries` of `Session` is 1 in place of 10, and `ChanCap` 1
in place of 1024: one attempt that is followed by another, and a full channel, are what the
loops tell apart. `Publisher` has the code's 5. Two copies are needed to tell a broadcast
from a signal, and two objects to have one collected and one that comes later. The cache
needs more insertions than its limit, and sizes that make the byte limit bite before, with
and after the count; zero-sized objects fill the count only. Two streams are needed for two
readers of the lock with a writer between them; a first and a late subscriber take different
paths through HandleSubscribe. The two streams are symmetric in `relay_track`, which checks
invariants only. `Unsteady` keeps one session at a time from multiplying the states of the
other. Two subscribers are what the lookup race needs. Two messages of another
program are a setup and its repetition, or a rejected setup and one after it; three messages
on the wire are one that is misread, what it is misread into, and one behind. TLC may end
where nothing is left to do (streams ended, sessions closed), so deadlock is not checked;
the liveness properties say what must not get stuck. `wire` does check it: a reader whose
stream has ended ends.

**Fairness.** Weak fairness of each goroutine's own steps: the Go scheduler runs a runnable
goroutine, and a free mutex is acquired. In `GroupStream` a Write returns, with or without
an error. In `RelayStream` nothing is assumed of the peer: a stalled connection may stay
stalled, and the liveness properties name it as the exception. In `RelayControl` control
streams deliver. In `Publisher` a Write returns and `OpenUniStream` returns at once, as it
does in quic-go; only the steps of `NewStream` and of the pipes are fair, not those of the
program, which may wait for its input for ever. In `Session` a fan-out need not end; the
close of one end arrives at the other (at the latest as QUIC's idle timeout), and a stream's
header is read to its end only when the connection is gone. In `Listener` clients need do
nothing. No fairness is assumed of producers, subscribers' wishes, failures, other programs,
or publishers coming and going.

## Theorems

`GroupStreamProof` assumes only `StreamsAssumption` (copies are of known streams):

- `Invariance`: `Spec => []PipeInv`. `DeliveredIsPrefix` alone is not inductive: a step of
  `PipeWrite` appends `data[q]` to `out[q]`. `CollectedIsNext` is what makes it so: as long
  as no Write has failed, `out` and `data` are consecutive parts of the buffer ending at
  `index`, and after a failure nothing is written. `EndIsJustified` is what the refinement
  needs of the end of a copy.
- `TypeCorrect`, `PrefixDelivery`: its consequences `[]TypeOK` and `[]DeliveredIsPrefix`.
- `ImplementsMulticast`: `Spec => MulticastSpec`, by the mapping that takes `out` for what
  a reader has and `broken` for a reader that was lost.

`RelayCacheProof` assumes only `CacheAssumption`: the limits are any integers.

- `Invariance`: `Spec => []CacheInv`. The limits and the FIFO window depend on each other
  and on the byte totals; inside `cacheObject` the window is maximal with respect to the
  rounds of the loop done so far, which is the conjunct that carries `WindowIsMaximal`
  from the lock to the unlock.
- `EvictionIsFIFO`, `BytesNeverDrift`, `LimitsHold`, `NothingEvictedEarly`: the four
  properties of the run, for all limits, sizes and goroutines.
- `CurrentBytesIsSum`: `Spec => []BytesAreSum`, which no run checks because it follows from
  what the run does check. `BytesNeverDrift` compares `CurrentBytes`
  with the running totals of the history; that the difference of two of them is the sum over
  the cached objects is shown by induction along the cache.
- `ReplayInvariance`, `ReplaySendsSnapshot`: `Spec => []ReplayInv` and its consequence
  `ReplayIsSnapshot`, for any number of subscribers. What makes it inductive: the copy is
  the cache as it was (`wanted = snap`), nothing is sent before it is made, and only its
  groups are sent. The proof treats one subscriber's replay by itself (`ReplayOf`), since
  replays share nothing but the cache, which they only read. Which objects are of a group
  (`OfGroup`) is never looked into: that the replay sends an initial part of them holds
  whatever the selection is.

`RelayStreamProof` assumes `RelayAssumption`: any streams, subscribers and bound.

- `Invariance`: `Spec => []TrackInv`. `HeadersBeforeObjects` needs that a stream has no
  copies before its fan-out and finitely many after (`CopiesInv`), for only then is the
  WaitGroup a count. `FanOutStable` needs the lock: readers are the streams at "wgwait".
  `LateInv` is `LateSubscriberNoGap` pushed back to the moment the subscription was
  registered: a stream that is not in `amid` and has no copy is still to be fanned out, or
  over; then `CachedInv` (what was read is cached, but for the object in hand) gives that
  the replay has it.
- `HeadersFirst`, `FanOutIsStable`, `NoGapForLateSubscriber`: the properties of the run.
- `ImplementsGroupStream`: `Spec => GroupStreamSpec`; every step of the track is a step of
  its buffers or leaves them alone. It needs `BufferInv`: nothing is appended to an ended
  stream. `TrackDeliversPrefix` and `TrackMulticasts` carry the theorems of
  `GroupStreamProof` over to the track.

`RelayControlProof` assumes `ControlAssumption`: any publishers, subscribers and calls.

- `Invariance`: `Spec => []ControlInv`. `UpstreamIsKnown` needs to know what a handler has
  in hand when it is about to write (`HandInv`). `OkAnswersOwnSubscribe` needs that what
  the relay has heard of was made by the subscriber it came from (`HeardInv`), which is kept
  only if no subscription is made twice; the program subscribes on SERVER_SETUP and on every
  ANNOUNCE, so each of these must be in one place at a time on its way (`SetupOnce`,
  `AnnounceOnce`).
- `UpstreamKnown`, `NoCrossTalk`: the properties of the run.

`SessionProof` assumes `SessionAssumption`; any program may be at the other end.

- `Invariance`: `Spec => []SessionInv`. `CloseInv` says which goroutine may still close the
  session, `SignalInv` that the ServeCS about to signal is the one that has just set
  `ishandshakedone`, and `AgreeInv` that nothing comes to a client of this code from a relay
  of this code before the relay has accepted its CLIENT_SETUP.
- `NoPanicOnChannels`, `SignalNeverWaits`, `DialAgrees`: the properties of the run.

`PublisherProof` assumes `PublisherAssumption`: any number of groups, objects and attempts.

- `PubInvariance`: `PubSpec => []PubInv`. The program is where it is in group `groupid`:
  those before are opened and closed, those after untouched. This is needed twice: for
  `NoGroupSkipped`, and because `OpenUniStream` is not a step of `GroupStream` (it may
  fail the QUIC stream at once), so `PipeInv` survives it only because the copy has not begun.
- `NoGroupSkipped`, `PublishedPrefix`, `PublisherMulticasts`: the program skips no group, and
  the promises of the buffer hold under the program's own way of driving it.

`ListenerProof` assumes `ListenerAssumption`: any connections, capacity, and streams.

- `Invariance`: `Spec => []PumpInv`. `PumpKeepsStreams` counts what one goroutine has
  accepted, so it needs that a connection gets one `ProcesUniStreams`; that in turn needs
  that a connection is in the queue once and not both there and with `Listen`
  (`HandledOnce`). That nothing is lost without a reason needs that the goroutine ends only
  as `Abandoned` says.
- `StreamsInOrder`, `ConnectionsHandledOnce`: its consequences.
- `SettingsParsedAsSent`: `Spec => []SettingsAsSent`, for frames of any length. What is left
  of the frame's length after i turns of `SettingsFrame.Parse` is, by induction, what the
  settings behind the i-th take; it comes to 0 at the last and not before, because every
  setting takes at least two bytes. So `Listen` does not get to "endless" with such a frame,
  and has the settings as sent when it goes on.

`StreamReaderProof` assumes `SentAssumption`: any set of well-formed messages, headers and
objects, of any length, any number of them, and the end at any cell.

- `ControlMessagesHandledAsSent`, `ObjectsAppendedAsSent`, `StreamsReadToTheEnd`: the three
  properties of the run, on control, GROUP and TRACK streams. The first half of the module
  is about the codecs: for each reader of a field, then for each message, header and object,
  that it takes exactly the cells that were written for it, whatever is behind them, and
  that one that is cut off leaves nothing. This is carried through a Parse by `Before(st, m,
  b, rest, t)`: the reader has filled in m, and what it has before it is the cells b still
  to be read and then rest, or a part of b. The second half is the stream. `ReaderInv` says
  where the reader is: unless it has come past a message that misframes, what is on the wire
  and what was lost are together the cells of the messages it has not handled, so the next
  read begins where a message does. What was handled before is then never looked at again,
  except that each message handled whole keeps having at least as many cells behind it as
  are on the wire or lost.
- The cells of a stream are put together with `FlattenSeq`, and parameters are read by a
  recursive function; both are unfolded by induction (below).

**Induction.** The library's induction theorems take a predicate as a parameter, which the
provers cannot instantiate. `WFMin` takes a set instead, and gives induction over a set of
numbers (`SetInduction`); a recursive function is unfolded by showing, by that induction,
that its equation has a solution, whereupon the CHOOSE behind its definition is one.

`PubInv`, `PumpInv`, `ReplayInv` and `ReaderInv` imply the invariants that
`published_stream`, `listener`, `relay_cache` and `wire` check and are not checked separately
by a run (`ReaderInv` quantifies over all sequences of cells); the other inductive invariants
are.

Only model-checked is everything about liveness and fairness, which is out of the prover's
reach: `ParkedPipeDelivers`, `ReachedPipeFinishes`, `FailedRelayPipeCloses`, `NewStreamReturns`,
`ForwardReleased`, `CloseTerminates`, `SubscribeIsServed`, `Rendezvous`,
`LostSessionIsForgotten`, `DoHandleEnds`, `ConnectionsAreServed`; and that a reader whose
stream has ended is never stuck, which `wire` checks as the absence of deadlock. The two
violated properties are shown by TLC's counterexamples.

## Plan

1. (done) `GroupStream`, `RelayCache` with their proofs, `RelayStream`, `RelayControl`.
2. (done) `Publisher`, `Session`, `Listener`, `Wire` with `StreamReader`.
3. (done) Proofs of the safety properties of every module.
4. (done) The codecs of `Wire`, and with them the stream, for any messages.
5. Open: the hazards that `PROJECT.json` lists without a property. Their interleavings are in
   the models; what should hold of them no document or test says.

## Not modelled

QPACK, TLS and QUIC themselves, the bytes of the HTTP response, logging, and the file,
process and terminal I/O of the examples. `SubStream`'s hand-over of an accepted stream to
the program, a single send on an unbuffered channel, and the window of 25 groups in which
the ffmpeg subscribers sort what they get; the channels from which the ffmpeg publishers
take their input. Relays that connect to each other as peers: the listener never dials, so
a relay has no upstream relay. `removePublisher` and `DeleteStream` have no caller.
