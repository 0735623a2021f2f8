# TLA+ models of peerwatch

peerwatch lets friends watch the host's video together: the host serves the
file in chunks over TCP, joiners download them from the host (and from each
other), feed them to mpv over a local HTTP server, and follow the host's
playback. This directory holds TLA+ models of it, TLC configurations that check
them, and TLAPS proofs about them. `PROJECT.json` maps every definition to the
lines it models, and lists the runs, the mutants that show each property can
fail, the hazards and the findings.

## The system

| Part | State | Operations | Interacts with |
|---|---|---|---|
| Chunk store (`chunk/store.go`) | bitfield, count, waiters, the file | WriteChunk, ReadChunk, ReadBytes, WaitForChunk, IsComplete | written by read loops, read by HTTP and REQUEST handlers |
| Manifest builder (`chunk/manifest.go`, `chunker.go`) | a pool of workers, two channels | BuildManifest | the file, once, at the host's start |
| Scheduler (`scheduler/scheduler.go`, `strategy.go`) | inFlight, urgent, cursor | Run/tick, OnPieceReceived, ReleaseInFlight, Demand, SetCursor | asks the store, tracker and swarm; called back by read loops, monitors, HTTP |
| Tracker (`peer/tracker.go`) | availability per chunk | UpdateFromBitfield, RemovePeer, Rarity, PeerIDsWithChunk | read loops, monitors, scheduler |
| Peer (`peer/peer.go`) | outCh, inFlight, speed, bitfield, done | Send, MarkInFlight, ClearInFlight, TimeoutInFlight, Close, two loops | one goroutine each for reading and writing |
| Swarm (`peer/swarm.go`) | peers, mu, tracker, hostAddr, done | Listen, Connect, ConnectToHost, handleIncoming, handleMessage, Broadcast, RequestChunks, addPeer and its monitor, Close | everything |
| Wire protocol (`protocol/`) | none | WriteMessage, ReadMessage | the two loops, the handshakes |
| HTTP server (`player/server.go`) | an offset per request | Read, Seek | store, scheduler |
| mpv control (`player/mpv.go`) | pending calls, mu, closed, conn | call, readLoop, Close | mpv over a Unix socket |
| Sync (`sync/sync.go`) | none but mpv's | hostLoop, handleSync, Stop | swarm, mpv |
| Join and start (`cmd/`) | the wiring, the reconnection and cursor loops | | |
| Token (`token/`) | none | encode, decode | |

What is hard in it, and what makes each part right:

- **Store.** Two read loops may write one chunk at once while readers look for
  it. Readers must get verified bytes only, must not miss their wake-up, and
  the count must be the number of chunks.
- **Scheduler and peers.** The scheduler's set of chunks in flight and each
  peer's own are never updated together. A tick works on snapshots while pieces
  arrive, requests time out and connections close. A chunk in flight must stay
  in somebody's hands, must not be awaited twice, and must be downloaded in
  the end; the limits must hold.
- **Playback.** mpv's reads block on chunks whose demand races their arrival;
  ranges meet the boundaries of chunks and of the file. It must get the right
  bytes, first what it waits for, and every response must end.
- **Connection.** A stream of bytes that breaks anywhere, a handshake read by
  position, two loops and a bounded queue at either end that wait for each
  other.
- **Sync.** Several calls that may each fail, to players that users control
  too, on clocks that differ, about positions that were true some time ago.
- **Swarm.** Broadcast holds a lock while it may block. Connections come, go
  and come back with the same ID while the process shuts down.
- **mpv.** Answers race timers; a dead or hung player must not hang callers.
- **Manifest.** Workers must not block for ever, nor use a closed file.

`hazards` in `PROJECT.json` lists each of these at its line.

## The modules

| Module | Models | Checked with |
|---|---|---|
| `BlockingStore` | abstract: what a store promises its readers | (target of a refinement) |
| `ChunkStore` | store.go, step by step | `MCChunkStore` |
| `ChunkStoreProofs` | proofs | |
| `Download` | a joiner: scheduler, tracker, peers, monitors, reconnection, with any priorities | `MCDownload` |
| `DownloadProofs` | proofs | |
| `Playback` | `Download` with its priorities and speeds, the cursor, and the HTTP handlers | `MCPlayback` |
| `PlaybackProofs` | proofs | |
| `Wire` | messages as bytes: encoders, decoders, framing | with `Connection` |
| `WireProofs` | proofs | |
| `Connection` | host and joiner over one connection: handshake, loops, queues, all handlers | `MCConnection` |
| `ConnectionProofs` | proofs | |
| `PlaybackSync` | hostLoop and handleSync over two players | `MCPlaybackSync` |
| `Swarm` | connections of the accepting process: registration, Send and its queue, Broadcast under mu, Close | `MCSwarm` |
| `SwarmProofs` | proofs | |
| `PlayerIPC` | calls to mpv and Close | `MCPlayerIPC` |
| `PlayerIPCProofs` | proofs | |
| `ManifestBuild` | the worker pool of BuildManifest | `MCManifestBuild` |
| `ManifestBuildProofs` | proofs | |

`MC*` modules hold the definitions the configurations instantiate constants
with; each `.cfg` is one run. To run one:
`tlc -config Download_peers.cfg MCDownload.tla`; to check proofs:
`tlapm DownloadProofs.tla`.

### ChunkStore

A step is a stretch of code that takes a lock, uses the file or blocks. `mu`
protects single accesses and needs no variable; `waitMu` has its owner as one,
because WaitForChunk holds it over its second look at the bitfield and the
registration of a channel. A chunk's bytes are the manifest's or not (`good`);
data given to WriteChunk is genuine or forged. Writes may fail, with any part
of the data written. A read is a range of chunks. The REQUEST handler's
ReadChunk is the same reader without the wait (`BeginUpload`).

`BlockingStore` is the promise: chunks appear, a reader that asks for a range is
served when the whole range is there. `Implements` is the refinement, with
`want` mapped to a reader's range while its call is under way.

### Download

One variable for each set the code keeps: `inFlight` (scheduler), `asked[p]`
(the peer's own), `holds` (tracker), `peers` (the swarm's map), `have` and
`count` (store). `owed[p][c]` counts the answers still to come. A Peer of the
code is a connection `p`; the map, the tracker and the batches are by process
ID, which a reconnection shares: `IdOf[p]`. The tick is a sequence of steps
(`at`): time-outs peer by peer, release and snapshot, missing chunks, ranking,
assignment chunk by chunk, and a request per process. In between, read loops
(`loop`), monitors (`monitor`) and connections take theirs.

What is one step though it is several accesses: releasing timed-out chunks and
taking the snapshot (others only remove chunks in between); ClearInFlight and
WriteChunk's first look; choosing a peer for a chunk and adding the chunk to
`inFlight` (only the scheduler adds); marking the batch at the peer and sending
it; ranking, which reads the tracker chunk by chunk; ConnectToHost up to the
start of the loops, which also replaces the tracker. A connection that closes
loses what is under way on it but, perhaps, the piece that its read loop has
just read, which is handled still. Sending always succeeds
here; that it may block is the subject of `Swarm` and `Connection`.

Abstracted: time (any request may be old, up to `MaxOwed` unanswered ones),
priorities (candidates are taken in any order) and speeds (any peer with room
may be chosen). What follows therefore holds of any policy. In the program
as wired by `cmd/`, joiners never listen, so that the host is their only peer;
the runs with two peers cover what `Swarm`'s API and the protocol allow.

### Playback

EXTENDS `Download`: each of its steps is one of Download's, restricted and
joined with what the code does beside it, or a stutter of it (`ImplementsDownload`,
proved). `Survey` adds the snapshots of `urgent` and `cursor` to MissingChunks,
`Rank` the scores, `Choose` takes the candidate with the lowest score and the
peer with the best ratio of speed and requests. The read loop's second critical
section in OnPieceReceived is the step `OnPieceReceived`, flagged by `clearing`.
A speed is a level: an average grows or falls to any value the formula admits,
a time-out halves it, a peer that has none counts as `DefaultSpeed`. The
rarity of a chunk is the size of the tracker's set.

A handler of the server is a reader `r`: `CheckChunk` and `Demand` for each
chunk under the next read, two steps since a chunk may arrive between HasChunk
and the lock, then `ReadBytes` once all are there, of at most `Buffer` bytes,
until the range is sent. The bytes of the file are numbers, so that `body[r]`
shows whether they are the right ones; a hole is none. How WaitForChunk wakes
is `ChunkStore`'s subject. The ranges come from `Requests`; as
http.ServeContent does, `Serve` refuses what begins beyond the file and cuts
what ends there. `SetCursor` is the cursor loop of `cmd/join.go` with any
position, also before and behind the file. A response may be given up
(`WriteFails`), by mpv's next seek for example.

`PlayerFirst` compares what a tick requests with what was urgent at its
snapshot. The history variable `passed` holds the urgent chunks that this tick
rightly has not in a batch: those it saw in flight, and those that had no peer
to ask when their turn came (a peer may have room again later in the tick).

### Wire and Connection

`Wire` has every message as a record, its encoding as a sequence of bytes and
the decoders as the code has them: what is too short is `Garbled`, what follows
the last field is ignored. Fields are as wide as in the code; a byte has
`ByteBits` bits, IDs and hashes are shorter, and `MaxMessageSize` is a constant,
so that widths and limits are met by small messages. Numbers are cut to their
fields by repeated division, at any width, as PutUint32 and the like do.
`Message` is the set of messages whose fields have the types of the code
(`Uint(w)`, `Text`, `List`). The code's decoders of lists allocate the count a
message announces before they read the entries; the model has their outcome,
which for a message that was encoded is the same. `ReadMessage` tells waiting for more bytes
(`Taken = 0`) from refusing what has come.

`Connection` is the two ends of one connection with everything that crosses it
going through `Wire`. `at[s]` is the step of ConnectToHost or handleIncoming,
then "loops". Serving a REQUEST is a sequence of Sends by the read loop, which
looks up one chunk after another and reads nothing meanwhile. A `Break` cuts
what is under way one way at any byte; each side then finds out by a read or a
write (`HangUp`). `Silent` sides stop running. `Plan` is what a side's
broadcasts and requests will send. `got` and `written` are history. `MessagesAssumption` gives the constants the types of the
code: what can be sent is a `Message`, and its length fits the four bytes of the
length field (a message of 4 GB would not; one above 16 MB is refused anyway).
`RequestsAssumption` has REQUESTs ask for chunks of the video only, as the
scheduler does: HasChunk checks no index, and one beyond the bitfield ends the
process, which is not modelled.

### PlaybackSync

All positions are relative to the host's player. Time passes by periods of the
host's ticker, between the steps of one handler call or, when a call is slow,
within it: also between the host's two readings, and between a position the
joiner has read (`Locate`) and the clock it reads then (`CorrectDrift`). The
host's user pauses and resumes, `MaxSwitches` times in all; what else users do
and each call that fails or lasts is one of `MaxDisturbances` disturbances, any
of them more than once. The speed is what it gains in a period, exactly: 5% of
two seconds is the unit. Messages wait in `wire`, behind the pieces that the
same read loop handles, up to `MaxDelay`. That mpv may be at the end of the
file, where it has no position, is a failing call. The connection lasts:
with a SYNC that is lost along with it, a joiner that is paused may miss that
the host played, as if the host had not told it.

handleSync does nothing for a joiner that is paused when the host says PAUSED.
Such a joiner stays where it is until the host plays again, so that
`PausedTogether` cannot hold without exceptions. It names all of them, by
`misled`: the host paused again before it had told that it plays (`said`, a
history variable, is whether its last SYNC was PAUSED); it sought while it was
paused, or sought or moved on between the two readings of one SYNC; the
joiner's user paused or sought; a call of the joiner failed. Each is needed: the
property is refuted without it. `KeepsUp` has no such exception.

### Swarm

The accepting side. `mu` is Go's RWMutex: broadcasts share it (`Shared`), a
goroutine that waits for it exclusively (`Wanted`) holds back new ones. What is
done under the exclusive lock does not block, and is a step. Messages are
counted in `queue[p]`, bounded by `QueueCap` (64 in the code). Remotes read,
stall (`Stalling`) or break (`Failing`). The loops that broadcast are the
bitfield and keepalive loops; the host's sync loop calls the same Broadcast but
ends with its own manager. The shared lock taken for PEER_LIST in the
handshake delays it only and is left out.

### PlayerIPC

A call registers an id, writes with `mu` held, waits. `chan[i]` is the channel
made for request `i`, so that what `OwnAnswer` says is not true by construction
of the model alone: ids come from `reqID`. `unsent` is a history variable. The
timer may fire at any time. mpv answers requests in any order, exits or hangs.

### ManifestBuild

Feeder, workers, closer and caller. Channels are sets with a capacity: the
order does not matter to what is returned. That a chunk cannot be read is found
when it is read.

## Runs

| Run | Shows | Distinct states |
|---|---|---|
| `store` | readers read verified bytes and are not left asleep; the store implements `BlockingStore`, liveness included | 137,584 |
| `download_peers` | in-flight sets agree while connections stay up; the total limit holds, and one peer is asked at most a batch above its own | 5.1 million |
| `download_reconnect` | through disconnection, disk failure and skipped requests a chunk is stranded in two ways only; the download completes unless one is | 23,105 |
| `playback` | mpv gets the right bytes, its chunks first; every response and the download end, unless the joiner is cut off | 95,132 |
| `manifest_build` | the pool ends with the right outcome, file closed last | 635,944 |
| `swarm` | the map agrees with the connections; sends, locks and Close come to an end while remotes read or break | 54,860 |
| `player` | calls get their own answers and return; the read loop never blocks | 34,550 |
| `sync` | the joiner's player ends up with the host's, playing or, unless it was misled, paused, after whatever happened | 634,214 |
| `connection` | messages arrive as written, the handshake ends and is met by what it expects, requests are answered | 50,175 |

Each property of these runs has a mutant of a modelled definition (an operator
whose comment says "Mutant of") that breaks it.

Three runs are counterexamples to what a comment of the code says:

| Run | Comment | What happens |
|---|---|---|
| `download_stops` | Run: "until Stop is called or the download completes" | two answers for one chunk are counted twice, and the scheduler stops with the other missing and never requested |
| `playback_stalled` | TimeoutInFlight: "to discourage selecting this stalled/slow peer" | a peer that never answered has speed 0, which halving leaves and peerScore takes for 100 KB/s: it is preferred for ever to a slower peer that answers |
| `swarm_close` | "disconnects all peers" | Close waits for a broadcast that only Close would free |

### Further configurations

These check the same modules for questions next to the ones above; run them
with `tlc -config <file> MC<module>.tla`. Those of the first table pass.

| Configuration | Property | Shows |
|---|---|---|
| `Download_peers_live.cfg` | `Completes` | with two peers the download completes, unless a chunk is counted twice |
| `Download_host_live.cfg` | `StopsWhenComplete`, `Downloaded`, `EveryRequestEnds` | with one host that skips requests and answers late, every request ends and the scheduler stops when it may |
| `Playback_three.cfg` | `PTypeOK`, `StopsWhenComplete` and the safety of `playback` | a file of three chunks, and seeks between two ranges |
| `PlaybackSync_types.cfg` | `TypeOK` | three disturbances, two switches, delays of four seconds (4.9 million states) |

These end in a counterexample, most of them to a comment or a document:

| Configuration | Property | Shows |
|---|---|---|
| `ChunkStore_count.cfg` | `IsCompleteExact` | with two writers one chunk is counted twice: `download_stops` at its root |
| `Download_stranded.cfg` | `Accounted` | a disconnection during a tick strands chunks, which join.go:92 has "rescheduled instantly" |
| `Download_limit.cfg` | `PerPeerLimit` | a batch exceeds the "maximum number of concurrent chunk requests allowed per peer" |
| `Download_released.cfg` | `InFlightCovers` | the late release of a closed connection's chunks frees what is awaited on the new one |
| `Download_disk.cfg` | `EveryRequestEnds` | a chunk whose write fails is never released, nor timed out |
| `Download_tracker.cfg` | `OnlyLiveAvailable` | a bitfield handled late restores a gone peer |
| `Swarm_same_id.cfg` | `Reachable` | the monitor of an old connection unregisters the new one of the same ID |
| `Swarm_stalled.cfg` | `SendReturns` | Send, "Non-blocking; drops if full", blocks on a stalled remote |
| `Swarm_late.cfg` | `ClosedForAll` | a connection registered after Close stays open |
| `PlayerIPC_quit.cfg` | `QuitBeforeKill` | "Try to exit cleanly first": quit is refused by the closed player |
| `PlayerIPC_stalled.cfg` | `CallsReturn` | a write to a hung mpv, made with the lock held, blocks before the timer starts |
| `PlaybackSync_paused.cfg` | `MatchesPaused` | while the host is paused a joiner that is paused does not follow its seeks, against "adjust their playback speed or seek to match" (docs/architecture.md) |
| `PlaybackSync_again.cfg` | `MatchesPaused` | nor one that resumes and pauses again between two SYNCs |
| `PlaybackSync_late.cfg` | `KeepsUp` | a SYNC more than 5 s old counts as fresh |
| `Connection_silent.cfg` | `DialReturns` | a host that accepts and says nothing holds ConnectToHost for ever |
| `Connection_large.cfg` | `NeverRefused` | a MANIFEST above `MaxMessageSize` is written and then refused |

### Bounds, and why they are enough

- Store: two writers and two readers are the fewest that collide on a chunk and
  wait for the same one; two chunks let a reader's range be half there.
- Download: `download_peers` has three chunks, limits of two in all and one per
  peer, and a second peer with the first chunk only. So a batch of two comes on
  top of a peer's limit, a tick has room left for one while another chunk is in
  flight, and what it saw in flight arrives while it assigns; a chunk that
  timed out at one peer is requested from the other. `MaxOwed` of 2 lets a
  request time out, be repeated and have both answers outstanding. In
  `download_reconnect` two connections to the host are one reconnection; with
  liveness it is smaller: one chunk in flight suffices for it to be timed out,
  moved, lost or stranded while the other is missing. `download_stops` has one
  in flight too, so that the scheduler stops before it has asked for the other.
- Playback: five bytes in chunks of three make a last chunk that is shorter,
  reads of two bytes end across the boundary and at the end, and the range
  begins inside a chunk and ends beyond the file. The connection may be lost
  and the dial that follows fail: with no other, the player then waits for ever,
  which `ResponsesEnd` and `DownloadedUnlessCut` allow. One handler demands while the
  other chunk is requested for the window. `playback_stalled` needs two peers
  and no handler.
- Connection: bytes of 4 bits make 257 a chunk size that needs three bytes and
  MANIFEST the longest message, near the limit; a queue of one is full as the
  64 of the code is, sooner; 30 bytes of socket hold some messages but not the
  manifest with another. `Plan` has each kind of message after the handshake
  but KEEPALIVE and CANCEL, whose handlers do nothing, and an empty piece.
- PlaybackSync: jumps are beyond the threshold of a hard seek. Three switches
  are a pause, a resume and the pause after it, with a SYNC between them or
  not; two disturbances are a seek and a failure, or two slow calls, with the
  rest of the run undisturbed. `Far` stops the players' drift. `MaxDelay` is two
  seconds (`sync` passes with four as well, in 1.8 million states), under
  the 5 s after which the code takes a message for fresh; what a later one does
  is `PlaybackSync_late.cfg`.
- Swarm: `QueueCap` of 1 fills as the 64 of the code does, sooner. Two
  connections, of two joiners or of one that reconnects. `MaxPieces` bounds a
  REQUEST.
- PlayerIPC: three calls by two callers let the answer to a call that timed out
  meet the caller's next call and the other caller's. `SocketRoom` of 1 stands
  for the socket's buffer; a call whose write has to wait is what it is for.
- ManifestBuild: six chunks exceed the capacity (4) of the channels of two
  workers, so that every party can block.

`CHECK_DEADLOCK FALSE` is where the system really stops: a swarm or a player
after Close, a manifest that was built, a connection both sides of which wait
for a message or are closed, a joiner whose host has stopped.

### Fairness

Goroutines that can run do (WF on their steps). Go's channels and mutexes serve
those that wait in turn, which is why SendPiece, SendTo, Connection's Serve and
the steps that take `mu` in PlayerIPC have SF. In Download, a connection that
keeps being asked for chunks sends one in the end (SF on `Served`, for any
chunk and not for each), which fails only for a remote that is broken for good;
TCP delivers in order, so a connection that keeps having pieces under way
delivers one (SF on `RecvPiece`); bitfields come every second; a request nobody
will answer is older than the time-out in the end (`ExpireStale`). A connection
attempt ends, which the code leaves to TCP: handshakes have no deadline.

In Playback the same holds of the remotes that respond, handlers run, and of
peers with equal scores none is left out for ever (SF on `Choose` for a
process): their order is that of a Go map, which is random. In Connection each
goroutine runs unless its process is silent. In PlaybackSync time goes on and
both loops run. No fairness is given to failures, requests of remotes, callers
of mpv, users, broadcasts, Stop, Close, or to an answer of mpv arriving before
the timer.

## Proofs

For all values of the constants (within the named assumptions):

- `ChunkStoreProofs`. From `Typing`: `Verified` (a marked chunk has the right
  bytes), `ReadsVerified` (with an invariant that the chunks a reader has gone
  past are marked), `WakeupsKept` (a registered reader looked again under
  `waitMu`, which the writer needs to signal), `ImplementsSafety` (every step
  is a step or a stutter of `BlockingStore`), and `SingleWriterCount`, under
  the assumption of one writer.
- `DownloadProofs`. `Typing`. `TotalBounded` by `BudgetInv`: chunks in flight
  plus the requests the tick may still make never exceed the limit, since others
  only remove. `PerPeerBounded` by `BatchInv` and `RoomInv`: what a batch adds comes
  from the budget. The two are `LimitsHold`. `OnlyTwoStrand`, an action property
  (`StrandedOnlyBy`), by `FreedInv`, with one step per action: `HandsStep` shows
  who holds a chunk after it, given that it was held before.
  While connections stay up (`Closable = {}`): `Covered` and
  `NoDuplicates`, by `OnePlace` and `CopiesInv` (a chunk not yet stored is in
  one batch or awaited from one peer), and, if also the disk works,
  `NothingStranded` by `Held`. With a single connection, `StopsComplete` by
  `CountInv`: its read loop alone writes, so that the count is exact. These
  hypotheses are needed: `Download_stranded.cfg`, `Download_released.cfg`,
  `Download_disk.cfg` and `download_stops` refute the properties without them.
- `PlaybackProofs`. `ImplementsDownload`: every step of Playback is a step or a
  stutter of Download, so that all of the above holds with the priorities.
  `BodiesRight` by `SentInv` (what was sent is the range up to the offset,
  `SentTo`), for which the lemmas `DivBounds`, `DivMonotone`, `ByteInChunk` and
  `ReadAtRight` show that a read whose first to last chunks are there has no
  holes, whatever the sizes. `WaitedUrgent` by `DemandInv` (all chunks from the
  offset to the one that may be demanded next are urgent or stored) and
  `StoredInv` (a read loop takes off the urgent set only what it has stored).
  `DemandedFirst` proves `PlayerFirst` by `OrderInv`: while a tick assigns, the
  candidates left with score 0 are the urgent ones, and each urgent chunk of the
  snapshot is a candidate still, in a batch, stored, `passed`, or has no peer to
  ask. `ScoreTiers` is the arithmetic: no other chunk scores below 100. Without
  `passed` the property would be false with a limit of two chunks in flight,
  which `Playback_three.cfg` has.
- `ManifestBuildProofs`. `OnePlace`: a chunk is in one channel, with one worker
  or collected, so that collecting as many results as chunks means that no
  worker is left with one. Hence `ClosedLast`; and `OutcomeRight` by `Recorded`.
- `SwarmProofs`. `Typing`. `BroadcastStable` by `BroadcastInv`: whoever still has
  somebody to send to is in its broadcast and holds the lock, and the map
  changes under the exclusive lock only. `Registered` by `RegisteredInv`: with
  any IDs, a process with an open registered connection is in the map unless the
  monitor of another connection of the same ID has run; hence `ReachableIfDistinct`. That hypothesis
  is needed: `Swarm_same_id.cfg` refutes `Reachable` without it.
- `PlayerIPCProofs`. `Typing`, with `IdsInv`: ids that are used were issued.
  `NeverBlocks` and `EntriesOwned` by `TableInv`: an id on the table has an empty
  channel, as it leaves the table when it is answered. `AnswersOwn` by
  `OwnerInv`: no two calls hold an id, and the requests and answers under way,
  and what is on a channel, belong to the call that holds theirs; a call that
  timed out leaves nothing that the next one could take for its own.
- `WireProofs`. `DecodesEncoded`: `Decode(m.type, Payload(m)) = m` for every
  `m \in Message`. Numbers first (`GetPut`: what was put into `w` bytes is got
  from them if it fits, by `PutUint` step by step), then fields (`FieldOfPlaced`:
  a field that stands at an offset is read there), then lists, whose encoding
  consists of those of its elements at running offsets (`FlattenConsists`) that
  the decoder finds again (`WalksExist`), and each message. `ReadsWritten`: a frame
  is read as its message, or refused if it is too long, and until it is
  complete nothing is taken (`TakenWhole`, `TakenTooLong`). Where a proof needs
  induction over the naturals it takes the least counterexample of a set
  (`Least`, `Induction`), since the library's theorem cannot be instantiated.
- `ConnectionProofs`. `StreamInv`: all that a side ever wrote is the frames of
  `written` in a row; the bytes under way lie in it (`Carried`), from the end of
  the last message read on, up to the end of it while the connection is up, and
  what was read are the first of the messages (`Matched`). It is inductive
  because what can be read next is, by `ReadsWritten`, what was written next
  (`NextRead`). Hence `ReadInOrder`, wherever the connection breaks. On top of it
  `HandshakeInv`: the host's first four messages are the greeting and
  the joiner's first its handshake (`SentFirst`), each step of the handshake has
  read a fixed number of messages (`ReadSoFar`), and what the joiner has kept is
  what the host sent (`Learned`, which needs `SentWhole`: the manifest's numbers
  fit their fields). Hence `NothingRefused`, if every message is within
  `MaxMessageSize` (`AllFit`, without which `Connection_large.cfg` refutes it),
  and `KnowsVideo`, whose last part needs that no BITFIELD is empty
  (`NoEmptyBitfield`: so it is for any file with a chunk). `Typing` includes that
  HAVE sets a bit without leaving the byte (`SetBitType`); no run checks these
  types, which the proof covers.

Every invariant and action property of the passing runs is stated by one of
these theorems, within the hypotheses named.

Only model-checked: all liveness (`Implements`' fairness part, `Downloaded`,
`DownloadedUnlessCut`, `EveryRequestEnds`, `Completes`, `Recovers`,
`ResponsesEnd`, `SendReturns`, `LockGranted`, `AllForgotten`, `CallsReturn`,
`CloseReturns`, `EverybodyEnds`, `KeepsUp`, `PausedTogether`, `DialReturns`, `RequestsAnswered`), which is out of
the prover's reach, and the types of `Playback` and `PlaybackSync`.

## Not modelled, and the plan

Next, in the order in which they matter: an abstract specification of a
connection (two queues that may lose their ends) that `Connection` implements, by
`StreamInv`; the types of `Playback`; with connections that close, what a late
release (`Download_released.cfg`) may uncover, as `StrandedOnlyBy` says what
they strand.

Left out for good:

- the token (a pure conversion with unit tests), and `cmd/start.go`, which
  starts the other parts in sequence;
- `Handler` and `Dispatch` of `protocol/handler.go`, which nothing calls;
- handleIncoming of a joiner: Listen panics on one, so that it is never called,
  and the full mesh of the documents does not come about;
- Scheduler.Stop, Server.Close and Store.Close, which run when the process is
  about to exit, and the exit itself;
- starting mpv and its temporary directory, logging and the status display.
