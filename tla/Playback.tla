------------------------------ MODULE Playback ------------------------------
(***************************************************************************)
(* A joiner's player while the video is downloaded: Download with what     *)
(* orders its requests (internal/scheduler: the urgent set, the cursor and *)
(* the scores of chunks and peers), and the HTTP server that mpv reads     *)
(* from (internal/player/server.go), which raises the urgency of the       *)
(* chunks it waits for.                                                    *)
(*                                                                         *)
(* Each step of the download is one of Download's, restricted: whatever    *)
(* that module allows but the scores exclude is not done here.  Time and   *)
(* rates are abstracted to levels of speed.                                *)
(***************************************************************************)
EXTENDS Download, Sequences

CONSTANTS
  FileSize, ChunkSize,  \* of the manifest
  PlaybackWindow,
  Readers,              \* the server's handlers
  Requests,             \* the ranges mpv asks for: [first, last]
  Buffer,               \* the most that a handler reads at once
  MaxSpeed,             \* bound of the model: the highest level of speed
  DefaultSpeed,         \* that of 100 KB/s
  Unresponsive          \* connections whose remote never answers a REQUEST

ASSUME PlaybackAssumption ==
  /\ FileSize \in Nat \ {0} /\ ChunkSize \in Nat \ {0}
  /\ ChunkCount = (FileSize + ChunkSize - 1) \div ChunkSize
  /\ PlaybackWindow \in Nat /\ Buffer \in Nat \ {0}
  /\ Requests \subseteq [first : Nat, last : Nat]
  /\ \A g \in Requests : g.first <= g.last
  /\ MaxSpeed \in Nat \ {0} /\ DefaultSpeed \in Nat \ {0}
  /\ Unresponsive \subseteq Conns /\ IsFiniteSet(Ids)
  /\ Unresponsive # {} => "serve" \in Faults

VARIABLES
  urgent,           \* Scheduler.urgent
  cursor,           \* Scheduler.cursor
  want, score,      \* locals of a tick: what it saw of these two; the
                    \*   candidates' scores
  passed,           \* history: what the tick saw in flight, or had no peer for
  clearing,         \* p's read loop still has to remove piece[p] from urgent
  speed,            \* Peer.speed, as a level
  step,             \* a handler's step: "none", "demand", "urgent", "wait",
                    \*   or "done" when it has sent all that was asked
  range,            \* range[r]: the bytes asked for, [first, stop]
  offset, next,     \* demandReadSeeker.offset; the chunk it may demand
  body              \* history: the bytes sent, each the one of that number

orderVars  == <<urgent, cursor, want, score, passed, clearing, speed>>
readerVars == <<step, range, offset, next, body>>
pvars == <<vars, orderVars, readerVars>>

NoWant   == [urgent |-> {}, cursor |-> 0]
NoScores == [c \in Chunk |-> 0]

PInit == /\ Init
         /\ urgent = {} /\ cursor = 0
         /\ want = NoWant /\ score = NoScores /\ passed = {}
         /\ clearing = [p \in Conns |-> FALSE]
         /\ speed = [p \in Conns |-> 0]
         /\ step = [r \in Readers |-> "none"]
         /\ range = [r \in Readers |-> [first |-> 0, stop |-> 0]]
         /\ offset = [r \in Readers |-> 0]
         /\ next = [r \in Readers |-> 0]
         /\ body = [r \in Readers |-> <<>>]

-----------------------------------------------------------------------------
(* The arithmetic of chunks. *)

Least(a, b) == IF a < b THEN a ELSE b

ChunkSizeAt(c) == IF c = ChunkCount - 1 THEN FileSize - c * ChunkSize
                                        ELSE ChunkSize

\* Where WriteChunk puts a chunk.
BytesOf(c) == c * ChunkSize .. c * ChunkSize + ChunkSizeAt(c) - 1

StartChunk(o) == o \div ChunkSize

\* Mutant of EndChunk: the end is not included.
EndChunkAfter(o, n) == (o + n - 1) \div ChunkSize + 1

EndChunk(o, n) == (o + n - 1) \div ChunkSize

\* The bytes that ReadAt returns: those of missing chunks are holes.
Hole == -1
ReadAt(o, n) == [k \in 1 .. n |->
                   IF \E c \in have : o + k - 1 \in BytesOf(c) THEN o + k - 1
                                                               ELSE Hole]

-----------------------------------------------------------------------------
(* A handler: http.ServeContent over demandReadSeeker. *)

Length(r) ==
  Least(Buffer, Least(range[r].stop - offset[r], FileSize - offset[r]))
LastChunk(r) == EndChunk(offset[r], Length(r))

\* A request whose range begins beyond the file is refused, and one that ends
\* there is cut.
Serve(r) ==
  /\ step[r] \in {"none", "done"}
  /\ \E g \in Requests :
       /\ g.first < FileSize
       /\ range' = [range EXCEPT ![r] =
                      [first |-> g.first, stop |-> Least(g.last + 1, FileSize)]]
       /\ offset' = [offset EXCEPT ![r] = g.first]
       /\ next' = [next EXCEPT ![r] = StartChunk(g.first)]
  /\ step' = [step EXCEPT ![r] = "demand"]
  /\ body' = [body EXCEPT ![r] = <<>>]
  /\ UNCHANGED <<vars, orderVars>>

\* HasChunk, by Read and again by Demand.
CheckChunk(r) ==
  /\ step[r] = "demand"
  /\ LET over    == next[r] > LastChunk(r)
         missing == ~over /\ next[r] \notin have
     IN /\ step' = [step EXCEPT ![r] = IF over THEN "wait"
                                       ELSE IF missing THEN "urgent" ELSE @]
        /\ next' = [next EXCEPT ![r] = IF over THEN 0
                                       ELSE IF missing THEN @ ELSE @ + 1]
  /\ UNCHANGED <<vars, orderVars, range, offset, body>>

Demand(r) ==
  /\ step[r] = "urgent"
  /\ urgent' = urgent \cup {next[r]}
  /\ next' = [next EXCEPT ![r] = @ + 1]
  /\ step' = [step EXCEPT ![r] = "demand"]
  /\ UNCHANGED <<vars, cursor, want, score, passed, clearing, speed, range,
                 offset, body>>

\* Mutant of ReadBytes: it waits for the first chunk only.
ReadsEarly(r) ==
  /\ step[r] = "wait"
  /\ StartChunk(offset[r]) \in have
  /\ body' = [body EXCEPT ![r] = @ \o ReadAt(offset[r], Length(r))]
  /\ offset' = [offset EXCEPT ![r] = @ + Length(r)]
  /\ step' = [step EXCEPT ![r] = IF offset'[r] = range[r].stop THEN "done"
                                 ELSE "demand"]
  /\ next' = [next EXCEPT ![r] = IF step'[r] = "done" THEN 0
                                 ELSE StartChunk(offset'[r])]
  /\ UNCHANGED <<vars, orderVars, range>>

\* ReadBytes, once WaitForChunk has returned for each chunk; then the response
\* is written and the next Read begins.
ReadBytes(r) ==
  /\ step[r] = "wait"
  /\ StartChunk(offset[r]) .. LastChunk(r) \subseteq have
  /\ body' = [body EXCEPT ![r] = @ \o ReadAt(offset[r], Length(r))]
  /\ offset' = [offset EXCEPT ![r] = @ + Length(r)]
  /\ step' = [step EXCEPT ![r] = IF offset'[r] = range[r].stop THEN "done"
                                 ELSE "demand"]
  /\ next' = [next EXCEPT ![r] = IF step'[r] = "done" THEN 0
                                 ELSE StartChunk(offset'[r])]
  /\ UNCHANGED <<vars, orderVars, range>>

\* mpv has closed the connection (to seek, or to end), which a handler learns
\* when it writes what it has read.
WriteFails(r) ==
  /\ step[r] = "demand" /\ body[r] # <<>>
  /\ step' = [step EXCEPT ![r] = "none"]
  /\ next' = [next EXCEPT ![r] = 0]
  /\ UNCHANGED <<vars, orderVars, range, offset, body>>

-----------------------------------------------------------------------------
(* The cursor, and what else of the scheduler orders its requests. *)

\* Mutant of CursorAt: a position at the end is not in any chunk.
CursorUnbounded(b) == IF b < 0 THEN 0 ELSE b \div ChunkSize

CursorAt(b) == LET c == b \div ChunkSize
               IN IF c >= ChunkCount THEN ChunkCount - 1
                  ELSE IF c < 0 THEN 0 ELSE c

\* The loop of cmd/join.go: the position, as a byte, may lie outside the file.
SetCursor ==
  /\ \E b \in -1 .. FileSize + 1 : cursor' = CursorAt(b)
  /\ cursor' # cursor
  /\ UNCHANGED <<vars, urgent, want, score, passed, clearing, speed,
                 readerVars>>

\* Mutant of OnPieceReceived: nothing is urgent any more.
ForgetsUrgent(p) ==
  /\ clearing[p]
  /\ urgent' = {}
  /\ clearing' = [clearing EXCEPT ![p] = FALSE]
  /\ UNCHANGED <<vars, cursor, want, score, passed, speed, readerVars>>

\* The second critical section of OnPieceReceived; NotifyScheduler is the first.
OnPieceReceived(p) ==
  /\ clearing[p]
  /\ urgent' = urgent \ {piece[p]}
  /\ clearing' = [clearing EXCEPT ![p] = FALSE]
  /\ UNCHANGED <<vars, cursor, want, score, passed, speed, readerVars>>

\* Mutant of ScoreOf: the window comes before what is demanded.
WindowFirst(c) ==
  IF c \in want.cursor .. want.cursor + PlaybackWindow - 1
  THEN c - want.cursor
  ELSE IF c \in want.urgent THEN 100
  ELSE 1000 + Cardinality(PeersWithChunk(c))

\* scoreChunk
ScoreOf(c) ==
  IF c \in want.urgent THEN 0
  ELSE IF c \in want.cursor .. want.cursor + PlaybackWindow - 1
       THEN 100 + c - want.cursor
  ELSE 1000 + Cardinality(PeersWithChunk(c))

SpeedOf(p) == IF speed[p] = 0 THEN DefaultSpeed ELSE speed[p]

\* peerScore: whether i's is the best of those that SelectPeer compares.
Best(c, i) ==
  \A j \in Selectable(c) :
    SpeedOf(peers[j]) * (1 + Cardinality(asked[peers[i]]))
      <= SpeedOf(peers[i]) * (1 + Cardinality(asked[peers[j]]))

First(c) == \A d \in todo : score[c] <= score[d]

\* A peer's speed after n requests have timed out: zero stays zero, and what is
\* left of another stays above it.
Halved(v, n) == IF v > 2 ^ n THEN v \div 2 ^ n ELSE Least(v, 1)

-----------------------------------------------------------------------------
(* The steps of the download. *)

\* Its speed is an average of the old one and any other.
Receive(p, c) ==
  /\ ~clearing[p]
  /\ RecvPiece(p, c)
  /\ \E v \in 1 .. MaxSpeed :
       /\ 10 * v >= 7 * speed[p]
       /\ speed' = IF c \in asked[p] THEN [speed EXCEPT ![p] = v] ELSE speed
  /\ UNCHANGED <<urgent, cursor, want, score, passed, clearing, readerVars>>

Notify(p) == /\ NotifyScheduler(p)
             /\ clearing' = [clearing EXCEPT ![p] = TRUE]
             /\ UNCHANGED <<urgent, cursor, want, score, passed, speed,
                            readerVars>>

OrderUnchanged == UNCHANGED <<orderVars, readerVars>>

TimeOut(p, S) ==
  /\ Expire(p, S)
  /\ speed' = [speed EXCEPT ![p] = Halved(@, Cardinality(S))]
  /\ UNCHANGED <<urgent, cursor, want, score, passed, clearing, readerVars>>

\* Snapshots of the urgent set and the cursor, and MissingChunks.
Survey ==
  /\ MissingChunks
  /\ want' = IF at' = "wait" THEN NoWant
             ELSE [urgent |-> urgent, cursor |-> cursor]
  /\ UNCHANGED <<urgent, cursor, score, passed, clearing, speed, readerVars>>

Rank ==
  /\ PrioritizeChunks
  /\ score' = [c \in Chunk |-> IF c \in todo' THEN ScoreOf(c) ELSE 0]
  /\ want' = IF at' = "wait" THEN NoWant ELSE want
  /\ passed' = IF at' = "wait" THEN {} ELSE snap
  /\ UNCHANGED <<urgent, cursor, clearing, speed, readerVars>>

\* One candidate, in the order of their scores.
Choose(c, i) == First(c) /\ Assign(c, i) /\ Best(c, i) /\ OrderUnchanged

PassOver(c) ==
  /\ First(c) /\ Skip(c)
  /\ passed' = passed \cup {c}
  /\ UNCHANGED <<urgent, cursor, want, score, clearing, speed, readerVars>>

Chosen == /\ AssignDone
          /\ want' = NoWant /\ score' = NoScores /\ passed' = {}
          /\ UNCHANGED <<urgent, cursor, clearing, speed, readerVars>>

PScheduler ==
  \/ /\ \/ Tick \/ Look \/ TickDone
        \/ \E i \in Ids : Lookup(i)
        \/ \E p \in Conns : \E S \in SUBSET batch[IdOf[p]] :
             (p \in Unresponsive => S = {}) /\ Request(p, S)
     /\ OrderUnchanged
  \/ \E p \in Conns : \E S \in SUBSET asked[p] : TimeOut(p, S)
  \/ Survey \/ Rank \/ Chosen
  \/ \E c \in Chunk : PassOver(c) \/ \E i \in Ids : Choose(c, i)

ReadLoop(p) ==
  \/ (StorePiece(p) \/ StoreFails(p) \/ UpdateTracker(p)) /\ OrderUnchanged
  \/ Notify(p)
  \/ OnPieceReceived(p)

Bitfield(p) == ~clearing[p] /\ RecvBitfield(p) /\ OrderUnchanged

Handler(r) == CheckChunk(r) \/ Demand(r) \/ ReadBytes(r) \/ WriteFails(r)

\* A new connection is a new Peer, of speed 0.
PNext ==
  \/ PScheduler
  \/ SetCursor
  \/ ConnectFails /\ OrderUnchanged
  \/ \E p \in Conns :
       \/ (Establish(p) \/ Close(p) \/ Monitor(p)) /\ OrderUnchanged
       \/ Bitfield(p) \/ ReadLoop(p)
       \/ \E c \in Chunk : Receive(p, c)
  \/ \E r \in Readers : Serve(r) \/ Handler(r)

\* As in Download, for the remotes that respond; handlers run, and of equal
\* peers (which come in the random order of a map) none is left out for ever.
PFairness ==
  /\ WF_pvars(PScheduler)
  /\ \A i \in Ids : SF_pvars(\E c \in Chunk : Choose(c, i))
  /\ \A r \in Readers : WF_pvars(CheckChunk(r) \/ Demand(r) \/ ReadBytes(r))
  /\ \A p \in Conns :
       /\ WF_pvars((Establish(p) \/ Monitor(p)) /\ OrderUnchanged)
       /\ WF_pvars(ReadLoop(p))
       /\ WF_pvars(Bitfield(p))
       /\ SF_pvars(FullBitfield(p) /\ OrderUnchanged)
       /\ SF_pvars(\E S \in SUBSET asked[p] :
                     /\ {c \in asked[p] : owed[p][c] = 0} \subseteq S
                     /\ TimeOut(p, S))
       /\ SF_pvars(\E c \in Chunk : Receive(p, c))
       /\ p \notin Unresponsive
            => SF_pvars((\E c \in Chunk : Served(p, c)) /\ OrderUnchanged)

PSpec == PInit /\ [][PNext]_pvars /\ PFairness

-----------------------------------------------------------------------------
(* Properties. *)

\* Every variable has its type.
PTypeOK ==
  /\ urgent \subseteq Chunk /\ cursor \in Chunk
  /\ want.urgent \subseteq Chunk /\ want.cursor \in Chunk
  /\ passed \subseteq Chunk
  /\ score \in [Chunk -> Nat]
  /\ clearing \in [Conns -> BOOLEAN]
  /\ speed \in [Conns -> 0 .. MaxSpeed]
  /\ step \in [Readers -> {"none", "demand", "urgent", "wait", "done"}]
  /\ \A r \in Readers : /\ range[r].first \in 0 .. FileSize - 1
                        /\ range[r].stop \in 0 .. FileSize
                        /\ offset[r] \in 0 .. range[r].stop
                        /\ next[r] \in 0 .. ChunkCount

\* mpv gets the bytes it asked for, in order and none of them a hole, and all
\* of them before the response ends.
BodyRight ==
  \A r \in Readers :
    LET g == range[r] IN
    /\ \A k \in DOMAIN body[r] : body[r][k] = g.first + k - 1
    /\ step[r] = "done" => Len(body[r]) = g.stop - g.first

\* A chunk that a handler waits for is in the store or urgent, however its
\* demand meets the arrival of that chunk or of others.
WaitedIsUrgent ==
  \A r \in Readers :
    step[r] = "wait"
      => StartChunk(offset[r]) .. LastChunk(r) \subseteq urgent \cup have

\* No chunk is requested for the window or for its rarity while one that was
\* urgent when the tick began is missing and could be, unless that one was in
\* flight then, is about to be requested, or found no peer when its turn came.
PlayerFirst ==
  [][\A c \in inFlight' \ inFlight :
       \/ c \in want.urgent
       \/ \A d \in want.urgent \ (have \cup passed) :
            Selectable(d) = {} \/ \E i \in Ids : d \in batch[i]]_pvars

\* Every response ends, whatever else is downloaded first and whichever
\* requests are lost, unless the joiner is cut off from the others.
ResponsesEnd ==
  \A r \in Readers :
    step[r] = "demand"
      ~> step[r] \in {"none", "done"} \/ \A p \in Conns : link[p] = "closed"

\* In whatever order the scores and the player have the chunks requested, all
\* of them come while a connection lasts.
DownloadedUnlessCut ==
  [](\E p \in Conns : link[p] # "closed") => Downloaded

\* A timeout is to "discourage selecting this stalled/slow peer": the chunks
\* of a peer that never answers are in the end requested from one that does.
StalledIsAvoided == []ExactCount => Downloaded
=============================================================================
