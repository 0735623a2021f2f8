------------------------------ MODULE Download ------------------------------
(***************************************************************************)
(* How a joining process gets its chunks: the scheduler's loop             *)
(* (internal/scheduler/scheduler.go) against the read loops of the peers   *)
(* and the goroutines that watch for their disconnection                   *)
(* (internal/peer/peer.go, swarm.go), wired together in cmd/join.go.       *)
(*                                                                         *)
(* The scheduler keeps one global set of chunks in flight; each peer keeps *)
(* its own.  Nothing updates the two together, and what the properties     *)
(* below say is how far apart they may drift.                              *)
(*                                                                         *)
(* A Peer of the code is one connection; the swarm's map of peers, the     *)
(* tracker and the scheduler's batches are indexed by the ID of the        *)
(* process behind it, which successive connections share.                  *)
(*                                                                         *)
(* Each step is the code between two accesses to shared state that another *)
(* thread can tell apart.  Time is abstracted: any requests may be found   *)
(* older than requestTimeout.  So are priorities and speeds: candidates    *)
(* are taken in any order, by any peer that is not saturated.              *)
(***************************************************************************)
EXTENDS Integers, FiniteSets

CONSTANTS
  ChunkCount,         \* number of chunks in the manifest
  Conns,              \* the connections this process makes, one Peer each
  Ids,                \* the processes behind them
  Host,               \* the one that hosts the video
  IdOf,               \* IdOf[p]: the process behind connection p
  RemoteHas,          \* RemoteHas[i]: chunks process i ends up having
  Closable,           \* the connections that may close
  Faults,             \* what else may fail: "disk" (WriteChunk), "serve"
                      \*   (the remote fails to read a requested chunk)
  MaxTotalInFlight,   \* maxTotalInFlight
  MaxInFlightPerPeer, \* maxInFlightPerPeer
  MaxOwed,            \* bound of the model: a request may time out only
                      \*   while fewer than this many for the same chunk are
                      \*   unanswered
  NoPeer              \* nil

Chunk == 0 .. ChunkCount - 1

ASSUME CountsAssumption == /\ ChunkCount \in Nat \ {0}
                           /\ MaxTotalInFlight \in Nat \ {0}
                           /\ MaxInFlightPerPeer \in Nat \ {0}
                           /\ MaxOwed \in Nat \ {0}
ASSUME PeersAssumption == /\ Host \in Ids
                          /\ IdOf \in [Conns -> Ids]
                          /\ NoPeer \notin Conns
                          /\ Closable \subseteq Conns
                          /\ Faults \subseteq {"disk", "serve"}
                          /\ RemoteHas \in [Ids -> SUBSET Chunk]

VARIABLES
  have, count,    \* the store: chunks marked available, and its count of them
  inFlight,       \* Scheduler.inFlight
  peers,          \* Swarm.peers: the connection registered for each process
  holds,          \* the tracker: holds[i], the chunks i is thought to have
  link,           \* link[p]: "new", "up" or "closed"
  asked,          \* Peer.inFlight: asked[p], the chunks requested from p
  owed,           \* owed[p][c]: pieces of c still to come on connection p
  loop, piece,    \* p's read loop: its step and the chunk it received
  monitor, freed, \* p's disconnection monitor: its step and the chunks to
                  \*   release
  at,             \* the step of the scheduler's loop, and its locals:
  scan, expired,  \*   peers still to check for timeouts; chunks timed out
  snap, budget,   \*   snapshot of inFlight; requests it may still make
  todo, offer,    \*   candidates left; offer[c], the processes that have c
  batch, target   \*   batch[i], chunks to request of i; connection found

storeVars   == <<have, count>>
peerVars    == <<link, asked, owed, loop, piece>>
monitorVars == <<monitor, freed>>
tickVars    == <<at, scan, expired, snap, budget, todo, offer, batch, target>>
vars == <<storeVars, inFlight, peers, holds, peerVars, monitorVars, tickVars>>

NoChunks == [i \in Ids |-> {}]
NoOffers == [c \in Chunk |-> {}]

Init == /\ have = {} /\ count = 0
        /\ inFlight = {}
        /\ peers = [i \in Ids |-> NoPeer]
        /\ holds = NoChunks
        /\ link = [p \in Conns |-> "new"]
        /\ asked = [p \in Conns |-> {}]
        /\ owed = [p \in Conns |-> [c \in Chunk |-> 0]]
        /\ loop = [p \in Conns |-> "read"]
        /\ piece = [p \in Conns |-> 0]
        /\ monitor = [p \in Conns |-> "none"]
        /\ freed = [p \in Conns |-> {}]
        /\ at = "wait"
        /\ scan = {} /\ expired = {}
        /\ snap = {} /\ budget = 0
        /\ todo = {} /\ offer = NoOffers
        /\ batch = NoChunks /\ target = NoPeer

-----------------------------------------------------------------------------
(* The life of a connection. *)

\* A connection to the host has been registered (the first one is made before
\* anything else runs, and a failure to make it ends the program).
Joined == \E p \in Conns : IdOf[p] = Host /\ monitor[p] # "none"

\* One goroutine dials the host, when no connection to it is registered.
MayDialHost == /\ peers[Host] = NoPeer
               /\ \A q \in Conns : IdOf[q] = Host /\ link[q] # "new"
                                     => monitor[q] # "none"

\* ConnectToHost up to Start: a new tracker, with the host's bitfield in it.
ConnectToHost(p) ==
  /\ IdOf[p] = Host /\ link[p] = "new"
  /\ MayDialHost
  /\ holds' = [NoChunks EXCEPT ![Host] = RemoteHas[Host]]
  /\ link' = [link EXCEPT ![p] = "up"]
  /\ UNCHANGED <<storeVars, inFlight, peers, asked, owed, loop, piece,
                 monitorVars, tickVars>>

\* A reconnection that fails once it has read the manifest.
ConnectFails ==
  /\ Joined /\ MayDialHost
  /\ holds' = NoChunks
  /\ UNCHANGED <<storeVars, inFlight, peers, peerVars, monitorVars, tickVars>>

\* Connect, from the peer list of a host: nothing checks whether the process
\* is already connected.
Connect(p) ==
  /\ IdOf[p] # Host /\ link[p] = "new"
  /\ Joined
  /\ link' = [link EXCEPT ![p] = "up"]
  /\ UNCHANGED <<storeVars, inFlight, peers, holds, asked, owed, loop, piece,
                 monitorVars, tickVars>>

\* addPeer; the loops already run.
AddPeer(p) ==
  /\ link[p] # "new"
  /\ monitor[p] = "none"
  /\ peers' = [peers EXCEPT ![IdOf[p]] = p]
  /\ monitor' = [monitor EXCEPT ![p] = "watch"]
  /\ UNCHANGED <<storeVars, inFlight, holds, peerVars, freed, tickVars>>

Nothing == [c \in Chunk |-> 0]

\* A read or write error, or Swarm.Close: nothing more arrives, but the piece
\* that the read loop has just read is handled still.
Close(p) ==
  /\ p \in Closable
  /\ link[p] = "up"
  /\ link' = [link EXCEPT ![p] = "closed"]
  /\ \/ owed' = [owed EXCEPT ![p] = Nothing]
     \/ /\ loop[p] = "read"
        /\ \E c \in Chunk : /\ owed[p][c] > 0
                             /\ owed' = [owed EXCEPT ![p] =
                                           [Nothing EXCEPT ![c] = 1]]
  /\ UNCHANGED <<storeVars, inFlight, peers, holds, asked, loop, piece,
                 monitorVars, tickVars>>

\* The monitor goroutine of addPeer, one lock at a time.
Forget(p) ==
  /\ monitor[p] = "watch"
  /\ link[p] = "closed"
  /\ peers' = [peers EXCEPT ![IdOf[p]] = NoPeer]
  /\ monitor' = [monitor EXCEPT ![p] = "drop"]
  /\ UNCHANGED <<storeVars, inFlight, holds, peerVars, freed, tickVars>>

DropTracker(p) ==
  /\ monitor[p] = "drop"
  /\ holds' = [holds EXCEPT ![IdOf[p]] = {}]
  /\ monitor' = [monitor EXCEPT ![p] = "collect"]
  /\ UNCHANGED <<storeVars, inFlight, peers, peerVars, freed, tickVars>>

Collect(p) ==
  /\ monitor[p] = "collect"
  /\ freed' = [freed EXCEPT ![p] = asked[p]]
  /\ monitor' = [monitor EXCEPT ![p] = "release"]
  /\ UNCHANGED <<storeVars, inFlight, peers, holds, peerVars, tickVars>>

ReleaseLost(p) ==
  /\ monitor[p] = "release"
  /\ inFlight' = inFlight \ freed[p]
  /\ freed' = [freed EXCEPT ![p] = {}]
  /\ monitor' = [monitor EXCEPT ![p] = "done"]
  /\ UNCHANGED <<storeVars, peers, holds, peerVars, tickVars>>

-----------------------------------------------------------------------------
(* The read loop of a peer: PIECE and BITFIELD messages. *)

\* Mutant of RecvPiece: a chunk already stored is stored again.
RecvPieceAgain(p, c) ==
  /\ loop[p] = "read"
  /\ owed[p][c] > 0
  /\ owed' = [owed EXCEPT ![p][c] = @ - 1]
  /\ asked' = [asked EXCEPT ![p] = @ \ {c}]
  /\ piece' = [piece EXCEPT ![p] = c]
  /\ loop' = [loop EXCEPT ![p] = "store"]
  /\ UNCHANGED <<storeVars, inFlight, peers, holds, link, monitorVars,
                 tickVars>>

\* ClearInFlight, then the check at the start of WriteChunk.
RecvPiece(p, c) ==
  /\ loop[p] = "read"
  /\ owed[p][c] > 0
  /\ owed' = [owed EXCEPT ![p][c] = @ - 1]
  /\ asked' = [asked EXCEPT ![p] = @ \ {c}]
  /\ piece' = [piece EXCEPT ![p] = c]
  /\ loop' = [loop EXCEPT ![p] = IF c \in have THEN "notify" ELSE "store"]
  /\ UNCHANGED <<storeVars, inFlight, peers, holds, link, monitorVars,
                 tickVars>>

StorePiece(p) ==
  /\ loop[p] = "store"
  /\ have' = have \cup {piece[p]}
  /\ count' = count + 1
  /\ loop' = [loop EXCEPT ![p] = "notify"]
  /\ UNCHANGED <<inFlight, peers, holds, link, asked, owed, piece,
                 monitorVars, tickVars>>

\* WriteChunk returns an error: the callback logs it and returns.
StoreFails(p) ==
  /\ "disk" \in Faults
  /\ loop[p] = "store"
  /\ loop' = [loop EXCEPT ![p] = "read"]
  /\ UNCHANGED <<storeVars, inFlight, peers, holds, link, asked, owed, piece,
                 monitorVars, tickVars>>

\* Scheduler.OnPieceReceived.
NotifyScheduler(p) ==
  /\ loop[p] = "notify"
  /\ inFlight' = inFlight \ {piece[p]}
  /\ loop' = [loop EXCEPT ![p] = "read"]
  /\ UNCHANGED <<storeVars, peers, holds, link, asked, owed, piece,
                 monitorVars, tickVars>>

RecvBitfield(p) ==
  /\ link[p] = "up" /\ loop[p] = "read"
  /\ loop' = [loop EXCEPT ![p] = "bitfield"]
  /\ UNCHANGED <<storeVars, inFlight, peers, holds, link, asked, owed, piece,
                 monitorVars, tickVars>>

\* Mutant of UpdateTracker: the host's bitfields are ignored, as it has every
\* chunk from the start.
UpdateJoinersOnly(p) ==
  /\ loop[p] = "bitfield"
  /\ \E B \in SUBSET RemoteHas[IdOf[p]] :
       /\ holds[IdOf[p]] \subseteq B
       /\ holds' = IF IdOf[p] = Host THEN holds
                                     ELSE [holds EXCEPT ![IdOf[p]] = B]
  /\ loop' = [loop EXCEPT ![p] = "read"]
  /\ UNCHANGED <<storeVars, inFlight, peers, link, asked, owed, piece,
                 monitorVars, tickVars>>

\* A joiner may have downloaded more chunks since its last bitfield.
UpdateTracker(p) ==
  /\ loop[p] = "bitfield"
  /\ \E B \in SUBSET RemoteHas[IdOf[p]] :
       /\ holds[IdOf[p]] \subseteq B
       /\ IdOf[p] = Host => B = RemoteHas[Host]
       /\ holds' = [holds EXCEPT ![IdOf[p]] = B]
  /\ loop' = [loop EXCEPT ![p] = "read"]
  /\ UNCHANGED <<storeVars, inFlight, peers, link, asked, owed, piece,
                 monitorVars, tickVars>>

-----------------------------------------------------------------------------
(* Scheduler.Run and tick. *)

\* Mutant of Tick: peers that are gone are not skipped.
TicksOverGone ==
  /\ at = "wait" /\ Joined
  /\ count # ChunkCount
  /\ at' = "expire"
  /\ scan' = {peers[i] : i \in Ids}
  /\ UNCHANGED <<storeVars, inFlight, peers, holds, peerVars, monitorVars,
                 expired, snap, budget, todo, offer, batch, target>>

\* The ticker fires: stop if the store is complete, else start a tick.  The
\* loop is started once the host's connection is registered.
Tick == /\ at = "wait"
        /\ Joined
        /\ IF count = ChunkCount
           THEN /\ at' = "stopped"
                /\ UNCHANGED scan
           ELSE /\ at' = "expire"
                /\ scan' = {peers[i] : i \in Ids} \ {NoPeer}
        /\ UNCHANGED <<storeVars, inFlight, peers, holds, peerVars,
                       monitorVars, expired, snap, budget, todo, offer, batch,
                       target>>

\* Mutant of Expire: the peer keeps the requests it reports.
ExpireKeeps(p, S) ==
  /\ at = "expire"
  /\ p \in scan
  /\ S \subseteq {c \in asked[p] : owed[p][c] < MaxOwed}
  /\ scan' = scan \ {p}
  /\ expired' = expired \cup S
  /\ UNCHANGED <<storeVars, inFlight, peers, holds, peerVars, monitorVars, at,
                 snap, budget, todo, offer, batch, target>>

\* TimeoutInFlight finds the requests S too old.
Expire(p, S) ==
  /\ at = "expire"
  /\ p \in scan
  /\ S \subseteq {c \in asked[p] : owed[p][c] < MaxOwed}
  /\ scan' = scan \ {p}
  /\ asked' = [asked EXCEPT ![p] = @ \ S]
  /\ expired' = expired \cup S
  /\ UNCHANGED <<storeVars, inFlight, peers, holds, link, owed, loop, piece,
                 monitorVars, at, snap, budget, todo, offer, batch, target>>

\* Mutants of Look: the chunks timed out are not released; the budget is the
\* limit itself.
LookKeepsExpired ==
  /\ at = "expire"
  /\ scan = {}
  /\ expired' = {}
  /\ budget' = MaxTotalInFlight - Cardinality(inFlight)
  /\ snap' = IF budget' > 0 THEN inFlight ELSE {}
  /\ at' = IF budget' > 0 THEN "missing" ELSE "wait"
  /\ UNCHANGED <<storeVars, inFlight, peers, holds, peerVars, monitorVars,
                 scan, todo, offer, batch, target>>

LookGrantsAll ==
  /\ at = "expire"
  /\ scan = {}
  /\ inFlight' = inFlight \ expired
  /\ expired' = {}
  /\ budget' = MaxTotalInFlight
  /\ snap' = inFlight'
  /\ at' = "missing"
  /\ UNCHANGED <<storeVars, peers, holds, peerVars, monitorVars, scan, todo,
                 offer, batch, target>>

\* ReleaseInFlight, then the snapshot.  Two critical sections; in between,
\* the other threads only remove chunks from inFlight.
Look == /\ at = "expire"
        /\ scan = {}
        /\ inFlight' = inFlight \ expired
        /\ expired' = {}
        /\ budget' = MaxTotalInFlight - Cardinality(inFlight')
        /\ snap' = IF budget' > 0 THEN inFlight' ELSE {}
        /\ at' = IF budget' > 0 THEN "missing" ELSE "wait"
        /\ UNCHANGED <<storeVars, peers, holds, peerVars, monitorVars, scan,
                       todo, offer, batch, target>>

MissingChunks ==
  /\ at = "missing"
  /\ todo' = Chunk \ have
  /\ at' = IF todo' = {} THEN "wait" ELSE "rank"
  /\ UNCHANGED <<storeVars, inFlight, peers, holds, peerVars, monitorVars,
                 scan, expired, snap, budget, offer, batch, target>>

PeersWithChunk(c) == {i \in Ids : c \in holds[i]}

\* Mutant of PrioritizeChunks: chunks in flight are not excluded.
PrioritizeAll ==
  /\ at = "rank"
  /\ todo' = {c \in todo : PeersWithChunk(c) # {}}
  /\ offer' = [c \in Chunk |-> IF c \in todo' THEN PeersWithChunk(c) ELSE {}]
  /\ snap' = {}
  /\ at' = IF todo' = {} THEN "wait" ELSE "assign"
  /\ UNCHANGED <<storeVars, inFlight, peers, holds, peerVars, monitorVars,
                 scan, expired, budget, batch, target>>

PrioritizeChunks ==
  /\ at = "rank"
  /\ todo' = {c \in todo \ snap : PeersWithChunk(c) # {}}
  /\ offer' = [c \in Chunk |-> IF c \in todo' THEN PeersWithChunk(c) ELSE {}]
  /\ snap' = {}
  /\ at' = IF todo' = {} THEN "wait" ELSE "assign"
  /\ UNCHANGED <<storeVars, inFlight, peers, holds, peerVars, monitorVars,
                 scan, expired, budget, batch, target>>

\* The processes whose peer SelectPeer may return.
Selectable(c) ==
  {i \in offer[c] : /\ peers[i] # NoPeer
                    /\ Cardinality(asked[peers[i]]) < MaxInFlightPerPeer}

\* Mutant of Assign: the budget is not checked.
AssignFreely(c, i) ==
  /\ at = "assign"
  /\ c \in todo
  /\ i \in Selectable(c)
  /\ batch' = [batch EXCEPT ![i] = @ \cup {c}]
  /\ inFlight' = inFlight \cup {c}
  /\ budget' = budget - 1
  /\ todo' = todo \ {c}
  /\ UNCHANGED <<storeVars, peers, holds, peerVars, monitorVars, at, scan,
                 expired, snap, offer, target>>

Assign(c, i) ==
  /\ at = "assign"
  /\ budget > 0
  /\ c \in todo
  /\ i \in Selectable(c)
  /\ batch' = [batch EXCEPT ![i] = @ \cup {c}]
  /\ inFlight' = inFlight \cup {c}
  /\ budget' = budget - 1
  /\ todo' = todo \ {c}
  /\ UNCHANGED <<storeVars, peers, holds, peerVars, monitorVars, at, scan,
                 expired, snap, offer, target>>

Skip(c) ==
  /\ at = "assign"
  /\ budget > 0
  /\ c \in todo
  /\ Selectable(c) = {}
  /\ todo' = todo \ {c}
  /\ UNCHANGED <<storeVars, inFlight, peers, holds, peerVars, monitorVars, at,
                 scan, expired, snap, budget, offer, batch, target>>

AssignDone ==
  /\ at = "assign"
  /\ todo = {} \/ budget = 0
  /\ at' = "send"
  /\ todo' = {} /\ offer' = NoOffers /\ budget' = 0
  /\ UNCHANGED <<storeVars, inFlight, peers, holds, peerVars, monitorVars,
                 scan, expired, snap, batch, target>>

\* RequestChunks, up to the lookup: a peer that is gone takes its batch along.
Lookup(i) ==
  /\ at = "send"
  /\ target = NoPeer
  /\ batch[i] # {}
  /\ target' = peers[i]
  /\ batch' = IF peers[i] = NoPeer THEN [batch EXCEPT ![i] = {}] ELSE batch
  /\ UNCHANGED <<storeVars, inFlight, peers, holds, peerVars, monitorVars, at,
                 scan, expired, snap, budget, todo, offer>>

\* Mutant of Request: the chunks are not marked as in flight at the peer.
RequestUnmarked(p, S) ==
  LET chunks == batch[IdOf[p]] IN
  /\ at = "send"
  /\ target = p
  /\ S \subseteq chunks
  /\ "serve" \in Faults \/ S = chunks
  /\ owed' = IF link[p] = "up"
             THEN [owed EXCEPT ![p] =
                     [c \in Chunk |-> IF c \in S THEN @[c] + 1 ELSE @[c]]]
             ELSE owed
  /\ batch' = [batch EXCEPT ![IdOf[p]] = {}]
  /\ target' = NoPeer
  /\ UNCHANGED <<storeVars, inFlight, peers, holds, link, asked, loop, piece,
                 monitorVars, at, scan, expired, snap, budget, todo, offer>>

\* RequestChunks, after it: MarkInFlight for each chunk, and Send.  The REQUEST
\* handler at the other end sends the pieces S and skips the chunks it fails
\* to read.
Request(p, S) ==
  LET chunks == batch[IdOf[p]] IN
  /\ at = "send"
  /\ target = p
  /\ S \subseteq chunks
  /\ "serve" \in Faults \/ S = chunks
  /\ asked' = [asked EXCEPT ![p] = @ \cup chunks]
  /\ owed' = IF link[p] = "up"
             THEN [owed EXCEPT ![p] =
                     [c \in Chunk |-> IF c \in S THEN @[c] + 1 ELSE @[c]]]
             ELSE owed
  /\ batch' = [batch EXCEPT ![IdOf[p]] = {}]
  /\ target' = NoPeer
  /\ UNCHANGED <<storeVars, inFlight, peers, holds, link, loop, piece,
                 monitorVars, at, scan, expired, snap, budget, todo, offer>>

TickDone ==
  /\ at = "send"
  /\ target = NoPeer
  /\ batch = NoChunks
  /\ at' = "wait"
  /\ UNCHANGED <<storeVars, inFlight, peers, holds, peerVars, monitorVars,
                 scan, expired, snap, budget, todo, offer, batch, target>>

-----------------------------------------------------------------------------
Monitor(p) == Forget(p) \/ DropTracker(p) \/ Collect(p) \/ ReleaseLost(p)

Handle(p) == \/ StorePiece(p)
             \/ StoreFails(p)
             \/ NotifyScheduler(p)
             \/ UpdateTracker(p)

Scheduler == \/ Tick
             \/ \E p \in Conns : \E S \in SUBSET asked[p] : Expire(p, S)
             \/ Look
             \/ MissingChunks
             \/ PrioritizeChunks
             \/ \E c \in Chunk : Skip(c) \/ \E i \in Ids : Assign(c, i)
             \/ AssignDone
             \/ \E i \in Ids : Lookup(i)
             \/ \E p \in Conns : \E S \in SUBSET batch[IdOf[p]] : Request(p, S)
             \/ TickDone

\* The goroutines that make a connection.
Establish(p) == ConnectToHost(p) \/ Connect(p) \/ AddPeer(p)

Next == \/ Scheduler
        \/ ConnectFails
        \/ \E p \in Conns : \/ Establish(p)
                            \/ Close(p)
                            \/ Monitor(p)
                            \/ RecvBitfield(p)
                            \/ Handle(p)
                            \/ \E c \in Chunk : RecvPiece(p, c)

\* Requests of p that are older than requestTimeout whatever the timing of the
\* ticks: those for which no answer is on its way.
ExpireStale(p) ==
  \E S \in SUBSET asked[p] : /\ {c \in asked[p] : owed[p][c] = 0} \subseteq S
                             /\ Expire(p, S)

\* A request for c that the remote answers.
Served(p, c) == \E S \in SUBSET batch[IdOf[p]] : c \in S /\ Request(p, S)

FullBitfield(p) == /\ UpdateTracker(p)
                   /\ holds'[IdOf[p]] = RemoteHas[IdOf[p]]

\* Goroutines that can run do.  A process that keeps being asked for chunks ends
\* up sending one, and a connection that keeps holding pieces ends up delivering
\* one.  Bitfields are sent every second, and those of a process that has all it
\* will have come in the end.
Fairness ==
  /\ WF_vars(Scheduler)
  /\ \A p \in Conns : /\ WF_vars(Establish(p))
                      /\ WF_vars(Monitor(p))
                      /\ WF_vars(Handle(p))
                      /\ WF_vars(RecvBitfield(p))
                      /\ SF_vars(FullBitfield(p))
                      /\ SF_vars(ExpireStale(p))
                      /\ SF_vars(\E c \in Chunk : RecvPiece(p, c))
                      /\ SF_vars(\E c \in Chunk : Served(p, c))

Safe == Init /\ [][Next]_vars
Spec == Safe /\ Fairness

-----------------------------------------------------------------------------
(* Properties. *)

\* Every variable has its type.
TypeOK ==
  /\ have \subseteq Chunk /\ count \in Nat
  /\ inFlight \subseteq Chunk
  /\ peers \in [Ids -> Conns \cup {NoPeer}]
  /\ holds \in [Ids -> SUBSET Chunk]
  /\ link \in [Conns -> {"new", "up", "closed"}]
  /\ asked \in [Conns -> SUBSET Chunk]
  /\ owed \in [Conns -> [Chunk -> Nat]]
  /\ loop \in [Conns -> {"read", "store", "notify", "bitfield"}]
  /\ piece \in [Conns -> Chunk]
  /\ monitor \in [Conns -> {"none", "watch", "drop", "collect", "release",
                            "done"}]
  /\ freed \in [Conns -> SUBSET Chunk]
  /\ at \in {"wait", "expire", "missing", "rank", "assign", "send", "stopped"}
  /\ scan \subseteq Conns /\ expired \subseteq Chunk
  /\ snap \subseteq Chunk /\ budget \in Int
  /\ todo \subseteq Chunk /\ offer \in [Chunk -> SUBSET Ids]
  /\ batch \in [Ids -> SUBSET Chunk] /\ target \in Conns \cup {NoPeer}

\* maxTotalInFlight bounds the chunks in flight at every moment of a tick,
\* although the budget is computed once, from a snapshot.
TotalBound == Cardinality(inFlight) <= MaxTotalInFlight

\* maxInFlightPerPeer is compared with what the peer is asked while batches are
\* filled, and they are marked after: a whole batch may come on top of it.
PerPeerBound ==
  \A p \in Conns :
    Cardinality(asked[p]) <= MaxInFlightPerPeer - 1 + MaxTotalInFlight

\* What the two limits are worth: the total holds; one peer may be asked more
\* than PerPeerLimit, below, says, by up to one batch less one chunk.
Limits == TotalBound /\ PerPeerBound

\* maxInFlightPerPeer "is the maximum number of concurrent chunk requests
\* allowed per peer".
PerPeerLimit == \A p \in Conns : Cardinality(asked[p]) <= MaxInFlightPerPeer

\* A chunk in flight is in somebody's hands: about to be released or
\* requested, awaited from a peer whose disconnection would release it,
\* received, or on its way back from a peer that disconnected.  A chunk that
\* is in no one's hands is never requested again.
InHands(c) ==
  \/ c \in expired
  \/ \E i \in Ids : c \in batch[i]
  \/ \E p \in Conns :
       \/ c \in asked[p] /\ monitor[p] \notin {"release", "done"}
       \/ c \in freed[p]
       \/ loop[p] \in {"store", "notify"} /\ piece[p] = c

Accounted == \A c \in inFlight : InHands(c)

\* Its request cannot be made: the process has disconnected since it was
\* chosen, or the monitor has already collected what to release.
Unrequested(c) ==
  \E i \in Ids :
    /\ c \in batch[i] \ batch'[i]
    /\ \/ peers[i] = NoPeer
       \/ target # NoPeer /\ monitor[target] \in {"release", "done"}

WriteFailed(c) ==
  \E p \in Conns : /\ piece[p] = c
                    /\ loop[p] = "store" /\ loop'[p] = "read"

\* A chunk in flight gets out of everyone's hands in these two ways only:
\* however time-outs, late answers, closed connections and their monitors meet
\* the steps of a tick, none of them loses another.
StrandedOnlyBy ==
  [][\A c \in inFlight' :
       \/ InHands(c)'
       \/ c \in inFlight /\ ~InHands(c)
       \/ Unrequested(c) \/ WriteFailed(c)]_vars

\* "Chunks already in the store or already in-flight are excluded": for that,
\* a missing chunk awaited from a live peer must be one of those in flight.
InFlightCovers ==
  \A p \in Conns : link[p] = "up" => asked[p] \subseteq inFlight \cup have

\* No missing chunk is awaited from two peers at once.
NoDuplicateRequest ==
  \A p, q \in Conns : p # q => asked[p] \cap asked[q] \subseteq have

\* The store's count is right: no two read loops wrote the same chunk.
ExactCount == count = Cardinality(have)

\* Run returns when "the download completes": it does not stop before.
StopsWhenComplete == at = "stopped" => have = Chunk

\* RemovePeer "removes all availability data for a disconnected peer": the
\* tracker knows nothing of a process once its connections are gone.
OnlyLiveAvailable ==
  \A i \in Ids :
    (\A p \in Conns : IdOf[p] = i => link[p] = "new" \/ monitor[p] = "done")
      => holds[i] = {}

\* A request in flight for a missing chunk ends: the chunk arrives, or is
\* released to be requested again.
EveryRequestEnds ==
  \A c \in Chunk : c \in inFlight ~> c \notin inFlight \ have

\* Every chunk is downloaded and then the scheduler stops.
Downloaded == <>[](have = Chunk /\ at = "stopped")

\* With several peers, so it is unless the store counts a chunk twice.
Completes == []ExactCount => Downloaded

\* When connections close and the host is dialled again, so it is unless a
\* chunk is left in flight in no one's hands.
Recovers == [](ExactCount /\ Accounted) => Downloaded
=============================================================================
