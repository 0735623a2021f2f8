------------------------------- MODULE Swarm -------------------------------
(***************************************************************************)
(* The connections of one process, from accepting them to shutting down    *)
(* (internal/peer/swarm.go and peer.go): the map of peers and the lock mu  *)
(* that guards it, the loops that broadcast to all peers while they hold   *)
(* that lock, the queue and the write loop of each peer, and the goroutine *)
(* that forgets a peer when it disconnects.                                *)
(*                                                                         *)
(* mu is a sync.RWMutex: broadcasts share it; a goroutine that asks for it *)
(* exclusively waits for those under way and holds back later ones.  What  *)
(* is done under the exclusive lock does not block and is one step.        *)
(*                                                                         *)
(* Messages are counted, not told apart.  A write to a socket blocks until *)
(* the remote makes room by reading.  Peer.Close, which closes done and    *)
(* then the socket, is one step.                                           *)
(***************************************************************************)
EXTENDS Integers, FiniteSets

CONSTANTS
  Conns,        \* the connections made to this process, one Peer each
  Ids,          \* the processes that make them
  IdOf,         \* IdOf[p]: the process at the other end of p
  Broadcasters, \* the loops that broadcast until the swarm closes
  QueueCap,     \* capacity of a peer's outCh
  MaxPieces,    \* bound of the model: chunks in one REQUEST
  Failing,      \* connections that may break
  Stalling,     \* connections whose remote may stop reading
  NoPeer        \* no entry in the map

ASSUME BoundsAssumption == QueueCap \in Nat \ {0} /\ MaxPieces \in Nat \ {0}
ASSUME ConnsAssumption == /\ IdOf \in [Conns -> Ids]
                          /\ NoPeer \notin Conns
                          /\ Failing \subseteq Conns
                          /\ Stalling \subseteq Conns

VARIABLES
  peers,   \* Swarm.peers
  phase,   \* phase[p]: how far handleIncoming has come with p
  done,    \* done[p]: Peer.done is closed
  queue,   \* queue[p]: messages in outCh
  writer,  \* p's write loop
  reader,  \* p's read loop,
  left,    \*   and the pieces it has still to send
  monitor, \* p's disconnection monitor
  caster,  \* each broadcast loop: "idle", "send" (it holds mu) or "stopped"
  pending, \*   and the peers it has still to send to
  closer   \* Swarm.Close: "no", "called", "lock" or "returned"

peerVars   == <<phase, done, queue, writer, reader, left, monitor>>
casterVars == <<caster, pending>>
vars == <<peers, peerVars, casterVars, closer>>

Init == /\ peers = [i \in Ids |-> NoPeer]
        /\ phase = [p \in Conns |-> "new"]
        /\ done = [p \in Conns |-> FALSE]
        /\ queue = [p \in Conns |-> 0]
        /\ writer = [p \in Conns |-> "none"]
        /\ reader = [p \in Conns |-> "none"]
        /\ left = [p \in Conns |-> 0]
        /\ monitor = [p \in Conns |-> "none"]
        /\ caster = [b \in Broadcasters |-> "idle"]
        /\ pending = [b \in Broadcasters |-> {}]
        /\ closer = "no"

-----------------------------------------------------------------------------
(* The lock. *)

Shared == \E b \in Broadcasters : caster[b] = "send"

\* Somebody waits in mu.Lock().
Wanted == \/ closer = "lock"
          \/ \E p \in Conns : phase[p] = "lock" \/ monitor[p] = "lock"

-----------------------------------------------------------------------------
(* acceptLoop, handleIncoming and addPeer. *)

\* Once Close has closed the listener nothing is accepted.
Accept(p) == /\ phase[p] = "new"
             /\ closer \in {"no", "called"}
             /\ phase' = [phase EXCEPT ![p] = "handshake"]
             /\ UNCHANGED <<peers, done, queue, writer, reader, left, monitor,
                            casterVars, closer>>

HandshakeFails(p) ==
  /\ p \in Failing
  /\ phase[p] = "handshake"
  /\ phase' = [phase EXCEPT ![p] = "failed"]
  /\ UNCHANGED <<peers, done, queue, writer, reader, left, monitor,
                 casterVars, closer>>

Start(p) == /\ phase[p] = "handshake"
            /\ phase' = [phase EXCEPT ![p] = "started"]
            /\ writer' = [writer EXCEPT ![p] = "select"]
            /\ reader' = [reader EXCEPT ![p] = "read"]
            /\ UNCHANGED <<peers, done, queue, left, monitor, casterVars,
                           closer>>

AskAdd(p) == /\ phase[p] = "started"
             /\ phase' = [phase EXCEPT ![p] = "lock"]
             /\ UNCHANGED <<peers, done, queue, writer, reader, left, monitor,
                            casterVars, closer>>

AddPeer(p) == /\ phase[p] = "lock"
              /\ ~Shared
              /\ peers' = [peers EXCEPT ![IdOf[p]] = p]
              /\ phase' = [phase EXCEPT ![p] = "added"]
              /\ monitor' = [monitor EXCEPT ![p] = "watch"]
              /\ UNCHANGED <<done, queue, writer, reader, left, casterVars,
                             closer>>

-----------------------------------------------------------------------------
(* The disconnection monitor. *)

\* Mutant of SeeDone: it watches the done of the swarm.
WatchesSwarm(p) ==
  /\ monitor[p] = "watch"
  /\ closer # "no"
  /\ monitor' = [monitor EXCEPT ![p] = "lock"]
  /\ UNCHANGED <<peers, phase, done, queue, writer, reader, left, casterVars,
                 closer>>

SeeDone(p) == /\ monitor[p] = "watch"
              /\ done[p]
              /\ monitor' = [monitor EXCEPT ![p] = "lock"]
              /\ UNCHANGED <<peers, phase, done, queue, writer, reader, left,
                             casterVars, closer>>

\* Mutant of Forget: it does not take the lock.
ForgetsUnlocked(p) ==
  /\ monitor[p] = "lock"
  /\ peers' = [peers EXCEPT ![IdOf[p]] = NoPeer]
  /\ monitor' = [monitor EXCEPT ![p] = "gone"]
  /\ UNCHANGED <<phase, done, queue, writer, reader, left, casterVars, closer>>

Forget(p) == /\ monitor[p] = "lock"
             /\ ~Shared
             /\ peers' = [peers EXCEPT ![IdOf[p]] = NoPeer]
             /\ monitor' = [monitor EXCEPT ![p] = "gone"]
             /\ UNCHANGED <<phase, done, queue, writer, reader, left,
                            casterVars, closer>>

-----------------------------------------------------------------------------
(* Send, and the loops of a peer. *)

\* Mutant of Send: it does not watch for the disconnection.
SendsRegardless(p) == /\ queue[p] < QueueCap
                      /\ queue' = [queue EXCEPT ![p] = @ + 1]

\* Mutant of Send: it takes the queue to have room.
SendsBlindly(p) == \/ queue' = [queue EXCEPT ![p] = @ + 1]
                   \/ done[p] /\ UNCHANGED queue

\* The select of Send: it blocks while the queue is full and p is connected.
Send(p) == \/ /\ queue[p] < QueueCap
              /\ queue' = [queue EXCEPT ![p] = @ + 1]
           \/ /\ done[p]
              /\ UNCHANGED queue

\* A REQUEST for n chunks we have arrives.
RecvRequest(p, n) ==
  /\ reader[p] = "read"
  /\ ~done[p]
  /\ reader' = [reader EXCEPT ![p] = "serve"]
  /\ left' = [left EXCEPT ![p] = n]
  /\ UNCHANGED <<peers, phase, done, queue, writer, monitor, casterVars,
                 closer>>

SendPiece(p) ==
  /\ reader[p] = "serve"
  /\ Send(p)
  /\ left' = [left EXCEPT ![p] = @ - 1]
  /\ reader' = [reader EXCEPT ![p] = IF left[p] = 1 THEN "read" ELSE "serve"]
  /\ UNCHANGED <<peers, phase, done, writer, monitor, casterVars, closer>>

\* A read error, which may be the effect of our own Close.
ReadFails(p) ==
  /\ reader[p] = "read"
  /\ done[p] \/ p \in Failing
  /\ reader' = [reader EXCEPT ![p] = "stopped"]
  /\ done' = [done EXCEPT ![p] = TRUE]
  /\ UNCHANGED <<peers, phase, queue, writer, left, monitor, casterVars,
                 closer>>

TakeMessage(p) ==
  /\ writer[p] = "select"
  /\ queue[p] > 0
  /\ queue' = [queue EXCEPT ![p] = @ - 1]
  /\ writer' = [writer EXCEPT ![p] = "write"]
  /\ UNCHANGED <<peers, phase, done, reader, left, monitor, casterVars,
                 closer>>

WriteDone(p) ==
  /\ writer[p] = "write"
  /\ ~done[p]
  /\ writer' = [writer EXCEPT ![p] = "select"]
  /\ UNCHANGED <<peers, phase, done, queue, reader, left, monitor, casterVars,
                 closer>>

\* Mutant of WriterStops: it leaves the peer open.
StopsQuietly(p) ==
  /\ \/ writer[p] = "select" /\ done[p]
     \/ writer[p] = "write" /\ (done[p] \/ p \in Failing)
  /\ writer' = [writer EXCEPT ![p] = "stopped"]
  /\ UNCHANGED <<peers, phase, done, queue, reader, left, monitor, casterVars,
                 closer>>

\* A write error, or done is closed when the loop comes back to its select.
WriterStops(p) ==
  /\ \/ writer[p] = "select" /\ done[p]
     \/ writer[p] = "write" /\ (done[p] \/ p \in Failing)
  /\ writer' = [writer EXCEPT ![p] = "stopped"]
  /\ done' = [done EXCEPT ![p] = TRUE]
  /\ UNCHANGED <<peers, phase, queue, reader, left, monitor, casterVars,
                 closer>>

-----------------------------------------------------------------------------
(* Broadcast, in the bitfield and keepalive loops, which end once the swarm *)
(* is closed.                                                               *)

BeginBroadcast(b) ==
  /\ caster[b] = "idle"
  /\ ~Wanted
  /\ caster' = [caster EXCEPT ![b] = "send"]
  /\ pending' = [pending EXCEPT ![b] = {peers[i] : i \in Ids} \ {NoPeer}]
  /\ UNCHANGED <<peers, peerVars, closer>>

SendTo(b, p) ==
  /\ caster[b] = "send"
  /\ p \in pending[b]
  /\ Send(p)
  /\ pending' = [pending EXCEPT ![b] = @ \ {p}]
  /\ UNCHANGED <<peers, phase, done, writer, reader, left, monitor, caster,
                 closer>>

EndBroadcast(b) ==
  /\ caster[b] = "send"
  /\ pending[b] = {}
  /\ caster' = [caster EXCEPT ![b] = "idle"]
  /\ UNCHANGED <<peers, peerVars, pending, closer>>

LoopEnds(b) ==
  /\ caster[b] = "idle"
  /\ closer # "no"
  /\ caster' = [caster EXCEPT ![b] = "stopped"]
  /\ UNCHANGED <<peers, peerVars, pending, closer>>

-----------------------------------------------------------------------------
(* Swarm.Close. *)

CallClose == /\ closer = "no"
             /\ closer' = "called"
             /\ UNCHANGED <<peers, peerVars, casterVars>>

AskClose == /\ closer = "called"
            /\ closer' = "lock"
            /\ UNCHANGED <<peers, peerVars, casterVars>>

ClosePeers == /\ closer = "lock"
              /\ ~Shared
              /\ done' = [p \in Conns |-> done[p] \/ peers[IdOf[p]] = p]
              /\ closer' = "returned"
              /\ UNCHANGED <<peers, phase, queue, writer, reader, left,
                             monitor, casterVars>>

-----------------------------------------------------------------------------
Register(p) == AskAdd(p) \/ AddPeer(p)
Monitor(p) == SeeDone(p) \/ Forget(p)
WriteLoop(p) == TakeMessage(p) \/ WriterStops(p)
Broadcast(b) == EndBroadcast(b) \/ \E p \in Conns : SendTo(b, p)
Shutdown == AskClose \/ ClosePeers

Next == \/ \E p \in Conns : \/ Accept(p) \/ HandshakeFails(p) \/ Start(p)
                            \/ Register(p)
                            \/ Monitor(p)
                            \/ \E n \in 1 .. MaxPieces : RecvRequest(p, n)
                            \/ SendPiece(p) \/ ReadFails(p)
                            \/ WriteLoop(p) \/ WriteDone(p)
        \/ \E b \in Broadcasters : BeginBroadcast(b) \/ Broadcast(b)
                                   \/ LoopEnds(b)
        \/ CallClose
        \/ Shutdown

\* Goroutines that can run do, and those blocked on a channel are served in
\* turn.  Remotes read, except those that may stall.  Nothing makes a remote
\* finish its handshake, send requests or break the connection.
Fairness ==
  /\ WF_vars(Shutdown)
  /\ \A p \in Conns : /\ WF_vars(Register(p)) /\ WF_vars(Monitor(p))
                      /\ SF_vars(SendPiece(p))
                      /\ WF_vars(done[p] /\ ReadFails(p))
                      /\ WF_vars(TakeMessage(p))
                      /\ WF_vars(done[p] /\ WriterStops(p))
  /\ \A p \in Conns \ Stalling : WF_vars(WriteDone(p))
  /\ \A b \in Broadcasters : /\ WF_vars(EndBroadcast(b)) /\ WF_vars(LoopEnds(b))
                             /\ \A p \in Conns : SF_vars(SendTo(b, p))

Safe == Init /\ [][Next]_vars
Spec == Safe /\ Fairness

-----------------------------------------------------------------------------
(* Properties. *)

\* Every variable has its type; in particular no queue outgrows its channel.
TypeOK ==
  /\ peers \in [Ids -> Conns \cup {NoPeer}]
  /\ phase \in [Conns -> {"new", "handshake", "failed", "started", "lock",
                          "added"}]
  /\ done \in [Conns -> BOOLEAN]
  /\ queue \in [Conns -> 0 .. QueueCap]
  /\ writer \in [Conns -> {"none", "select", "write", "stopped"}]
  /\ reader \in [Conns -> {"none", "read", "serve", "stopped"}]
  /\ left \in [Conns -> 0 .. MaxPieces]
  /\ monitor \in [Conns -> {"none", "watch", "lock", "gone"}]
  /\ caster \in [Broadcasters -> {"idle", "send", "stopped"}]
  /\ pending \in [Broadcasters -> SUBSET Conns]
  /\ closer \in {"no", "called", "lock", "returned"}

\* Broadcast "sends a message to all connected peers": a process with an open
\* registered connection has an entry in the map Broadcast goes through.
Reachable ==
  \A p \in Conns : phase[p] = "added" /\ ~done[p] => peers[IdOf[p]] # NoPeer

\* Broadcast goes through the map of the moment: no peer it has still to send
\* to has been forgotten or replaced under it.
StableBroadcast ==
  \A b \in Broadcasters : \A p \in pending[b] : peers[IdOf[p]] = p

\* Close "stops listener, disconnects all peers": once it has returned, no
\* connection stays up.
ClosedForAll ==
  closer = "returned"
    => \A p \in Conns : phase[p] \in {"new", "handshake", "failed"} \/ done[p]

\* A registered connection that breaks, or that is registered when Close
\* takes the lock, leaves the map.
AllForgotten ==
  \A p \in Conns :
    monitor[p] # "none" /\ (done[p] \/ closer = "lock") ~> peers[IdOf[p]] # p

\* A message is queued or dropped in the end, whatever else is being sent.
SendReturns ==
  /\ \A b \in Broadcasters : caster[b] = "send" ~> caster[b] # "send"
  /\ \A p \in Conns, n \in 1 .. MaxPieces :
       reader[p] = "serve" /\ left[p] = n
         ~> reader[p] # "serve" \/ left[p] # n

\* A connection whose handshake is over is registered, and Close returns.
LockGranted == /\ \A p \in Conns : phase[p] = "started" ~> phase[p] = "added"
               /\ closer = "called" ~> closer = "returned"
=============================================================================
