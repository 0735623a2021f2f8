---------------------------- MODULE SwarmProofs ----------------------------
(***************************************************************************)
(* Safety of Swarm, for any connections, processes, loops and queues.      *)
(***************************************************************************)
EXTENDS Swarm, TLAPS

\* A read loop that serves a request has a piece to send: SendPiece counts
\* down from the chunks of the request to none.
ServeInv == \A p \in Conns : reader[p] = "serve" => left[p] > 0

LEMMA SendTypes ==
  ASSUME TypeOK, NEW p \in Conns, Send(p)
  PROVE  queue' \in [Conns -> 0 .. QueueCap]
BY BoundsAssumption DEF TypeOK, Send

\* Every variable keeps its type: no message is put in a full queue.
THEOREM Typing == Safe => [](TypeOK /\ ServeInv)
<1>1. Init => TypeOK /\ ServeInv
  BY BoundsAssumption DEF Init, TypeOK, ServeInv
<1>2. TypeOK /\ ServeInv /\ [Next]_vars => TypeOK' /\ ServeInv'
  <2> SUFFICES ASSUME TypeOK, ServeInv, [Next]_vars
               PROVE  TypeOK' /\ ServeInv'
    OBVIOUS
  <2> USE BoundsAssumption, ConnsAssumption
      DEF TypeOK, ServeInv, peerVars, casterVars
  <2>1. ASSUME NEW p \in Conns, Accept(p) \/ HandshakeFails(p) \/ Start(p)
        PROVE  TypeOK' /\ ServeInv'
    BY <2>1 DEF Accept, HandshakeFails, Start
  <2>2. ASSUME NEW p \in Conns, Register(p) PROVE TypeOK' /\ ServeInv'
    BY <2>2 DEF Register, AskAdd, AddPeer
  <2>3. ASSUME NEW p \in Conns, Monitor(p) PROVE TypeOK' /\ ServeInv'
    BY <2>3 DEF Monitor, SeeDone, Forget
  <2>4. ASSUME NEW p \in Conns, NEW n \in 1 .. MaxPieces, RecvRequest(p, n)
        PROVE  TypeOK' /\ ServeInv'
    BY <2>4 DEF RecvRequest
  <2>5. ASSUME NEW p \in Conns, SendPiece(p) PROVE TypeOK' /\ ServeInv'
    <3>1. queue' \in [Conns -> 0 .. QueueCap]
      BY <2>5, SendTypes DEF SendPiece
    <3>2. left[p] \in 1 .. MaxPieces
      BY <2>5 DEF SendPiece
    <3>3. /\ left' = [left EXCEPT ![p] = left[p] - 1]
          /\ left[p] - 1 \in 0 .. MaxPieces
          /\ reader' = [reader EXCEPT ![p] = IF left[p] = 1 THEN "read"
                                                           ELSE "serve"]
          /\ left[p] # 1 => left[p] - 1 > 0
      BY <2>5, <3>2 DEF SendPiece
    <3>4. UNCHANGED <<peers, phase, done, writer, monitor, casterVars, closer>>
      BY <2>5 DEF SendPiece
    <3>5. ServeInv'
      BY <3>3
    <3> QED BY <3>1, <3>3, <3>4, <3>5
  <2>6. ASSUME NEW p \in Conns,
               ReadFails(p) \/ TakeMessage(p) \/ WriteDone(p) \/ WriterStops(p)
        PROVE  TypeOK' /\ ServeInv'
    <3>1. CASE ReadFails(p)
      BY <3>1 DEF ReadFails
    <3>2. CASE TakeMessage(p)
      <4>1. queue[p] - 1 \in 0 .. QueueCap
        BY <3>2 DEF TakeMessage
      <4> QED BY <3>2, <4>1 DEF TakeMessage
    <3>3. CASE WriteDone(p)
      BY <3>3 DEF WriteDone
    <3>4. CASE WriterStops(p)
      BY <3>4 DEF WriterStops
    <3> QED BY <2>6, <3>1, <3>2, <3>3, <3>4
  <2>7. ASSUME NEW b \in Broadcasters, BeginBroadcast(b)
        PROVE  TypeOK' /\ ServeInv'
    BY <2>7 DEF BeginBroadcast
  <2>8. ASSUME NEW b \in Broadcasters, NEW p \in Conns, SendTo(b, p)
        PROVE  TypeOK' /\ ServeInv'
    <3>1. queue' \in [Conns -> 0 .. QueueCap]
      BY <2>8, SendTypes DEF SendTo
    <3> QED BY <2>8, <3>1 DEF SendTo
  <2>9. ASSUME NEW b \in Broadcasters, EndBroadcast(b) \/ LoopEnds(b)
        PROVE  TypeOK' /\ ServeInv'
    BY <2>9 DEF EndBroadcast, LoopEnds
  <2>10. CASE CallClose \/ Shutdown
    BY <2>10 DEF CallClose, Shutdown, AskClose, ClosePeers
  <2>11. CASE UNCHANGED vars
    BY <2>11 DEF vars
  <2> QED
    BY <2>1, <2>2, <2>3, <2>4, <2>5, <2>6, <2>7, <2>8, <2>9, <2>10, <2>11
       DEF Next, WriteLoop, Broadcast
<1> QED BY <1>1, <1>2, PTL DEF Safe

-----------------------------------------------------------------------------
(* The map of peers under broadcasts. *)

\* The entry of a process is one of its connections.
MapInv == \A i \in Ids : peers[i] # NoPeer => IdOf[peers[i]] = i

\* Whoever broadcasts holds the lock; nobody else has anyone left to send to.
LockInv == \A b \in Broadcasters : pending[b] # {} => caster[b] = "send"

BroadcastInv == MapInv /\ LockInv /\ StableBroadcast

LEMMA BroadcastStep == TypeOK /\ BroadcastInv /\ [Next]_vars => BroadcastInv'
<1> SUFFICES ASSUME TypeOK, BroadcastInv, [Next]_vars PROVE BroadcastInv'
  OBVIOUS
<1> USE ConnsAssumption
    DEF BroadcastInv, MapInv, LockInv, StableBroadcast, TypeOK, peerVars,
        casterVars
<1>1. ASSUME UNCHANGED <<peers, caster, pending>> PROVE BroadcastInv'
  BY <1>1
<1>2. ASSUME NEW p \in Conns, AddPeer(p) \/ Forget(p) PROVE BroadcastInv'
  <2>1. \A b \in Broadcasters : pending[b] = {}
    BY <1>2 DEF AddPeer, Forget, Shared
  <2>2. \E q \in {p, NoPeer} : peers' = [peers EXCEPT ![IdOf[p]] = q]
    BY <1>2 DEF AddPeer, Forget
  <2>3. UNCHANGED <<caster, pending>>
    BY <1>2 DEF AddPeer, Forget
  <2> QED BY <2>1, <2>2, <2>3
<1>3. ASSUME NEW b \in Broadcasters, BeginBroadcast(b) PROVE BroadcastInv'
  BY <1>3 DEF BeginBroadcast
<1>4. ASSUME NEW b \in Broadcasters, NEW p \in Conns, SendTo(b, p)
      PROVE  BroadcastInv'
  BY <1>4 DEF SendTo
<1>5. ASSUME NEW b \in Broadcasters, EndBroadcast(b) \/ LoopEnds(b)
      PROVE  BroadcastInv'
  BY <1>5 DEF EndBroadcast, LoopEnds
<1>6. ASSUME NEW p \in Conns,
             \/ Accept(p) \/ HandshakeFails(p) \/ Start(p) \/ AskAdd(p)
             \/ SeeDone(p) \/ \E n \in 1 .. MaxPieces : RecvRequest(p, n)
             \/ SendPiece(p) \/ ReadFails(p) \/ WriteLoop(p) \/ WriteDone(p)
      PROVE  BroadcastInv'
  BY <1>1, <1>6
     DEF Accept, HandshakeFails, Start, AskAdd, SeeDone, RecvRequest,
         SendPiece, ReadFails, WriteLoop, TakeMessage, WriterStops, WriteDone
<1>7. CASE CallClose \/ Shutdown \/ UNCHANGED vars
  BY <1>1, <1>7 DEF CallClose, Shutdown, AskClose, ClosePeers, vars
<1> QED
  BY <1>2, <1>3, <1>4, <1>5, <1>6, <1>7
     DEF Next, Register, Monitor, Broadcast

\* Broadcast goes through the map of the moment, whoever connects, breaks or
\* shuts down meanwhile.
THEOREM BroadcastStable == Safe => []StableBroadcast
<1>1. Init => BroadcastInv
  BY DEF Init, BroadcastInv, MapInv, LockInv, StableBroadcast
<1>2. BroadcastInv => StableBroadcast
  BY DEF BroadcastInv
<1> QED BY <1>1, <1>2, BroadcastStep, Typing, PTL DEF Safe

-----------------------------------------------------------------------------
(* Which connections are registered. *)

\* The monitor of another connection of p's process has run to its end.
Overrun(p) ==
  \E q \in Conns \ {p} : IdOf[q] = IdOf[p] /\ monitor[q] = "gone"

\* A connection is registered when its monitor starts, which stops watching
\* only once the connection is done.
RegisteredInv ==
  \A p \in Conns :
    /\ phase[p] = "added" <=> monitor[p] # "none"
    /\ monitor[p] \in {"watch", "lock"} => peers[IdOf[p]] # NoPeer \/ Overrun(p)
    /\ monitor[p] \in {"lock", "gone"} => done[p]

LEMMA RegisteredStep == TypeOK /\ RegisteredInv /\ [Next]_vars => RegisteredInv'
<1> SUFFICES ASSUME TypeOK, RegisteredInv, [Next]_vars PROVE RegisteredInv'
  OBVIOUS
<1> USE ConnsAssumption DEF RegisteredInv, Overrun, TypeOK, peerVars, casterVars
<1>1. ASSUME UNCHANGED <<peers, phase, monitor>>,
             \A p \in Conns : done[p] => done'[p]
      PROVE  RegisteredInv'
  BY <1>1
<1>2. ASSUME NEW p \in Conns,
             Accept(p) \/ HandshakeFails(p) \/ Start(p) \/ AskAdd(p)
      PROVE  RegisteredInv'
  BY <1>2 DEF Accept, HandshakeFails, Start, AskAdd
<1>3. ASSUME NEW p \in Conns, AddPeer(p) PROVE RegisteredInv'
  BY <1>3 DEF AddPeer
<1>4. ASSUME NEW p \in Conns, SeeDone(p) PROVE RegisteredInv'
  BY <1>4 DEF SeeDone
<1>5. ASSUME NEW p \in Conns, Forget(p) PROVE RegisteredInv'
  BY <1>5 DEF Forget
<1>6. ASSUME NEW p \in Conns,
             \/ \E n \in 1 .. MaxPieces : RecvRequest(p, n)
             \/ SendPiece(p) \/ ReadFails(p) \/ WriteLoop(p) \/ WriteDone(p)
      PROVE  RegisteredInv'
  BY <1>1, <1>6
     DEF RecvRequest, SendPiece, ReadFails, WriteLoop, TakeMessage,
         WriterStops, WriteDone
<1>7. ASSUME NEW b \in Broadcasters,
             BeginBroadcast(b) \/ Broadcast(b) \/ LoopEnds(b)
      PROVE  RegisteredInv'
  BY <1>1, <1>7 DEF BeginBroadcast, Broadcast, SendTo, EndBroadcast, LoopEnds
<1>8. CASE CallClose \/ Shutdown \/ UNCHANGED vars
  BY <1>1, <1>8 DEF CallClose, Shutdown, AskClose, ClosePeers, vars
<1> QED
  BY <1>2, <1>3, <1>4, <1>5, <1>6, <1>7, <1>8 DEF Next, Register, Monitor

\* A process with an open registered connection is in the map, except when the
\* monitor of another of its connections has run: that is the only way out.
LostOnlyToMonitors ==
  \A p \in Conns :
    phase[p] = "added" /\ ~done[p] => peers[IdOf[p]] # NoPeer \/ Overrun(p)

THEOREM Registered == Safe => []LostOnlyToMonitors
<1>1. Init => RegisteredInv
  BY DEF Init, RegisteredInv
<1>2. TypeOK /\ RegisteredInv => LostOnlyToMonitors
  BY DEF RegisteredInv, LostOnlyToMonitors, TypeOK
<1> QED BY <1>1, <1>2, RegisteredStep, Typing, PTL DEF Safe

\* So Broadcast reaches every process that makes one connection.  (TLC finds one
\* with two connections that it does not reach: Swarm_same_id.cfg.)
THEOREM ReachableIfDistinct ==
  ASSUME \A p, q \in Conns : IdOf[p] = IdOf[q] => p = q
  PROVE  Safe => []Reachable
<1>1. LostOnlyToMonitors => Reachable
  BY DEF LostOnlyToMonitors, Overrun, Reachable
<1> QED BY <1>1, Registered, PTL
=============================================================================
