--------------------------- MODULE DownloadProofs ---------------------------
(***************************************************************************)
(* Bounds and bookkeeping of Download, for any number of chunks, processes *)
(* and connections and any limits.                                         *)
(***************************************************************************)
EXTENDS Download, FiniteSetTheorems, TLAPS

LEMMA ChunksFinite ==
  \A S \in SUBSET Chunk : IsFiniteSet(S) /\ Cardinality(S) \in Nat
<1>1. IsFiniteSet(Chunk)
  BY FS_Interval, CountsAssumption DEF Chunk
<1> QED BY <1>1, FS_Subset, FS_CardinalityType

\* Adding a chunk to a set of chunks adds at most one to its size.
LEMMA AddChunk ==
  ASSUME NEW S \in SUBSET Chunk, NEW c \in Chunk
  PROVE  /\ Cardinality(S) \in Nat /\ Cardinality(S \cup {c}) \in Nat
         /\ Cardinality(S \cup {c}) <= Cardinality(S) + 1
<1>1. IsFiniteSet(S) /\ Cardinality(S) \in Nat
  BY ChunksFinite
<1>2. Cardinality(S \cup {c}) = IF c \in S THEN Cardinality(S)
                                          ELSE Cardinality(S) + 1
  BY <1>1, FS_AddElement
<1> QED BY <1>1, <1>2

\* Every variable keeps its type.
THEOREM Typing == Safe => []TypeOK
<1>1. Init => TypeOK
  BY CountsAssumption, PeersAssumption DEF Init, TypeOK, NoChunks, NoOffers, Chunk
<1>2. TypeOK /\ [Next]_vars => TypeOK'
  <2> SUFFICES ASSUME TypeOK, [Next]_vars PROVE TypeOK'
    OBVIOUS
  <2> USE CountsAssumption, PeersAssumption
      DEF TypeOK, storeVars, peerVars, monitorVars, tickVars, NoChunks, NoOffers
  <2>1. ASSUME NEW p \in Conns, Establish(p) PROVE TypeOK'
    <3>1. CASE ConnectToHost(p)
      BY <3>1 DEF ConnectToHost
    <3>2. CASE Connect(p)
      BY <3>2 DEF Connect
    <3>3. CASE AddPeer(p)
      BY <3>3 DEF AddPeer
    <3> QED BY <2>1, <3>1, <3>2, <3>3 DEF Establish
  <2>2. CASE ConnectFails
    BY <2>2 DEF ConnectFails
  <2>3. ASSUME NEW p \in Conns, Close(p) PROVE TypeOK'
    <3>1. \A c \in Chunk : [Nothing EXCEPT ![c] = 1] \in [Chunk -> Nat]
      BY DEF Nothing
    <3>2. Nothing \in [Chunk -> Nat]
      BY DEF Nothing
    <3>3. PICK n \in [Chunk -> Nat] : owed' = [owed EXCEPT ![p] = n]
      BY <2>3, <3>1, <3>2 DEF Close
    <3> QED BY <2>3, <3>3 DEF Close
  <2>4. ASSUME NEW p \in Conns, Monitor(p) PROVE TypeOK'
    <3>1. CASE Forget(p)
      BY <3>1 DEF Forget
    <3>2. CASE DropTracker(p)
      BY <3>2 DEF DropTracker
    <3>3. CASE Collect(p)
      BY <3>3 DEF Collect
    <3>4. CASE ReleaseLost(p)
      BY <3>4 DEF ReleaseLost
    <3> QED BY <2>4, <3>1, <3>2, <3>3, <3>4 DEF Monitor
  <2>5. ASSUME NEW p \in Conns, NEW c \in Chunk, RecvPiece(p, c) PROVE TypeOK'
    <3>1. owed[p][c] > 0 => owed[p][c] - 1 \in Nat
      OBVIOUS
    <3> QED BY <2>5, <3>1 DEF RecvPiece
  <2>6. ASSUME NEW p \in Conns, Handle(p) PROVE TypeOK'
    <3>1. CASE StorePiece(p)
      BY <3>1 DEF StorePiece
    <3>2. CASE StoreFails(p)
      BY <3>2 DEF StoreFails
    <3>3. CASE NotifyScheduler(p)
      BY <3>3 DEF NotifyScheduler
    <3>4. CASE UpdateTracker(p)
      BY <3>4 DEF UpdateTracker
    <3> QED BY <2>6, <3>1, <3>2, <3>3, <3>4 DEF Handle
  <2>7. ASSUME NEW p \in Conns, RecvBitfield(p) PROVE TypeOK'
    BY <2>7 DEF RecvBitfield
  <2>8. CASE Tick
    BY <2>8 DEF Tick
  <2>9. ASSUME NEW p \in Conns, NEW S \in SUBSET asked[p], Expire(p, S)
        PROVE  TypeOK'
    BY <2>9 DEF Expire
  <2>10. CASE Look
    <3>1. inFlight' \subseteq Chunk
      BY <2>10 DEF Look
    <3>2. budget' \in Int
      BY <2>10, <3>1, ChunksFinite DEF Look
    <3> QED BY <2>10, <3>1, <3>2 DEF Look
  <2>11. CASE MissingChunks
    BY <2>11 DEF MissingChunks
  <2>12. CASE PrioritizeChunks
    BY <2>12 DEF PrioritizeChunks, PeersWithChunk
  <2>13. ASSUME NEW c \in Chunk, NEW i \in Ids, Assign(c, i) PROVE TypeOK'
    BY <2>13 DEF Assign
  <2>14. ASSUME NEW c \in Chunk, Skip(c) PROVE TypeOK'
    BY <2>14 DEF Skip
  <2>15. CASE AssignDone
    BY <2>15 DEF AssignDone
  <2>16. ASSUME NEW i \in Ids, Lookup(i) PROVE TypeOK'
    BY <2>16 DEF Lookup
  <2>17. ASSUME NEW p \in Conns, NEW S \in SUBSET batch[IdOf[p]], Request(p, S)
         PROVE  TypeOK'
    BY <2>17 DEF Request
  <2>18. CASE TickDone
    BY <2>18 DEF TickDone
  <2>19. CASE UNCHANGED vars
    BY <2>19 DEF vars
  <2> QED
    BY <2>1, <2>2, <2>3, <2>4, <2>5, <2>6, <2>7, <2>8, <2>9, <2>10, <2>11,
       <2>12, <2>13, <2>14, <2>15, <2>16, <2>17, <2>18, <2>19
       DEF Next, Scheduler
<1> QED BY <1>1, <1>2, PTL DEF Safe

-----------------------------------------------------------------------------
(* maxTotalInFlight. *)

\* While a tick has a budget, the chunks in flight leave room for it.
BudgetInv ==
  /\ TotalBound
  /\ at \in {"missing", "rank", "assign"} =>
       /\ budget \in Nat
       /\ Cardinality(inFlight) + budget <= MaxTotalInFlight

\* inFlight only shrinks outside Assign and Look.
LEMMA BudgetShrinks ==
  ASSUME TypeOK, BudgetInv, inFlight' \subseteq inFlight,
         \/ at' \notin {"missing", "rank", "assign"}
         \/ at \in {"missing", "rank", "assign"} /\ UNCHANGED budget
  PROVE  BudgetInv'
<1>1. /\ IsFiniteSet(inFlight)
      /\ Cardinality(inFlight) \in Nat /\ Cardinality(inFlight') \in Nat
      /\ Cardinality(inFlight') <= Cardinality(inFlight)
  BY ChunksFinite, FS_Subset, FS_CardinalityType DEF TypeOK
<1> QED BY <1>1, CountsAssumption DEF BudgetInv, TotalBound, TypeOK

LEMMA BudgetInvariance == Safe => []BudgetInv
<1>1. Init => BudgetInv
  BY FS_EmptySet, CountsAssumption DEF Init, BudgetInv, TotalBound
<1>2. TypeOK /\ BudgetInv /\ [Next]_vars => BudgetInv'
  <2> SUFFICES ASSUME TypeOK, BudgetInv, [Next]_vars PROVE BudgetInv'
    OBVIOUS
  <2> USE DEF storeVars, peerVars, monitorVars, tickVars
  <2>1. CASE Look
    <3>1. inFlight' \subseteq inFlight
      BY <2>1 DEF Look
    <3>2. /\ Cardinality(inFlight') \in Nat
          /\ Cardinality(inFlight') <= Cardinality(inFlight)
      BY <3>1, ChunksFinite, FS_Subset DEF TypeOK
    <3>3. at' \in {"missing", "rank", "assign"} => budget' > 0
      BY <2>1 DEF Look
    <3>4. budget' = MaxTotalInFlight - Cardinality(inFlight')
      BY <2>1 DEF Look
    <3>5. Cardinality(inFlight) <= MaxTotalInFlight /\ Cardinality(inFlight) \in Nat
      BY ChunksFinite DEF BudgetInv, TotalBound, TypeOK
    <3> QED BY <3>2, <3>3, <3>4, <3>5, CountsAssumption DEF BudgetInv, TotalBound
  <2>2. ASSUME NEW c \in Chunk, NEW i \in Ids, Assign(c, i) PROVE BudgetInv'
    <3>1. /\ Cardinality(inFlight) \in Nat /\ Cardinality(inFlight') \in Nat
          /\ Cardinality(inFlight') <= Cardinality(inFlight) + 1
      BY <2>2, AddChunk DEF Assign, TypeOK
    <3>2. /\ budget \in Nat /\ budget > 0 /\ budget' = budget - 1
          /\ Cardinality(inFlight) + budget <= MaxTotalInFlight
      BY <2>2 DEF Assign, BudgetInv
    <3> QED BY <3>1, <3>2, CountsAssumption DEF BudgetInv, TotalBound
  <2>3. ASSUME UNCHANGED inFlight,
               \/ UNCHANGED <<at, budget>>
               \/ at' \notin {"missing", "rank", "assign"}
               \/ at \in {"missing", "rank", "assign"} /\ UNCHANGED budget
        PROVE  BudgetInv'
    BY <2>3, BudgetShrinks DEF BudgetInv, TotalBound
  <2>4. ASSUME NEW p \in Conns, Monitor(p) PROVE BudgetInv'
    BY <2>4, BudgetShrinks
       DEF Monitor, Forget, DropTracker, Collect, ReleaseLost, BudgetInv, TotalBound
  <2>5. ASSUME NEW p \in Conns, Handle(p) PROVE BudgetInv'
    BY <2>5, BudgetShrinks
       DEF Handle, StorePiece, StoreFails, NotifyScheduler, UpdateTracker,
           BudgetInv, TotalBound
  <2>6. ASSUME NEW p \in Conns,
               Establish(p) \/ Close(p) \/ RecvBitfield(p)
               \/ \E c \in Chunk : RecvPiece(p, c)
        PROVE  BudgetInv'
    BY <2>3, <2>6
       DEF Establish, ConnectToHost, Connect, AddPeer, Close, RecvBitfield,
           RecvPiece
  <2>7. CASE ConnectFails
    BY <2>3, <2>7 DEF ConnectFails
  <2>8. CASE Scheduler /\ ~Look /\ ~(\E c \in Chunk, i \in Ids : Assign(c, i))
    BY <2>3, <2>8
       DEF Scheduler, Tick, Expire, MissingChunks, PrioritizeChunks, Skip,
           AssignDone, Lookup, Request, TickDone
  <2>9. CASE UNCHANGED vars
    BY <2>3, <2>9 DEF vars
  <2> QED
    BY <2>1, <2>2, <2>4, <2>5, <2>6, <2>7, <2>8, <2>9 DEF Next
<1> QED BY <1>1, <1>2, Typing, PTL DEF Safe

\* The scheduler never has more than maxTotalInFlight chunks in flight,
\* whatever closes, fails or times out while it works.
THEOREM TotalBounded == Safe => []TotalBound
<1>1. BudgetInv => TotalBound
  BY DEF BudgetInv
<1> QED BY BudgetInvariance, <1>1, PTL

-----------------------------------------------------------------------------
(* Requests awaited from one peer. *)

\* Nothing is requested before a connection is registered, and batches are
\* filled within the budget of a tick and emptied before it ends.
PeerInv ==
  /\ \A i \in Ids : peers[i] # NoPeer
                      => IdOf[peers[i]] = i /\ monitor[peers[i]] # "none"
  /\ target # NoPeer => monitor[target] # "none"
  /\ \A p \in Conns : monitor[p] = "none" => asked[p] = {}

BatchInv ==
  /\ at \notin {"assign", "send"} => batch = NoChunks
  /\ \A i \in Ids :
       /\ Cardinality(batch[i]) <= MaxTotalInFlight
       /\ at = "assign" => Cardinality(batch[i]) + budget <= MaxTotalInFlight

\* A peer about to be sent a batch is not saturated yet.
RoomInv ==
  /\ \A i \in Ids : batch[i] # {} /\ peers[i] # NoPeer
                      => Cardinality(asked[peers[i]]) < MaxInFlightPerPeer
  /\ target # NoPeer => Cardinality(asked[target]) < MaxInFlightPerPeer

LEMMA PeerStep == TypeOK /\ PeerInv /\ [Next]_vars => PeerInv'
<1> SUFFICES ASSUME TypeOK, PeerInv, [Next]_vars PROVE PeerInv'
  OBVIOUS
<1> USE PeersAssumption
    DEF TypeOK, PeerInv, storeVars, peerVars, monitorVars, tickVars
<1>1. ASSUME NEW p \in Conns, AddPeer(p) PROVE PeerInv'
  BY <1>1 DEF AddPeer
<1>2. ASSUME NEW p \in Conns, Forget(p) PROVE PeerInv'
  BY <1>2 DEF Forget
<1>3. ASSUME NEW p \in Conns,
             DropTracker(p) \/ Collect(p) \/ ReleaseLost(p)
      PROVE  PeerInv'
  <2>1. \E x \in {"collect", "release", "done"} : monitor' = [monitor EXCEPT ![p] = x]
    BY <1>3 DEF DropTracker, Collect, ReleaseLost
  <2>2. monitor[p] # "none" /\ UNCHANGED <<peers, asked, target>>
    BY <1>3 DEF DropTracker, Collect, ReleaseLost
  <2> QED BY <2>1, <2>2
<1>4. ASSUME NEW p \in Conns, NEW c \in Chunk, RecvPiece(p, c) PROVE PeerInv'
  BY <1>4 DEF RecvPiece
<1>5. ASSUME NEW p \in Conns, NEW S \in SUBSET asked[p], Expire(p, S)
      PROVE  PeerInv'
  BY <1>5 DEF Expire
<1>6. ASSUME NEW i \in Ids, Lookup(i) PROVE PeerInv'
  BY <1>6 DEF Lookup
<1>7. ASSUME NEW p \in Conns, NEW S \in SUBSET batch[IdOf[p]], Request(p, S)
      PROVE  PeerInv'
  BY <1>7 DEF Request
<1>8. ASSUME UNCHANGED <<peers, monitor, asked, target>> PROVE PeerInv'
  BY <1>8
<1> QED
  BY <1>1, <1>2, <1>3, <1>4, <1>5, <1>6, <1>7, <1>8
     DEF Next, Scheduler, Establish, Monitor, Handle, ConnectToHost, Connect,
         ConnectFails, Close, StorePiece, StoreFails, NotifyScheduler,
         UpdateTracker, RecvBitfield, Tick, Look, MissingChunks,
         PrioritizeChunks, Assign, Skip, AssignDone, TickDone, vars

LEMMA BatchStep == TypeOK /\ BudgetInv /\ BatchInv /\ [Next]_vars => BatchInv'
<1> SUFFICES ASSUME TypeOK, BudgetInv, BatchInv, [Next]_vars PROVE BatchInv'
  OBVIOUS
<1> USE CountsAssumption DEF BatchInv, storeVars, peerVars, monitorVars, tickVars
<1>1. CASE PrioritizeChunks
  <2>1. Cardinality({}) = 0
    BY FS_EmptySet
  <2>2. at = "rank" /\ UNCHANGED <<batch, budget>> /\ batch = NoChunks
    BY <1>1 DEF PrioritizeChunks
  <2>3. budget <= MaxTotalInFlight /\ budget \in Nat
    BY <2>2, ChunksFinite DEF BudgetInv, TypeOK
  <2> QED BY <2>1, <2>2, <2>3 DEF NoChunks
<1>2. ASSUME NEW c \in Chunk, NEW i \in Ids, Assign(c, i) PROVE BatchInv'
  <2>1. /\ at = "assign" /\ at' = "assign"
        /\ budget > 0 /\ budget' = budget - 1
        /\ batch' = [batch EXCEPT ![i] = @ \cup {c}]
    BY <1>2 DEF Assign
  <2>2. batch \in [Ids -> SUBSET Chunk] /\ budget \in Int
    BY DEF TypeOK
  <2>3. \A j \in Ids : /\ Cardinality(batch[j]) \in Nat
                       /\ Cardinality(batch'[j]) \in Nat
                       /\ Cardinality(batch'[j]) <= Cardinality(batch[j]) + 1
    <3> SUFFICES ASSUME NEW j \in Ids
                 PROVE  /\ Cardinality(batch[j]) \in Nat
                        /\ Cardinality(batch'[j]) \in Nat
                        /\ Cardinality(batch'[j]) <= Cardinality(batch[j]) + 1
      OBVIOUS
    <3>1. batch[j] \in SUBSET Chunk
      BY <2>2
    <3>2. batch'[j] = batch[j] \/ batch'[j] = batch[j] \cup {c}
      BY <2>1, <2>2
    <3>3. Cardinality(batch[j]) \in Nat
      BY <3>1, ChunksFinite
    <3>4. CASE batch'[j] = batch[j]
      BY <3>3, <3>4
    <3>5. CASE batch'[j] = batch[j] \cup {c}
      BY <3>1, <3>5, AddChunk
    <3> QED BY <3>2, <3>4, <3>5
  <2>4. \A j \in Ids : /\ Cardinality(batch'[j]) <= MaxTotalInFlight
                       /\ Cardinality(batch'[j]) + budget' <= MaxTotalInFlight
    <3> SUFFICES ASSUME NEW j \in Ids
                 PROVE  /\ Cardinality(batch'[j]) <= MaxTotalInFlight
                        /\ Cardinality(batch'[j]) + budget' <= MaxTotalInFlight
      OBVIOUS
    <3> DEFINE n == Cardinality(batch[j])
               m == Cardinality(batch'[j])
    <3>1. n + budget <= MaxTotalInFlight
      BY <2>1
    <3>2. n \in Nat /\ m \in Nat /\ m <= n + 1
      BY <2>3
    <3>3. budget \in Int /\ budget > 0 /\ budget' = budget - 1
      BY <2>1, <2>2
    <3> HIDE DEF n, m, BatchInv
    <3>4. m <= MaxTotalInFlight /\ m + budget' <= MaxTotalInFlight
      BY <3>1, <3>2, <3>3
    <3> QED BY <3>4 DEF m
  <2> QED BY <2>1, <2>4
<1>3. ASSUME NEW i \in Ids, batch' = [batch EXCEPT ![i] = {}], UNCHANGED at,
             at = "send"
      PROVE  BatchInv'
  BY <1>3, FS_EmptySet DEF TypeOK
<1>4. ASSUME NEW i \in Ids, Lookup(i) PROVE BatchInv'
  BY <1>3, <1>4 DEF Lookup
<1>5. ASSUME NEW p \in Conns, NEW S \in SUBSET batch[IdOf[p]], Request(p, S)
      PROVE  BatchInv'
  BY <1>3, <1>5, PeersAssumption DEF Request
<1>6. CASE TickDone
  BY <1>6 DEF TickDone
<1>7. ASSUME UNCHANGED <<batch, at, budget>> PROVE BatchInv'
  BY <1>7 DEF NoChunks
<1>8. ASSUME UNCHANGED batch, at # "send", at' # "assign",
             at = "assign" => at' = "send"
      PROVE  BatchInv'
  BY <1>8 DEF NoChunks
<1>9. ASSUME NEW p \in Conns,
             \/ Establish(p) \/ Close(p) \/ Monitor(p) \/ RecvBitfield(p)
             \/ Handle(p) \/ \E c \in Chunk : RecvPiece(p, c)
      PROVE  UNCHANGED <<batch, at, budget>>
  BY <1>9
     DEF Establish, ConnectToHost, Connect, AddPeer, Close, Monitor, Forget,
         DropTracker, Collect, ReleaseLost, RecvBitfield, Handle, StorePiece,
         StoreFails, NotifyScheduler, UpdateTracker, RecvPiece
<1>10. CASE Tick \/ Look \/ MissingChunks \/ AssignDone
  BY <1>8, <1>10 DEF Tick, Look, MissingChunks, AssignDone
<1>11. ASSUME \/ ConnectFails
              \/ \E c \in Chunk : Skip(c)
              \/ \E p \in Conns : \E S \in SUBSET asked[p] : Expire(p, S)
       PROVE  UNCHANGED <<batch, at, budget>>
  BY <1>11 DEF ConnectFails, Skip, Expire
<1>12. CASE UNCHANGED vars
  BY <1>7, <1>12 DEF vars
<1> QED
  BY <1>1, <1>2, <1>4, <1>5, <1>6, <1>7, <1>9, <1>10, <1>11, <1>12
     DEF Next, Scheduler

LEMMA RoomStep ==
  TypeOK /\ PeerInv /\ RoomInv /\ [Next]_vars => RoomInv'
<1> SUFFICES ASSUME TypeOK, PeerInv, RoomInv, [Next]_vars PROVE RoomInv'
  OBVIOUS
<1> USE PeersAssumption, CountsAssumption
    DEF TypeOK, storeVars, peerVars, monitorVars, tickVars
<1>1. ASSUME NEW p \in Conns, AddPeer(p) PROVE RoomInv'
  <2>1. asked[p] = {} /\ Cardinality({}) = 0
    BY <1>1, FS_EmptySet DEF AddPeer, PeerInv
  <2>2. peers' = [peers EXCEPT ![IdOf[p]] = p] /\ UNCHANGED <<asked, batch, target>>
    BY <1>1 DEF AddPeer
  <2>3. Cardinality(asked[p]) < MaxInFlightPerPeer
    BY <2>1
  <2>4. \A i \in Ids : peers'[i] = p \/ peers'[i] = peers[i]
    BY <2>2
  <2> QED BY <2>2, <2>3, <2>4 DEF RoomInv
<1>2. ASSUME NEW p \in Conns, Forget(p) PROVE RoomInv'
  BY <1>2 DEF Forget, RoomInv
\* A set of requests that shrinks leaves room.
<1>3. ASSUME NEW p \in Conns, NEW S, asked' = [asked EXCEPT ![p] = @ \ S],
             UNCHANGED <<peers, batch, target>>
      PROVE  RoomInv'
  <2>1. \A q \in Conns : /\ asked'[q] \subseteq asked[q]
                         /\ IsFiniteSet(asked[q])
    BY <1>3, ChunksFinite
  <2>2. \A q \in Conns : Cardinality(asked'[q]) <= Cardinality(asked[q])
    BY <2>1, FS_Subset
  <2>3. \A q \in Conns : /\ Cardinality(asked[q]) \in Nat
                         /\ Cardinality(asked'[q]) \in Nat
    BY <2>1, FS_Subset, FS_CardinalityType
  <2>4. \A q \in Conns : Cardinality(asked[q]) < MaxInFlightPerPeer
                           => Cardinality(asked'[q]) < MaxInFlightPerPeer
    BY <2>2, <2>3
  <2> QED BY <1>3, <2>4 DEF RoomInv
<1>4. ASSUME NEW p \in Conns, NEW c \in Chunk, RecvPiece(p, c) PROVE RoomInv'
  BY <1>3, <1>4 DEF RecvPiece
<1>5. ASSUME NEW p \in Conns, NEW S \in SUBSET asked[p], Expire(p, S)
      PROVE  RoomInv'
  BY <1>3, <1>5 DEF Expire
<1>6. ASSUME NEW c \in Chunk, NEW i \in Ids, Assign(c, i) PROVE RoomInv'
  <2>1. peers[i] # NoPeer => Cardinality(asked[peers[i]]) < MaxInFlightPerPeer
    BY <1>6 DEF Assign, Selectable
  <2> QED BY <1>6, <2>1 DEF Assign, RoomInv
<1>7. ASSUME NEW i \in Ids, Lookup(i) PROVE RoomInv'
  BY <1>7 DEF Lookup, RoomInv
<1>8. ASSUME NEW p \in Conns, NEW S \in SUBSET batch[IdOf[p]], Request(p, S)
      PROVE  RoomInv'
  <2>1. \A i \in Ids : peers[i] = p => i = IdOf[p]
    BY DEF PeerInv
  <2>2. /\ batch' = [batch EXCEPT ![IdOf[p]] = {}]
        /\ target' = NoPeer /\ UNCHANGED peers
        /\ \A q \in Conns \ {p} : asked'[q] = asked[q]
    BY <1>8 DEF Request
  <2>3. ASSUME NEW i \in Ids, batch'[i] # {}, peers[i] # NoPeer
        PROVE  Cardinality(asked'[peers[i]]) < MaxInFlightPerPeer
    <3>1. i # IdOf[p] /\ batch[i] # {}
      BY <2>2, <2>3
    <3>2. asked'[peers[i]] = asked[peers[i]]
      BY <2>1, <2>2, <2>3, <3>1
    <3> QED BY <2>3, <3>1, <3>2 DEF RoomInv
  <2> QED BY <2>2, <2>3 DEF RoomInv
<1>9. ASSUME UNCHANGED <<peers, asked, batch, target>> PROVE RoomInv'
  BY <1>9 DEF RoomInv
<1> QED
  BY <1>1, <1>2, <1>4, <1>5, <1>6, <1>7, <1>8, <1>9
     DEF Next, Scheduler, Establish, Monitor, Handle, ConnectToHost, Connect,
         ConnectFails, Close, DropTracker, Collect, ReleaseLost, StorePiece,
         StoreFails, NotifyScheduler, UpdateTracker, RecvBitfield, Tick, Look,
         MissingChunks, PrioritizeChunks, Skip, AssignDone, TickDone, vars

\* PerPeerBound, with the invariants it rests on: it can only be disturbed
\* by Request, which adds a batch to a set that had room.
LEMMA PerPeerStep ==
  TypeOK /\ BatchInv /\ RoomInv /\ PerPeerBound /\ [Next]_vars => PerPeerBound'
<1> SUFFICES ASSUME TypeOK, BatchInv, RoomInv, PerPeerBound, [Next]_vars
             PROVE  PerPeerBound'
  OBVIOUS
<1> USE PeersAssumption, CountsAssumption
    DEF TypeOK, storeVars, peerVars, monitorVars, tickVars
<1>1. ASSUME NEW p \in Conns, NEW S, asked' = [asked EXCEPT ![p] = @ \ S]
      PROVE  PerPeerBound'
  <2>1. \A q \in Conns : /\ asked'[q] \subseteq asked[q]
                         /\ IsFiniteSet(asked[q])
    BY <1>1, ChunksFinite
  <2>2. \A q \in Conns : /\ Cardinality(asked'[q]) <= Cardinality(asked[q])
                         /\ Cardinality(asked[q]) \in Nat
                         /\ Cardinality(asked'[q]) \in Nat
    BY <2>1, FS_Subset, FS_CardinalityType
  <2> QED BY <2>2 DEF PerPeerBound
<1>2. ASSUME NEW p \in Conns, NEW S \in SUBSET batch[IdOf[p]], Request(p, S)
      PROVE  PerPeerBound'
  <2> DEFINE A == asked[p]
             B == batch[IdOf[p]]
  <2>1. asked' = [asked EXCEPT ![p] = A \cup B] /\ target = p
    BY <1>2 DEF Request
  <2>2. /\ IsFiniteSet(A) /\ IsFiniteSet(B)
        /\ Cardinality(A) \in Nat /\ Cardinality(B) \in Nat
    BY ChunksFinite
  <2>3. Cardinality(A) < MaxInFlightPerPeer /\ Cardinality(B) <= MaxTotalInFlight
    BY <2>1 DEF RoomInv, BatchInv
  <2> HIDE DEF A, B
  <2>4. /\ Cardinality(A \cup B) = Cardinality(A) + Cardinality(B)
                                     - Cardinality(A \cap B)
        /\ Cardinality(A \cap B) \in Nat
    BY <2>2, FS_Union, FS_Intersection, FS_CardinalityType
  <2>5. Cardinality(A \cup B) <= MaxInFlightPerPeer - 1 + MaxTotalInFlight
    BY <2>2, <2>3, <2>4
  <2>6. asked'[p] = A \cup B
    BY <2>1
  <2>7. \A q \in Conns \ {p} : asked'[q] = asked[q]
    BY <2>1
  <2> QED BY <2>5, <2>6, <2>7 DEF PerPeerBound
<1>3. CASE UNCHANGED asked
  BY <1>3 DEF PerPeerBound
<1>4. ASSUME NEW p \in Conns, NEW c \in Chunk, RecvPiece(p, c)
      PROVE  PerPeerBound'
  BY <1>1, <1>4 DEF RecvPiece
<1>5. ASSUME NEW p \in Conns, NEW S \in SUBSET asked[p], Expire(p, S)
      PROVE  PerPeerBound'
  BY <1>1, <1>5 DEF Expire
<1> QED
  BY <1>2, <1>3, <1>4, <1>5
     DEF Next, Scheduler, Establish, Monitor, Handle, AddPeer, ConnectToHost,
         Connect, ConnectFails, Close, Forget, DropTracker, Collect,
         ReleaseLost, StorePiece, StoreFails, NotifyScheduler, UpdateTracker,
         RecvBitfield, Tick, Look, MissingChunks, PrioritizeChunks, Assign,
         Skip, AssignDone, Lookup, TickDone, vars

\* A peer is never asked for more than maxInFlightPerPeer - 1 chunks and the
\* batch of one tick, whatever closes, fails or times out in between.
THEOREM PerPeerBounded == Safe => []PerPeerBound
<1> DEFINE PInv == PeerInv /\ BatchInv /\ RoomInv /\ PerPeerBound
<1>1. Init => PInv
  <2>1. Cardinality({}) = 0
    BY FS_EmptySet
  <2> QED
    BY <2>1, CountsAssumption, PeersAssumption
       DEF Init, PeerInv, BatchInv, RoomInv, PerPeerBound, NoChunks
<1>2. TypeOK /\ BudgetInv /\ PInv /\ [Next]_vars => PInv'
  BY PeerStep, BatchStep, RoomStep, PerPeerStep
<1>3. PInv => PerPeerBound
  OBVIOUS
<1> HIDE DEF PInv
<1> QED BY <1>1, <1>2, <1>3, Typing, BudgetInvariance, PTL DEF Safe

\* Both limits hold, in all and at one peer, whatever the two constants are:
\* also when a batch is larger than what the peer had left.
THEOREM LimitsHold == Safe => []Limits
<1>1. TotalBound /\ PerPeerBound => Limits
  BY DEF Limits
<1> QED BY TotalBounded, PerPeerBounded, <1>1, PTL

-----------------------------------------------------------------------------
(* Connections that stay up: the two views of what is in flight agree.     *)

\* No connection closes, so no monitor goes beyond watching, and a process
\* keeps the peer registered for it.
StaysUp == /\ \A p \in Conns : link[p] # "closed" /\ monitor[p] \in {"none", "watch"}
           /\ \A i \in Ids : batch[i] # {} => peers[i] # NoPeer

LEMMA StaysUpStep ==
  ASSUME Closable = {}
  PROVE  TypeOK /\ BatchInv /\ StaysUp /\ [Next]_vars => StaysUp'
<1> SUFFICES ASSUME TypeOK, BatchInv, StaysUp, [Next]_vars PROVE StaysUp'
  OBVIOUS
<1> USE PeersAssumption
    DEF TypeOK, StaysUp, storeVars, peerVars, monitorVars, tickVars
<1>1. ASSUME NEW p \in Conns, ConnectToHost(p) \/ Connect(p) PROVE StaysUp'
  <2>1. /\ link' = [link EXCEPT ![p] = "up"]
        /\ UNCHANGED <<monitor, batch, peers>>
    BY <1>1 DEF ConnectToHost, Connect
  <2> QED BY <2>1
<1>2. ASSUME NEW p \in Conns, AddPeer(p) PROVE StaysUp'
  BY <1>2 DEF AddPeer
<1>3. ASSUME NEW p \in Conns, Close(p) \/ Monitor(p) PROVE FALSE
  BY <1>3 DEF Close, Monitor, Forget, DropTracker, Collect, ReleaseLost
<1>4. ASSUME NEW c \in Chunk, NEW i \in Ids, Assign(c, i) PROVE StaysUp'
  <2>1. /\ peers[i] # NoPeer
        /\ batch' = [batch EXCEPT ![i] = @ \cup {c}]
        /\ UNCHANGED <<link, monitor, peers>>
    BY <1>4 DEF Assign, Selectable
  <2> QED BY <2>1
<1>5. ASSUME NEW i \in Ids, Lookup(i) PROVE StaysUp'
  BY <1>5 DEF Lookup
<1>6. ASSUME NEW p \in Conns, NEW S \in SUBSET batch[IdOf[p]], Request(p, S)
      PROVE  StaysUp'
  <2>1. /\ batch' = [batch EXCEPT ![IdOf[p]] = {}]
        /\ UNCHANGED <<link, monitor, peers>>
    BY <1>6 DEF Request
  <2> QED BY <2>1
<1>7. ASSUME UNCHANGED <<link, monitor, batch, peers>> PROVE StaysUp'
  BY <1>7
<1> QED
  BY <1>1, <1>2, <1>3, <1>4, <1>5, <1>6, <1>7
     DEF Next, Scheduler, Establish, ConnectFails, Handle, StorePiece,
         StoreFails, NotifyScheduler, UpdateTracker, RecvBitfield, RecvPiece,
         Tick, Expire, Look, MissingChunks, PrioritizeChunks, Skip, AssignDone,
         TickDone, vars

\* A chunk not stored yet is at one place at most: awaited from a peer, in a
\* batch or timed out; and in the first two the scheduler knows it is.
OnePlace ==
  /\ \A p \in Conns : asked[p] \subseteq inFlight \cup have
  /\ \A i \in Ids : batch[i] \subseteq inFlight \cup have
  /\ \A p, q \in Conns : p # q => asked[p] \cap asked[q] \subseteq have
  /\ \A i, j \in Ids : i # j => batch[i] \cap batch[j] \subseteq have
  /\ \A p \in Conns, i \in Ids : asked[p] \cap batch[i] \subseteq have
  /\ \A p \in Conns : asked[p] \cap expired \subseteq have

\* The tick's copies of the chunks in flight are never short of one, and a
\* piece is released only once it is stored.
CopiesInv ==
  /\ at # "expire" => expired = {}
  /\ at \in {"missing", "rank"} => inFlight \subseteq snap
  /\ at = "assign" => todo \cap inFlight = {}
  /\ \A p \in Conns : loop[p] = "notify" => piece[p] \in have

LEMMA CopiesStep ==
  TypeOK /\ CopiesInv /\ [Next]_vars => CopiesInv'
<1> SUFFICES ASSUME TypeOK, CopiesInv, [Next]_vars PROVE CopiesInv'
  OBVIOUS
<1> USE DEF TypeOK, CopiesInv, storeVars, peerVars, monitorVars, tickVars
<1>1. ASSUME NEW p \in Conns, NEW c \in Chunk, RecvPiece(p, c)
      PROVE  CopiesInv'
  BY <1>1 DEF RecvPiece
<1>2. ASSUME NEW p \in Conns, StorePiece(p) PROVE CopiesInv'
  BY <1>2 DEF StorePiece
<1>3. ASSUME NEW p \in Conns, StoreFails(p) PROVE CopiesInv'
  BY <1>3 DEF StoreFails
<1>4. ASSUME NEW p \in Conns, NotifyScheduler(p) PROVE CopiesInv'
  BY <1>4 DEF NotifyScheduler
<1>5. ASSUME NEW p \in Conns, UpdateTracker(p) PROVE CopiesInv'
  BY <1>5 DEF UpdateTracker
<1>6. ASSUME NEW p \in Conns, RecvBitfield(p) PROVE CopiesInv'
  BY <1>6 DEF RecvBitfield
<1>7. ASSUME NEW p \in Conns, ReleaseLost(p) PROVE CopiesInv'
  BY <1>7 DEF ReleaseLost
<1>8. ASSUME NEW p \in Conns, NEW S \in SUBSET asked[p], Expire(p, S)
      PROVE  CopiesInv'
  BY <1>8 DEF Expire
<1>9. ASSUME NEW c \in Chunk, NEW i \in Ids, Assign(c, i) PROVE CopiesInv'
  BY <1>9 DEF Assign
<1>10. ASSUME NEW c \in Chunk, Skip(c) PROVE CopiesInv'
  BY <1>10 DEF Skip
<1>11. CASE Tick
  BY <1>11 DEF Tick
<1>12. CASE Look
  BY <1>12 DEF Look
<1>13. CASE MissingChunks
  BY <1>13 DEF MissingChunks
<1>14. CASE PrioritizeChunks
  BY <1>14 DEF PrioritizeChunks
<1>15. CASE AssignDone \/ TickDone
  BY <1>15 DEF AssignDone, TickDone
<1>16. ASSUME UNCHANGED <<have, inFlight, loop, piece, at, expired, snap, todo>>
       PROVE  CopiesInv'
  BY <1>16
<1> QED
  BY <1>1, <1>2, <1>3, <1>4, <1>5, <1>6, <1>7, <1>8, <1>9, <1>10, <1>11, <1>12,
     <1>13, <1>14, <1>15, <1>16
     DEF Next, Scheduler, Establish, ConnectToHost, Connect, AddPeer,
         ConnectFails, Close, Monitor, Forget, DropTracker, Collect, Handle,
         Lookup, Request, vars

LEMMA OnePlaceStep ==
  TypeOK /\ BatchInv /\ StaysUp /\ CopiesInv /\ OnePlace /\ [Next]_vars
    => OnePlace'
<1> SUFFICES ASSUME TypeOK, BatchInv, StaysUp, CopiesInv, OnePlace, [Next]_vars
             PROVE  OnePlace'
  OBVIOUS
<1> USE PeersAssumption
    DEF TypeOK, storeVars, peerVars, monitorVars, tickVars
\* Only the release of chunks that are stored or nowhere is harmless.
<1>1. ASSUME have \subseteq have', UNCHANGED <<asked, batch, expired>>,
             inFlight \subseteq inFlight' \cup have'
      PROVE  OnePlace'
  BY <1>1 DEF OnePlace
<1>2. ASSUME NEW p \in Conns, NEW c \in Chunk, RecvPiece(p, c) PROVE OnePlace'
  BY <1>2 DEF RecvPiece, OnePlace
<1>3. ASSUME NEW p \in Conns, StorePiece(p) PROVE OnePlace'
  BY <1>1, <1>3 DEF StorePiece
<1>4. ASSUME NEW p \in Conns, NotifyScheduler(p) PROVE OnePlace'
  BY <1>1, <1>4 DEF NotifyScheduler, CopiesInv
<1>5. ASSUME NEW p \in Conns, Monitor(p) PROVE FALSE
  BY <1>5 DEF Monitor, Forget, DropTracker, Collect, ReleaseLost, StaysUp
<1>6. ASSUME NEW p \in Conns, NEW S \in SUBSET asked[p], Expire(p, S)
      PROVE  OnePlace'
  <2>1. /\ asked' = [asked EXCEPT ![p] = @ \ S]
        /\ expired' = expired \cup S
        /\ UNCHANGED <<have, inFlight, batch>>
    BY <1>6 DEF Expire
  <2>2. \A q \in Conns : asked'[q] \cap expired' \subseteq have
    BY <2>1 DEF OnePlace
  <2> QED BY <2>1, <2>2 DEF OnePlace
<1>7. CASE Look
  <2>1. \A i \in Ids : batch[i] = {}
    BY <1>7 DEF Look, BatchInv, NoChunks
  <2> QED BY <1>7, <2>1 DEF Look, OnePlace
<1>8. ASSUME NEW c \in Chunk, NEW i \in Ids, Assign(c, i) PROVE OnePlace'
  <2>1. /\ c \notin inFlight
        /\ batch' = [batch EXCEPT ![i] = @ \cup {c}]
        /\ inFlight' = inFlight \cup {c}
        /\ UNCHANGED <<have, asked, expired>>
    BY <1>8 DEF Assign, CopiesInv
  <2>2. \A p \in Conns : c \in asked[p] => c \in have
    BY <2>1 DEF OnePlace
  <2>3. \A j \in Ids : c \in batch[j] => c \in have
    BY <2>1 DEF OnePlace
  <2>4. \A j \in Ids : batch'[j] = IF j = i THEN batch[j] \cup {c} ELSE batch[j]
    BY <2>1
  <2> HIDE DEF TypeOK
  <2> QED BY <2>1, <2>2, <2>3, <2>4 DEF OnePlace
<1>9. ASSUME NEW i \in Ids, Lookup(i) PROVE OnePlace'
  BY <1>9 DEF Lookup, OnePlace
<1>10. ASSUME NEW p \in Conns, NEW S \in SUBSET batch[IdOf[p]], Request(p, S)
       PROVE  OnePlace'
  <2> DEFINE k == IdOf[p]
  <2>1. /\ expired = {}
        /\ \A q \in Conns : asked'[q] = IF q = p THEN asked[q] \cup batch[k]
                                               ELSE asked[q]
        /\ \A i \in Ids : batch'[i] = IF i = k THEN {} ELSE batch[i]
        /\ UNCHANGED <<have, inFlight, expired>>
    BY <1>10 DEF Request, CopiesInv
  <2>2. k \in Ids
    OBVIOUS
  <2> HIDE DEF TypeOK, k
  <2>3. \A q \in Conns : asked'[q] \subseteq inFlight \cup have
    BY <2>1, <2>2 DEF OnePlace
  <2>4. ASSUME NEW q \in Conns, NEW r \in Conns, q # r
        PROVE  asked'[q] \cap asked'[r] \subseteq have
    <3>1. /\ asked[q] \cap asked[r] \subseteq have
          /\ asked[q] \cap batch[k] \subseteq have
          /\ asked[r] \cap batch[k] \subseteq have
      BY <2>2, <2>4 DEF OnePlace
    <3>2. CASE q = p
      BY <2>1, <2>4, <3>1, <3>2
    <3>3. CASE r = p
      BY <2>1, <2>4, <3>1, <3>3
    <3>4. CASE q # p /\ r # p
      BY <2>1, <3>1, <3>4
    <3> QED BY <3>2, <3>3, <3>4
  <2>5. \A q \in Conns, i \in Ids : asked'[q] \cap batch'[i] \subseteq have
    BY <2>1, <2>2 DEF OnePlace
  <2> QED BY <2>1, <2>3, <2>4, <2>5 DEF OnePlace
<1>11. CASE UNCHANGED <<have, inFlight, asked, batch, expired>>
  BY <1>1, <1>11
<1> QED
  BY <1>2, <1>3, <1>4, <1>5, <1>6, <1>7, <1>8, <1>9, <1>10, <1>11
     DEF Next, Scheduler, Establish, ConnectToHost, Connect, AddPeer,
         ConnectFails, Close, Handle, StoreFails, UpdateTracker, RecvBitfield,
         Tick, MissingChunks, PrioritizeChunks, Skip, AssignDone, TickDone, vars

\* While connections stay up, a missing chunk awaited from a peer is in
\* flight for the scheduler, and is awaited from one peer only.
LEMMA OnePlaceInvariance ==
  ASSUME Closable = {}
  PROVE  Safe => [](InFlightCovers /\ NoDuplicateRequest)
<1> DEFINE UInv == BatchInv /\ StaysUp /\ CopiesInv /\ OnePlace
<1>1. Init => UInv
  <2>1. Cardinality({}) = 0
    BY FS_EmptySet
  <2> QED
    BY <2>1, CountsAssumption
       DEF Init, BatchInv, StaysUp, CopiesInv, OnePlace, NoChunks
<1>2. TypeOK /\ BudgetInv /\ UInv /\ [Next]_vars => UInv'
  BY BatchStep, StaysUpStep, CopiesStep, OnePlaceStep
<1>3. UInv => InFlightCovers /\ NoDuplicateRequest
  BY DEF OnePlace, InFlightCovers, NoDuplicateRequest
<1> HIDE DEF UInv
<1> QED BY <1>1, <1>2, <1>3, Typing, BudgetInvariance, PTL DEF Safe

\* While connections stay up, the scheduler's exclusion of chunks in flight
\* covers everything awaited from a peer, whatever times out or is lost.
THEOREM Covered ==
  ASSUME Closable = {}
  PROVE  Safe => []InFlightCovers
<1> QED BY OnePlaceInvariance, PTL

\* While connections stay up, no missing chunk is requested from two peers at
\* once, for any number of peers, chunks, timeouts and limits.
THEOREM NoDuplicates ==
  ASSUME Closable = {}
  PROVE  Safe => []NoDuplicateRequest
<1> QED BY OnePlaceInvariance, PTL

\* What Accounted says of a chunk that has not timed out.
Held(c) == \/ \E i \in Ids : c \in batch[i]
           \/ \E p \in Conns :
                \/ c \in asked[p] /\ monitor[p] \notin {"release", "done"}
                \/ c \in freed[p]
                \/ loop[p] \in {"store", "notify"} /\ piece[p] = c

LEMMA AccountedStep ==
  ASSUME "disk" \notin Faults
  PROVE  TypeOK /\ StaysUp /\ Accounted /\ [Next]_vars => Accounted'
<1> SUFFICES ASSUME TypeOK, StaysUp, Accounted, [Next]_vars PROVE Accounted'
  OBVIOUS
<1> USE PeersAssumption
    DEF TypeOK, storeVars, peerVars, monitorVars, tickVars
<1>0. \A c \in inFlight : c \in expired \/ Held(c)
  BY DEF Accounted, InHands, Held
<1>14. ASSUME \A c \in inFlight' : c \in expired' \/ Held(c)' PROVE Accounted'
  BY <1>14 DEF Accounted, InHands, Held
<1>1. ASSUME NEW p \in Conns, Establish(p) PROVE Accounted'
  <2>1. UNCHANGED <<inFlight, asked, batch, expired, freed, loop, piece>>
    BY <1>1 DEF Establish, ConnectToHost, Connect, AddPeer
  <2>2. \A q \in Conns : monitor[q] \notin {"release", "done"}
                           => monitor'[q] \notin {"release", "done"}
    BY <1>1 DEF Establish, ConnectToHost, Connect, AddPeer
  <2> HIDE DEF TypeOK
  <2> QED BY <2>1, <2>2 DEF Accounted, InHands
<1>2. ASSUME NEW p \in Conns, Close(p) PROVE Accounted'
  <2>1. UNCHANGED <<inFlight, asked, batch, expired, freed, loop, piece, monitor>>
    BY <1>2 DEF Close
  <2> QED BY <2>1 DEF Accounted, InHands
<1>3. ASSUME NEW p \in Conns, Monitor(p) PROVE FALSE
  BY <1>3 DEF Monitor, Forget, DropTracker, Collect, ReleaseLost, StaysUp
<1>4. ASSUME NEW p \in Conns, NEW c \in Chunk, RecvPiece(p, c) PROVE Accounted'
  <2>1. /\ asked' = [asked EXCEPT ![p] = @ \ {c}]
        /\ piece' = [piece EXCEPT ![p] = c]
        /\ loop'[p] \in {"store", "notify"}
        /\ loop[p] = "read"
        /\ \A q \in Conns \ {p} : loop'[q] = loop[q]
        /\ UNCHANGED <<inFlight, batch, expired, freed, monitor>>
    BY <1>4 DEF RecvPiece
  <2> QED BY <2>1 DEF Accounted, InHands
<1>5. ASSUME NEW p \in Conns, RecvBitfield(p) \/ StorePiece(p) \/ UpdateTracker(p)
      PROVE  Accounted'
  <2>1. UNCHANGED <<inFlight, asked, piece, batch, expired, freed, monitor>>
    BY <1>5 DEF RecvBitfield, StorePiece, UpdateTracker
  <2>2. \A q \in Conns : loop[q] \in {"store", "notify"}
                           => loop'[q] \in {"store", "notify"}
    BY <1>5 DEF RecvBitfield, StorePiece, UpdateTracker
  <2> HIDE DEF TypeOK
  <2> QED BY <2>1, <2>2 DEF Accounted, InHands
<1>6. ASSUME NEW p \in Conns, NotifyScheduler(p) PROVE Accounted'
  <2>1. /\ inFlight' = inFlight \ {piece[p]}
        /\ UNCHANGED <<asked, piece, batch, expired, freed, monitor>>
    BY <1>6 DEF NotifyScheduler
  <2>2. \A q \in Conns : q = p \/ loop'[q] = loop[q]
    BY <1>6 DEF NotifyScheduler
  <2>3. ASSUME NEW c \in inFlight', NEW q \in Conns, piece[q] = c
        PROVE  loop'[q] = loop[q]
    BY <2>1, <2>2, <2>3
  <2> HIDE DEF TypeOK
  <2>4. \A c \in inFlight' : Held(c) => Held(c)'
    BY <2>1, <2>3 DEF Held
  <2> QED BY <1>0, <2>1, <2>4, <1>14
<1>7. ASSUME NEW p \in Conns, NEW S \in SUBSET asked[p], Expire(p, S)
      PROVE  Accounted'
  BY <1>7 DEF Expire, Accounted, InHands
<1>8. CASE Look
  <2>1. /\ \A c \in inFlight' : c \in inFlight /\ c \notin expired
        /\ UNCHANGED <<asked, batch, freed, loop, piece, monitor>>
    BY <1>8 DEF Look
  <2> HIDE DEF TypeOK
  <2>2. \A c \in inFlight' : Held(c) => Held(c)'
    BY <2>1 DEF Held
  <2>3. \A c \in inFlight' : c \in expired' \/ Held(c)'
    BY <1>0, <2>1, <2>2
  <2> QED BY <1>14, <2>3
<1>9. ASSUME NEW c \in Chunk, NEW i \in Ids, Assign(c, i) PROVE Accounted'
  <2>1. /\ inFlight' = inFlight \cup {c}
        /\ batch' = [batch EXCEPT ![i] = @ \cup {c}]
        /\ UNCHANGED <<asked, loop, piece, expired, freed, monitor>>
    BY <1>9 DEF Assign
  <2>2. c \in batch'[i] /\ \A j \in Ids : batch[j] \subseteq batch'[j]
    BY <2>1
  <2> HIDE DEF TypeOK
  <2>3. \A k \in inFlight' : k = c \/ k \in inFlight
    BY <2>1
  <2>4. Held(c)' /\ \A k \in inFlight : Held(k) => Held(k)'
    BY <2>1, <2>2 DEF Held
  <2>5. \A k \in inFlight' : k \in expired' \/ Held(k)'
    BY <1>0, <2>1, <2>3, <2>4
  <2> QED BY <1>14, <2>5
<1>10. ASSUME NEW i \in Ids, Lookup(i) PROVE Accounted'
  BY <1>10 DEF Lookup, Accounted, InHands, StaysUp
<1>11. ASSUME NEW p \in Conns, NEW S \in SUBSET batch[IdOf[p]], Request(p, S)
       PROVE  Accounted'
  <2>1. /\ asked' = [asked EXCEPT ![p] = @ \cup batch[IdOf[p]]]
        /\ batch' = [batch EXCEPT ![IdOf[p]] = {}]
        /\ UNCHANGED <<inFlight, loop, piece, expired, freed, monitor>>
    BY <1>11 DEF Request
  <2>2. monitor[p] \notin {"release", "done"}
    BY DEF StaysUp
  <2>3. /\ asked[p] \subseteq asked'[p] /\ batch[IdOf[p]] \subseteq asked'[p]
        /\ \A q \in Conns : q = p \/ asked'[q] = asked[q]
        /\ \A i \in Ids : i = IdOf[p] \/ batch'[i] = batch[i]
    BY <2>1
  <2> HIDE DEF TypeOK
  <2>4. \A c \in inFlight' : Held(c) => Held(c)'
    BY <2>1, <2>2, <2>3 DEF Held
  <2>5. \A c \in inFlight' : c \in expired' \/ Held(c)'
    BY <1>0, <2>1, <2>4
  <2> QED BY <1>14, <2>5
<1>12. ASSUME NEW p \in Conns, StoreFails(p) PROVE FALSE
  BY <1>12 DEF StoreFails
<1>13. CASE UNCHANGED <<inFlight, asked, batch, expired, freed, loop, piece, monitor>>
  BY <1>13 DEF Accounted, InHands
<1> QED
  BY <1>1, <1>2, <1>3, <1>4, <1>5, <1>6, <1>7, <1>8, <1>9, <1>10, <1>11, <1>12,
     <1>13
     DEF Next, Scheduler, ConnectFails, Handle, Tick, MissingChunks,
         PrioritizeChunks, Skip, AssignDone, TickDone, vars

\* While connections stay up and the disk works, no chunk is left in flight
\* without anybody to release it, even when remotes skip requests.
THEOREM NothingStranded ==
  ASSUME Closable = {}, "disk" \notin Faults
  PROVE  Safe => []Accounted
<1> DEFINE AInv == BatchInv /\ StaysUp /\ Accounted
<1>1. Init => AInv
  <2>1. Cardinality({}) = 0
    BY FS_EmptySet
  <2> QED
    BY <2>1, CountsAssumption
       DEF Init, BatchInv, StaysUp, Accounted, NoChunks
<1>2. TypeOK /\ BudgetInv /\ AInv /\ [Next]_vars => AInv'
  BY BatchStep, StaysUpStep, AccountedStep
<1>3. AInv => Accounted
  OBVIOUS
<1> HIDE DEF AInv
<1> QED BY <1>1, <1>2, <1>3, Typing, BudgetInvariance, PTL DEF Safe
-----------------------------------------------------------------------------
(* How a chunk in flight may get out of everyone's hands.                  *)

\* Only a monitor about to release chunks keeps a list of them.
FreedInv == \A p \in Conns : freed[p] # {} => monitor[p] = "release"

LEMMA FreedStep == TypeOK /\ FreedInv /\ [Next]_vars => FreedInv'
<1> SUFFICES ASSUME TypeOK, FreedInv, [Next]_vars PROVE FreedInv'
  OBVIOUS
<1> USE DEF TypeOK, FreedInv, storeVars, peerVars, monitorVars, tickVars
<1>1. ASSUME NEW p \in Conns, AddPeer(p) PROVE FreedInv'
  BY <1>1 DEF AddPeer
<1>2. ASSUME NEW p \in Conns, Monitor(p) PROVE FreedInv'
  <2>1. CASE Forget(p)
    BY <2>1 DEF Forget
  <2>2. CASE DropTracker(p)
    BY <2>2 DEF DropTracker
  <2>3. CASE Collect(p)
    BY <2>3 DEF Collect
  <2>4. CASE ReleaseLost(p)
    BY <2>4 DEF ReleaseLost
  <2> QED BY <1>2, <2>1, <2>2, <2>3, <2>4 DEF Monitor
<1>3. CASE UNCHANGED monitorVars
  BY <1>3
<1> QED
  BY <1>1, <1>2, <1>3
     DEF Next, Scheduler, Establish, Handle, ConnectToHost, Connect,
         ConnectFails, Close, RecvPiece, StorePiece, StoreFails,
         NotifyScheduler, UpdateTracker, RecvBitfield, Tick, Expire, Look,
         MissingChunks, PrioritizeChunks, Assign, Skip, AssignDone, Lookup,
         Request, TickDone, vars

\* A chunk in somebody's hands stays there, or it leaves the set of chunks in
\* flight, or its request cannot be made, or writing it fails.
LEMMA HandsStep ==
  ASSUME TypeOK, FreedInv, [Next]_vars,
         NEW c \in inFlight', c \in inFlight => InHands(c),
         ~Unrequested(c), ~WriteFailed(c)
  PROVE  InHands(c)'
<1> USE PeersAssumption
    DEF TypeOK, storeVars, peerVars, monitorVars, tickVars
<1>1. c \in inFlight => c \in expired \/ Held(c)
  BY DEF InHands, Held
<1>2. ASSUME c \in expired' \/ Held(c)' PROVE InHands(c)'
  BY <1>2 DEF InHands, Held
<1>3. ASSUME inFlight' \subseteq inFlight, expired' = expired,
             Held(c) => Held(c)'
      PROVE  InHands(c)'
  BY <1>1, <1>2, <1>3
<1>4. ASSUME NEW p \in Conns, Establish(p) \/ Forget(p) \/ DropTracker(p)
      PROVE  InHands(c)'
  <2>1. UNCHANGED <<inFlight, asked, batch, expired, freed, loop, piece>>
    BY <1>4 DEF Establish, ConnectToHost, Connect, AddPeer, Forget, DropTracker
  <2>2. \A q \in Conns : monitor[q] \notin {"release", "done"}
                           => monitor'[q] \notin {"release", "done"}
    BY <1>4 DEF Establish, ConnectToHost, Connect, AddPeer, Forget, DropTracker
  <2> HIDE DEF TypeOK
  <2> QED BY <1>3, <2>1, <2>2 DEF Held
<1>5. ASSUME NEW p \in Conns, Collect(p) PROVE InHands(c)'
  <2>1. /\ monitor[p] = "collect" /\ freed'[p] = asked[p]
        /\ \A q \in Conns : q = p \/ freed'[q] = freed[q]
        /\ \A q \in Conns : q = p \/ monitor'[q] = monitor[q]
        /\ UNCHANGED <<inFlight, asked, batch, expired, loop, piece>>
    BY <1>5 DEF Collect
  <2>2. c \notin freed[p]
    BY <2>1 DEF FreedInv
  <2> HIDE DEF TypeOK
  <2> QED BY <1>3, <2>1, <2>2 DEF Held
<1>6. ASSUME NEW p \in Conns, ReleaseLost(p) PROVE InHands(c)'
  <2>1. /\ monitor[p] = "release" /\ inFlight' = inFlight \ freed[p]
        /\ \A q \in Conns : q = p \/ freed'[q] = freed[q]
        /\ \A q \in Conns : q = p \/ monitor'[q] = monitor[q]
        /\ UNCHANGED <<asked, batch, expired, loop, piece>>
    BY <1>6 DEF ReleaseLost
  <2> HIDE DEF TypeOK
  <2>2. c \notin freed[p] /\ inFlight' \subseteq inFlight
    BY <2>1
  <2> QED BY <1>3, <2>1, <2>2 DEF Held
<1>7. ASSUME NEW p \in Conns, NEW k \in Chunk, RecvPiece(p, k) PROVE InHands(c)'
  <2>1. /\ asked' = [asked EXCEPT ![p] = @ \ {k}]
        /\ loop[p] = "read" /\ loop'[p] \in {"store", "notify"}
        /\ piece' = [piece EXCEPT ![p] = k]
        /\ \A q \in Conns : q = p \/ loop'[q] = loop[q]
        /\ UNCHANGED <<inFlight, batch, expired, freed, monitor>>
    BY <1>7 DEF RecvPiece
  <2>2. /\ piece'[p] = k
        /\ \A q \in Conns : q = p \/ piece'[q] = piece[q]
        /\ \A q \in Conns : q = p \/ asked'[q] = asked[q]
        /\ asked[p] \subseteq asked'[p] \cup {k}
    BY <2>1
  <2> HIDE DEF TypeOK
  <2>3. Held(c) => Held(c)'
    BY <2>1, <2>2 DEF Held
  <2> QED BY <1>3, <2>1, <2>3
<1>8. ASSUME NEW p \in Conns, RecvBitfield(p) \/ StorePiece(p) \/ UpdateTracker(p)
      PROVE  InHands(c)'
  <2>1. UNCHANGED <<inFlight, asked, piece, batch, expired, freed, monitor>>
    BY <1>8 DEF RecvBitfield, StorePiece, UpdateTracker
  <2>2. \A q \in Conns : loop[q] \in {"store", "notify"}
                           => loop'[q] \in {"store", "notify"}
    BY <1>8 DEF RecvBitfield, StorePiece, UpdateTracker
  <2> HIDE DEF TypeOK
  <2> QED BY <1>3, <2>1, <2>2 DEF Held
<1>9. ASSUME NEW p \in Conns, StoreFails(p) \/ NotifyScheduler(p)
      PROVE  InHands(c)'
  <2>1. /\ inFlight' \subseteq inFlight
        /\ UNCHANGED <<asked, piece, batch, expired, freed, monitor>>
        /\ \A q \in Conns : q = p \/ loop'[q] = loop[q]
    BY <1>9 DEF StoreFails, NotifyScheduler
  <2>2. piece[p] # c
    BY <1>9 DEF StoreFails, NotifyScheduler, WriteFailed
  <2> HIDE DEF TypeOK
  <2> QED BY <1>3, <2>1, <2>2 DEF Held
<1>10. ASSUME NEW p \in Conns, NEW S \in SUBSET asked[p], Expire(p, S)
       PROVE  InHands(c)'
  <2>1. /\ expired' = expired \cup S
        /\ \A q \in Conns : asked[q] \subseteq asked'[q] \cup S
        /\ UNCHANGED <<inFlight, batch, loop, piece, freed, monitor>>
    BY <1>10 DEF Expire
  <2> HIDE DEF TypeOK
  <2>2. Held(c) => c \in expired' \/ Held(c)'
    BY <2>1 DEF Held
  <2> QED BY <1>1, <1>2, <2>1, <2>2
<1>11. CASE Look
  <2>1. /\ c \in inFlight /\ c \notin expired
        /\ UNCHANGED <<asked, batch, freed, loop, piece, monitor>>
    BY <1>11 DEF Look
  <2> HIDE DEF TypeOK
  <2>2. Held(c) => Held(c)'
    BY <2>1 DEF Held
  <2> QED BY <1>1, <1>2, <2>1, <2>2
<1>12. ASSUME NEW k \in Chunk, NEW i \in Ids, Assign(k, i) PROVE InHands(c)'
  <2>1. /\ inFlight' = inFlight \cup {k}
        /\ batch' = [batch EXCEPT ![i] = @ \cup {k}]
        /\ UNCHANGED <<asked, loop, piece, expired, freed, monitor>>
    BY <1>12 DEF Assign
  <2>2. k \in batch'[i] /\ \A j \in Ids : batch[j] \subseteq batch'[j]
    BY <2>1
  <2> HIDE DEF TypeOK
  <2>3. (c = k \/ Held(c)) => Held(c)'
    BY <2>1, <2>2 DEF Held
  <2> QED BY <1>1, <1>2, <2>1, <2>3
<1>13. ASSUME NEW i \in Ids, Lookup(i) PROVE InHands(c)'
  <2>1. /\ \A j \in Ids : \/ batch'[j] = batch[j]
                          \/ j = i /\ batch'[i] = {} /\ peers[i] = NoPeer
        /\ UNCHANGED <<inFlight, asked, loop, piece, expired, freed, monitor>>
    BY <1>13 DEF Lookup
  <2> HIDE DEF TypeOK
  <2>2. \A j \in Ids : c \in batch[j] => c \in batch'[j]
    BY <2>1 DEF Unrequested
  <2> QED BY <1>3, <2>1, <2>2 DEF Held
<1>14. ASSUME NEW p \in Conns, NEW S \in SUBSET batch[IdOf[p]], Request(p, S)
       PROVE  InHands(c)'
  <2>1. /\ target = p /\ p # NoPeer
        /\ asked' = [asked EXCEPT ![p] = @ \cup batch[IdOf[p]]]
        /\ batch' = [batch EXCEPT ![IdOf[p]] = {}]
        /\ UNCHANGED <<inFlight, loop, piece, expired, freed, monitor>>
    BY <1>14 DEF Request
  <2>2. /\ IdOf[p] \in Ids /\ batch'[IdOf[p]] = {}
        /\ batch[IdOf[p]] \subseteq asked'[p]
        /\ \A q \in Conns : asked[q] \subseteq asked'[q]
        /\ \A i \in Ids : i = IdOf[p] \/ batch'[i] = batch[i]
    BY <2>1
  <2> HIDE DEF TypeOK
  <2>3. c \in batch[IdOf[p]] => monitor[p] \notin {"release", "done"}
    BY <2>1, <2>2 DEF Unrequested
  <2>4. Held(c) => Held(c)'
    BY <2>1, <2>2, <2>3 DEF Held
  <2> QED BY <1>3, <2>1, <2>4
<1>15. CASE UNCHANGED <<inFlight, asked, batch, expired, freed, loop, piece, monitor>>
  BY <1>3, <1>15 DEF Held
<1> QED
  BY <1>4, <1>5, <1>6, <1>7, <1>8, <1>9, <1>10, <1>11, <1>12, <1>13, <1>14,
     <1>15
     DEF Next, Scheduler, ConnectFails, Close, Monitor, Handle, Tick,
         MissingChunks, PrioritizeChunks, Skip, AssignDone, TickDone, vars

\* For any chunks, peers, limits and faults, a chunk in flight is lost track of
\* in two ways only: its peer is gone when the request is to be made, or it
\* cannot be written.
THEOREM OnlyTwoStrand == Safe => StrandedOnlyBy
<1>1. Init => FreedInv
  BY DEF Init, FreedInv
<1>2. TypeOK /\ FreedInv /\ [Next]_vars
        => [\A c \in inFlight' :
              \/ InHands(c)'
              \/ c \in inFlight /\ ~InHands(c)
              \/ Unrequested(c) \/ WriteFailed(c)]_vars
  BY HandsStep
<1> QED BY <1>1, <1>2, FreedStep, Typing, PTL DEF Safe, StrandedOnlyBy

-----------------------------------------------------------------------------
(* With one connection no chunk is counted twice. *)

\* A chunk about to be written is not in the store yet.
CountInv == /\ ExactCount
            /\ \A p \in Conns : loop[p] = "store" => piece[p] \notin have
            /\ at = "stopped" => count = ChunkCount

\* A set of ChunkCount chunks holds them all.
LEMMA CountIsAll ==
  TypeOK /\ Cardinality(have) = ChunkCount => have = Chunk
<1> SUFFICES ASSUME TypeOK, Cardinality(have) = ChunkCount PROVE have = Chunk
  OBVIOUS
<1>1. IsFiniteSet(Chunk) /\ Cardinality(Chunk) = ChunkCount
  BY FS_Interval, CountsAssumption DEF Chunk
<1>2. have \subseteq Chunk
  BY DEF TypeOK
<1> QED BY <1>1, <1>2, FS_Subset

LEMMA CountStep ==
  ASSUME \A p, q \in Conns : p = q
  PROVE  TypeOK /\ CountInv /\ [Next]_vars => CountInv'
<1> SUFFICES ASSUME TypeOK, CountInv, [Next]_vars PROVE CountInv'
  OBVIOUS
<1> USE DEF TypeOK, CountInv, ExactCount, storeVars, peerVars, monitorVars,
            tickVars
<1>1. ASSUME NEW p \in Conns, StorePiece(p) PROVE CountInv'
  <2>1. Cardinality(have \cup {piece[p]}) = Cardinality(have) + 1
    <3>1. IsFiniteSet(have) /\ piece[p] \notin have
      BY <1>1, ChunksFinite DEF StorePiece
    <3> QED BY <3>1, FS_AddElement
  <2>2. ExactCount'
    BY <1>1, <2>1 DEF StorePiece
  <2>3. \A q \in Conns : loop'[q] # "store"
    BY <1>1 DEF StorePiece
  <2>4. (at = "stopped" => count = ChunkCount)'
    \* All chunks are in the store when the scheduler has stopped.
    <3>1. at # "stopped"
      <4> SUFFICES ASSUME at = "stopped" PROVE FALSE
        OBVIOUS
      <4>1. have = Chunk
        BY CountIsAll
      <4> QED BY <1>1, <4>1 DEF StorePiece
    <3> QED BY <1>1, <3>1 DEF StorePiece
  <2> QED BY <2>2, <2>3, <2>4
<1>2. ASSUME NEW p \in Conns, NEW c \in Chunk, RecvPiece(p, c)
      PROVE  CountInv'
  BY <1>2 DEF RecvPiece
<1>3. CASE Tick
  BY <1>3 DEF Tick
<1>4. ASSUME NEW p \in Conns,
             Establish(p) \/ Close(p) \/ Monitor(p) \/ RecvBitfield(p)
      PROVE  CountInv'
  BY <1>4 DEF Establish, ConnectToHost, Connect, AddPeer, Close, Monitor,
              Forget, DropTracker, Collect, ReleaseLost, RecvBitfield
<1>5. ASSUME NEW p \in Conns,
             StoreFails(p) \/ NotifyScheduler(p) \/ UpdateTracker(p)
      PROVE  CountInv'
  BY <1>5 DEF StoreFails, NotifyScheduler, UpdateTracker
<1>6. CASE Scheduler /\ ~Tick
  <2>1. UNCHANGED <<storeVars, loop, piece>> /\ at' # "stopped"
    BY <1>6 DEF Scheduler, Expire, Look, MissingChunks, PrioritizeChunks, Skip,
                Assign, AssignDone, Lookup, Request, TickDone
  <2> QED BY <2>1
<1>7. CASE ConnectFails
  BY <1>7 DEF ConnectFails
<1>8. CASE UNCHANGED vars
  BY <1>8 DEF vars
<1> QED BY <1>1, <1>2, <1>3, <1>4, <1>5, <1>6, <1>7, <1>8 DEF Next, Handle

\* Run stops only when every chunk is in the store, if the joiner has one
\* connection: it takes two to count a chunk twice.
THEOREM StopsComplete ==
  ASSUME \A p, q \in Conns : p = q
  PROVE  Safe => []StopsWhenComplete
<1>1. Init => CountInv
  BY FS_EmptySet DEF Init, CountInv, ExactCount
<1>2. TypeOK /\ CountInv => StopsWhenComplete
  BY CountIsAll DEF CountInv, ExactCount, StopsWhenComplete
<1> QED BY <1>1, <1>2, CountStep, Typing, PTL DEF Safe
=============================================================================
