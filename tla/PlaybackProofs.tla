--------------------------- MODULE PlaybackProofs ---------------------------
(***************************************************************************)
(* What holds of Playback for any sizes of the file, of its chunks and of  *)
(* the reads, and any number of handlers and connections: it implements    *)
(* Download, what a handler waits for is urgent, and what it sends is      *)
(* right.                                                                  *)
(***************************************************************************)
EXTENDS Playback, DownloadProofs, SequenceTheorems

-----------------------------------------------------------------------------
(* The scores, the readers and the cursor restrict Download. *)

LEMMA NextImplemented == [PNext]_pvars => [Next]_vars
<1> SUFFICES ASSUME [PNext]_pvars PROVE [Next]_vars
  OBVIOUS
<1>1. CASE PScheduler
  <2>1. Scheduler
    BY <1>1 DEF PScheduler, Scheduler, TimeOut, Survey, Rank, Chosen,
                PassOver, Choose
  <2> QED BY <2>1 DEF Next
<1>2. CASE SetCursor
  BY <1>2 DEF SetCursor
<1>3. CASE ConnectFails
  BY <1>3 DEF Next
<1>4. ASSUME NEW p \in Conns,
             \/ Establish(p) \/ Close(p) \/ Monitor(p) \/ Bitfield(p)
             \/ \E c \in Chunk : Receive(p, c)
      PROVE  Next
  BY <1>4 DEF Next, Bitfield, Receive
<1>5. ASSUME NEW p \in Conns, ReadLoop(p) PROVE [Next]_vars
  BY <1>5 DEF ReadLoop, Notify, OnPieceReceived, Next, Handle
<1>6. ASSUME NEW r \in Readers, Serve(r) \/ Handler(r) PROVE UNCHANGED vars
  BY <1>6 DEF Serve, Handler, CheckChunk, Demand, ReadBytes, WriteFails
<1>7. CASE UNCHANGED pvars
  BY <1>7 DEF pvars
<1> QED BY <1>1, <1>2, <1>3, <1>4, <1>5, <1>6, <1>7 DEF PNext

\* Every step of the download with its player is a step of the download.
THEOREM ImplementsDownload == PSpec => Safe
<1>1. PInit => Init
  BY DEF PInit
<1> QED BY <1>1, NextImplemented, PTL DEF PSpec, Safe

-----------------------------------------------------------------------------
(* Chunks and bytes. *)

LEMMA DivBounds ==
  ASSUME NEW b \in Nat, NEW n \in Nat \ {0}
  PROVE  /\ b \div n \in Nat
         /\ (b \div n) * n <= b
         /\ b <= (b \div n) * n + n - 1
OBVIOUS

LEMMA DivMonotone ==
  ASSUME NEW a \in Nat, NEW b \in Nat, NEW n \in Nat \ {0}, a <= b
  PROVE  a \div n <= b \div n
OBVIOUS

\* A byte of the file is one of those of the chunk it falls in.
LEMMA ByteInChunk ==
  ASSUME NEW b \in 0 .. FileSize - 1
  PROVE  b \in BytesOf(b \div ChunkSize)
<1> DEFINE c == b \div ChunkSize
<1>a. b \in Nat /\ b <= FileSize - 1
  BY PlaybackAssumption
<1>b. /\ c \in Nat
      /\ c * ChunkSize <= b /\ b <= c * ChunkSize + ChunkSize - 1
  BY <1>a, DivBounds, PlaybackAssumption
<1> HIDE DEF c
<1>1. /\ c \in Nat /\ c * ChunkSize \in Nat
      /\ c * ChunkSize <= b /\ b <= c * ChunkSize + ChunkSize - 1
  BY <1>b, PlaybackAssumption
<1>2. b <= c * ChunkSize + ChunkSizeAt(c) - 1
  BY <1>1, PlaybackAssumption DEF ChunkSizeAt
<1>3. ChunkSizeAt(c) \in Int
  BY <1>1, PlaybackAssumption, CountsAssumption DEF ChunkSizeAt
<1>4. b \in BytesOf(c)
  BY <1>1, <1>2, <1>3 DEF BytesOf
<1> QED BY <1>4 DEF c

\* A read of bytes whose chunks are in the store has no holes.
LEMMA ReadAtRight ==
  ASSUME NEW o \in Nat, NEW n \in Nat \ {0}, o + n <= FileSize,
         StartChunk(o) .. EndChunk(o, n) \subseteq have
  PROVE  ReadAt(o, n) = [k \in 1 .. n |-> o + k - 1]
<1> SUFFICES ASSUME NEW k \in 1 .. n
             PROVE  \E c \in have : o + k - 1 \in BytesOf(c)
  BY DEF ReadAt
<1> DEFINE b == o + k - 1
<1>1. b \in 0 .. FileSize - 1 /\ o <= b /\ b <= o + n - 1 /\ o + n - 1 \in Nat
  BY PlaybackAssumption
<1>2. /\ o \div ChunkSize <= b \div ChunkSize
      /\ b \div ChunkSize <= (o + n - 1) \div ChunkSize
  BY <1>1, DivMonotone, PlaybackAssumption
<1>3. /\ o \div ChunkSize \in Nat /\ b \div ChunkSize \in Nat
      /\ (o + n - 1) \div ChunkSize \in Nat
  BY <1>1, DivBounds, PlaybackAssumption
<1>4. b \div ChunkSize \in have
  BY <1>2, <1>3 DEF StartChunk, EndChunk
<1> QED BY <1>1, <1>4, ByteInChunk

-----------------------------------------------------------------------------
(* What a handler sends. *)

\* The bytes sent by r are those between the first asked for and its offset.
SentTo(r) ==
  /\ step[r] \in {"none", "demand", "urgent", "wait", "done"}
  /\ range[r].first \in Nat /\ range[r].stop \in Nat /\ offset[r] \in Nat
  /\ range[r].first <= offset[r] /\ offset[r] <= range[r].stop
  /\ range[r].stop <= FileSize
  /\ step[r] \in {"demand", "urgent", "wait"} => offset[r] < range[r].stop
  /\ step[r] = "done" => offset[r] = range[r].stop
  /\ body[r] = [k \in 1 .. offset[r] - range[r].first |-> range[r].first + k - 1]

SentInv ==
  /\ step \in [Readers -> {"none", "demand", "urgent", "wait", "done"}]
  /\ range \in [Readers -> [first : Nat, stop : Nat]]
  /\ offset \in [Readers -> Nat]
  /\ next \in [Readers -> Nat]
  /\ DOMAIN body = Readers
  /\ \A r \in Readers : SentTo(r)

\* A read asks for at least a byte, and for none beyond the range.
LEMMA LengthBounds ==
  ASSUME NEW r \in Readers, SentInv, step[r] \in {"demand", "urgent", "wait"}
  PROVE  /\ Length(r) \in Nat \ {0}
         /\ offset[r] + Length(r) <= range[r].stop
         /\ StartChunk(offset[r]) \in Nat /\ LastChunk(r) \in Nat
<1>1. /\ offset[r] \in Nat /\ range[r].stop \in Nat /\ FileSize \in Nat
      /\ offset[r] < range[r].stop /\ range[r].stop <= FileSize
      /\ Buffer \in Nat \ {0} /\ ChunkSize \in Nat \ {0}
  BY PlaybackAssumption DEF SentInv, SentTo
<1>2. /\ Length(r) \in Nat \ {0}
      /\ offset[r] + Length(r) <= range[r].stop
  BY <1>1 DEF Length, Least
<1>3. offset[r] + Length(r) - 1 \in Nat
  BY <1>1, <1>2
<1>4. offset[r] \div ChunkSize \in Nat
      /\ (offset[r] + Length(r) - 1) \div ChunkSize \in Nat
  BY <1>1, <1>3, DivBounds
<1> QED BY <1>2, <1>4 DEF StartChunk, LastChunk, EndChunk

\* Two runs of numbers, one after the other.
LEMMA RunsJoin ==
  ASSUME NEW f \in Nat, NEW m \in Nat, NEW n \in Nat
  PROVE  [k \in 1 .. m |-> f + k - 1] \o [k \in 1 .. n |-> f + m + k - 1]
           = [k \in 1 .. m + n |-> f + k - 1]
<1> DEFINE s == [k \in 1 .. m |-> f + k - 1]
           t == [k \in 1 .. n |-> f + m + k - 1]
           u == [k \in 1 .. m + n |-> f + k - 1]
<1>1. s \in Seq(Int) /\ Len(s) = m /\ t \in Seq(Int) /\ Len(t) = n
      /\ u \in Seq(Int) /\ Len(u) = m + n
  OBVIOUS
<1> HIDE DEF s, t, u
<1>2. /\ s \o t \in Seq(Int) /\ Len(s \o t) = m + n
      /\ \A i \in 1 .. m + n : (s \o t)[i] = IF i <= m THEN s[i] ELSE t[i - m]
  BY <1>1, ConcatProperties
<1>3. \A i \in 1 .. m + n : (s \o t)[i] = u[i]
  BY <1>2 DEF s, t, u
<1>4. s \o t = u
  BY <1>1, <1>2, <1>3, SeqEqual
<1> QED BY <1>4 DEF s, t, u

LEMMA SentStep == SentInv /\ [PNext]_pvars => SentInv'
<1> SUFFICES ASSUME SentInv, [PNext]_pvars PROVE SentInv'
  OBVIOUS
<1> USE DEF readerVars
<1>1. ASSUME UNCHANGED readerVars PROVE SentInv'
  BY <1>1 DEF SentInv, SentTo
<1>2. ASSUME NEW r \in Readers, Serve(r) PROVE SentInv'
  <2>1. PICK g \in Requests :
          /\ g.first < FileSize
          /\ range' = [range EXCEPT ![r] =
               [first |-> g.first, stop |-> Least(g.last + 1, FileSize)]]
          /\ offset' = [offset EXCEPT ![r] = g.first]
          /\ next' = [next EXCEPT ![r] = StartChunk(g.first)]
    BY <1>2 DEF Serve
  <2>2. step' = [step EXCEPT ![r] = "demand"] /\ body' = [body EXCEPT ![r] = <<>>]
    BY <1>2 DEF Serve
  <2>3. /\ g.first \in Nat /\ g.last \in Nat /\ g.first <= g.last
        /\ FileSize \in Nat /\ ChunkSize \in Nat \ {0}
    BY PlaybackAssumption
  <2>4. StartChunk(g.first) \in Nat
    BY <2>3, DivBounds DEF StartChunk
  <2>5. /\ Least(g.last + 1, FileSize) \in Nat
        /\ g.first < Least(g.last + 1, FileSize)
        /\ Least(g.last + 1, FileSize) <= FileSize
    BY <2>1, <2>3 DEF Least
  <2>6. <<>> = [k \in 1 .. g.first - g.first |-> g.first + k - 1]
    BY <2>3
  <2>7. SentTo(r)'
    BY <2>1, <2>2, <2>3, <2>5, <2>6 DEF SentTo, SentInv
  <2>8. \A q \in Readers \ {r} : SentTo(q)'
    BY <2>1, <2>2 DEF SentTo, SentInv
  <2> QED BY <2>1, <2>2, <2>3, <2>4, <2>5, <2>7, <2>8 DEF SentInv
<1>3. ASSUME NEW r \in Readers, ReadBytes(r) PROVE SentInv'
  <2> DEFINE o == offset[r]
             n == Length(r)
             f == range[r].first
             e == range[r].stop
  <2>1. /\ n \in Nat \ {0} /\ o \in Nat /\ f \in Nat /\ e \in Nat
        /\ f <= o /\ o + n <= e /\ e <= FileSize
    BY <1>3, LengthBounds DEF ReadBytes, SentInv, SentTo
  <2>2. ReadAt(o, n) = [k \in 1 .. n |-> o + k - 1]
    <3>1. StartChunk(o) .. EndChunk(o, n) \subseteq have
      BY <1>3 DEF ReadBytes, LastChunk
    <3>2. o + n <= FileSize
      BY <2>1, PlaybackAssumption
    <3> QED BY <2>1, <3>1, <3>2, ReadAtRight
  <2>3. body[r] = [k \in 1 .. o - f |-> f + k - 1]
    BY DEF SentInv, SentTo
  <2> HIDE DEF n
  <2>4. body[r] \o ReadAt(o, n) = [k \in 1 .. (o + n) - f |-> f + k - 1]
    <3> DEFINE m == o - f
    <3>1. m \in Nat /\ o = f + m /\ m + n = (o + n) - f
      BY <2>1
    <3>2. /\ body[r] = [k \in 1 .. m |-> f + k - 1]
          /\ ReadAt(o, n) = [k \in 1 .. n |-> f + m + k - 1]
      BY <2>2, <2>3, <3>1
    <3> HIDE DEF m, o, f
    <3>3. [k \in 1 .. m |-> f + k - 1] \o [k \in 1 .. n |-> f + m + k - 1]
            = [k \in 1 .. m + n |-> f + k - 1]
      BY <2>1, <3>1, RunsJoin
    <3> QED BY <3>1, <3>2, <3>3
  <2>5. /\ body' = [body EXCEPT ![r] = @ \o ReadAt(o, n)]
        /\ offset' = [offset EXCEPT ![r] = @ + n]
        /\ UNCHANGED range
        /\ step' = [step EXCEPT ![r] = IF offset'[r] = range[r].stop THEN "done"
                                       ELSE "demand"]
        /\ next' = [next EXCEPT ![r] = IF step'[r] = "done" THEN 0
                                       ELSE StartChunk(offset'[r])]
    BY <1>3 DEF ReadBytes, n
  <2>6. offset'[r] = o + n
    BY <2>5 DEF SentInv
  <2>7. SentTo(r)'
    <3>1. /\ body'[r] = [k \in 1 .. (o + n) - f |-> f + k - 1]
          /\ range'[r] = range[r]
          /\ step'[r] = IF o + n = e THEN "done" ELSE "demand"
      BY <2>4, <2>5, <2>6 DEF SentInv
    <3>2. o + n \in Nat /\ f <= o + n /\ (o + n # e => o + n < e)
      BY <2>1
    <3> QED BY <2>1, <2>6, <3>1, <3>2 DEF SentTo
  <2>8. \A q \in Readers \ {r} : SentTo(q)'
    BY <2>5 DEF SentTo, SentInv
  <2>9. StartChunk(o + n) \in Nat
    <3>1. o + n \in Nat
      BY <2>1
    <3> QED BY <3>1, DivBounds, PlaybackAssumption DEF StartChunk
  <2>10. next' \in [Readers -> Nat]
    BY <2>5, <2>6, <2>9 DEF SentInv
  <2>11. offset' \in [Readers -> Nat]
    BY <2>1, <2>5 DEF SentInv
  <2> QED BY <2>5, <2>7, <2>8, <2>10, <2>11 DEF SentInv
<1>4. ASSUME NEW r \in Readers, CheckChunk(r) \/ Demand(r) PROVE SentInv'
  <2>1. /\ step[r] \in {"demand", "urgent"}
        /\ UNCHANGED <<range, offset, body>>
        /\ \E s \in {"demand", "urgent", "wait"} : step' = [step EXCEPT ![r] = s]
    BY <1>4 DEF CheckChunk, Demand, SentInv
  <2>2. \E n \in {0, next[r], next[r] + 1} : next' = [next EXCEPT ![r] = n]
    BY <1>4 DEF CheckChunk, Demand
  <2>3. next' \in [Readers -> Nat]
    BY <2>2 DEF SentInv
  <2>4. \A q \in Readers : SentTo(q)'
    BY <2>1 DEF SentInv, SentTo
  <2> QED BY <2>1, <2>3, <2>4 DEF SentInv
<1>5. ASSUME NEW r \in Readers, WriteFails(r) PROVE SentInv'
  BY <1>5 DEF SentInv, SentTo, WriteFails
<1>6. ASSUME NEW p \in Conns,
             \/ ReadLoop(p) \/ Bitfield(p)
             \/ \E c \in Chunk : Receive(p, c)
             \/ (Establish(p) \/ Close(p) \/ Monitor(p)) /\ OrderUnchanged
      PROVE  SentInv'
  BY <1>1, <1>6 DEF ReadLoop, Bitfield, Receive, Notify, OnPieceReceived,
                    OrderUnchanged
<1>7. CASE PScheduler
  BY <1>1, <1>7 DEF PScheduler, TimeOut, Survey, Rank, Chosen, PassOver,
                    Choose, OrderUnchanged
<1> QED BY <1>1, <1>2, <1>3, <1>4, <1>5, <1>6, <1>7
           DEF PNext, Handler, SetCursor, OrderUnchanged, pvars

\* mpv gets the bytes it asked for and no hole, for any sizes and any order in
\* which the chunks come.
THEOREM BodiesRight == PSpec => []BodyRight
<1>1. PInit => SentInv
  BY PlaybackAssumption DEF PInit, SentInv, SentTo
<1>2. SentInv => BodyRight
  BY DEF SentInv, SentTo, BodyRight
<1> QED BY <1>1, <1>2, SentStep, PTL DEF PSpec

-----------------------------------------------------------------------------
(* What a handler waits for. *)

\* A read loop that takes a chunk off the urgent set has stored it.
StoredInv ==
  \A p \in Conns : clearing[p] \/ loop[p] = "notify" => piece[p] \in have

\* What r has passed on its way to the last chunk is in the store or urgent.
DemandInv ==
  \A r \in Readers :
    /\ step[r] \in {"demand", "urgent"}
         => StartChunk(offset[r]) .. next[r] - 1 \subseteq urgent \cup have
    /\ step[r] = "wait"
         => StartChunk(offset[r]) .. LastChunk(r) \subseteq urgent \cup have


LEMMA HaveGrows == [PNext]_pvars => have \subseteq have'
<1> SUFFICES ASSUME [PNext]_pvars PROVE have \subseteq have'
  OBVIOUS
<1> USE DEF storeVars
<1>1. [Next]_vars
  BY NextImplemented
<1> QED
  BY <1>1
     DEF Next, Scheduler, Establish, Monitor, Handle, ConnectToHost, Connect,
         AddPeer, ConnectFails, Close, RecvPiece, StorePiece, StoreFails,
         NotifyScheduler, UpdateTracker, RecvBitfield, Forget, DropTracker,
         Collect, ReleaseLost, Tick, Expire, Look, MissingChunks,
         PrioritizeChunks, Assign, Skip, AssignDone, Lookup, Request,
         TickDone, vars

ClearingType == clearing \in [Conns -> BOOLEAN]

LEMMA StoredStep ==
  TypeOK /\ ClearingType /\ StoredInv /\ [PNext]_pvars
    => ClearingType' /\ StoredInv'
<1> SUFFICES ASSUME TypeOK, ClearingType, StoredInv, [PNext]_pvars
             PROVE  ClearingType' /\ StoredInv'
  OBVIOUS
<1> USE DEF ClearingType, StoredInv, TypeOK, storeVars, peerVars, monitorVars,
            tickVars, orderVars, readerVars, OrderUnchanged
<1>1. ASSUME UNCHANGED <<clearing, loop, piece>>
      PROVE  ClearingType' /\ StoredInv'
  BY <1>1, HaveGrows
<1>2. ASSUME NEW p \in Conns, NEW c \in Chunk, Receive(p, c)
      PROVE  ClearingType' /\ StoredInv'
  BY <1>2 DEF Receive, RecvPiece
<1>3. ASSUME NEW p \in Conns, StorePiece(p), OrderUnchanged
      PROVE  ClearingType' /\ StoredInv'
  BY <1>3 DEF StorePiece
<1>4. ASSUME NEW p \in Conns, StoreFails(p) \/ UpdateTracker(p),
             OrderUnchanged
      PROVE  ClearingType' /\ StoredInv'
  BY <1>4 DEF StoreFails, UpdateTracker
<1>5. ASSUME NEW p \in Conns, Notify(p) PROVE ClearingType' /\ StoredInv'
  BY <1>5 DEF Notify, NotifyScheduler
<1>6. ASSUME NEW p \in Conns, OnPieceReceived(p)
      PROVE  ClearingType' /\ StoredInv'
  BY <1>6 DEF OnPieceReceived, vars
<1>7. ASSUME NEW p \in Conns, Bitfield(p) PROVE ClearingType' /\ StoredInv'
  BY <1>7 DEF Bitfield, RecvBitfield
<1>8. ASSUME NEW p \in Conns, Establish(p) \/ Close(p) \/ Monitor(p),
             OrderUnchanged
      PROVE  ClearingType' /\ StoredInv'
  BY <1>1, <1>8
     DEF Establish, ConnectToHost, Connect, AddPeer, Close, Monitor, Forget,
         DropTracker, Collect, ReleaseLost
<1>9. CASE PScheduler
  BY <1>1, <1>9
     DEF PScheduler, TimeOut, Survey, Rank, Chosen, PassOver, Choose, Tick,
         Expire, Look, MissingChunks, PrioritizeChunks, Assign, Skip,
         AssignDone, Lookup, Request, TickDone
<1>10. CASE SetCursor \/ (ConnectFails /\ OrderUnchanged)
  BY <1>1, <1>10 DEF SetCursor, ConnectFails, vars
<1>11. ASSUME NEW r \in Readers, Serve(r) \/ Handler(r)
       PROVE  ClearingType' /\ StoredInv'
  BY <1>1, <1>11
     DEF Serve, Handler, CheckChunk, Demand, ReadBytes, WriteFails, vars
<1>12. CASE UNCHANGED pvars
  BY <1>1, <1>12 DEF pvars, vars
<1> QED
  BY <1>2, <1>3, <1>4, <1>5, <1>6, <1>7, <1>8, <1>9, <1>10, <1>11, <1>12
     DEF PNext, ReadLoop

LEMMA DemandStep ==
  SentInv /\ StoredInv /\ DemandInv /\ [PNext]_pvars => DemandInv'
<1> SUFFICES ASSUME SentInv, StoredInv, DemandInv, [PNext]_pvars
             PROVE  DemandInv'
  OBVIOUS
<1> USE DEF orderVars, readerVars, OrderUnchanged
<1>1. ASSUME UNCHANGED readerVars, urgent \cup have \subseteq urgent' \cup have'
      PROVE  DemandInv'
  BY <1>1 DEF DemandInv, LastChunk, Length
<1>2. ASSUME NEW r \in Readers, Serve(r) PROVE DemandInv'
  <2>1. PICK g \in Requests :
          /\ range' = [range EXCEPT ![r] =
               [first |-> g.first, stop |-> Least(g.last + 1, FileSize)]]
          /\ offset' = [offset EXCEPT ![r] = g.first]
          /\ next' = [next EXCEPT ![r] = StartChunk(g.first)]
    BY <1>2 DEF Serve
  <2>2. step' = [step EXCEPT ![r] = "demand"] /\ UNCHANGED <<urgent, have>>
    BY <1>2 DEF Serve, vars, storeVars
  <2>3. g.first \in Nat /\ ChunkSize \in Nat \ {0}
    BY PlaybackAssumption
  <2>4. StartChunk(g.first) \in Nat
    BY <2>3, DivBounds DEF StartChunk
  <2>5. StartChunk(offset'[r]) .. next'[r] - 1 = {}
    BY <2>1, <2>4 DEF SentInv
  <2> QED BY <2>1, <2>2, <2>5 DEF DemandInv, SentInv, LastChunk, Length
<1>3. ASSUME NEW r \in Readers, CheckChunk(r) PROVE DemandInv'
  <2> DEFINE S == StartChunk(offset[r])
             L == LastChunk(r)
             n == next[r]
  <2>1. S \in Nat /\ L \in Nat /\ n \in Nat
    BY <1>3, LengthBounds DEF CheckChunk, SentInv
  <2>2. S .. n - 1 \subseteq urgent \cup have
    BY <1>3 DEF CheckChunk, DemandInv
  <2>3. /\ UNCHANGED <<urgent, have, range, offset>>
        /\ StartChunk(offset[r])' = S /\ LastChunk(r)' = L
    BY <1>3 DEF CheckChunk, vars, storeVars, LastChunk, Length
  <2>4. \/ n > L /\ step'[r] = "wait"
        \/ n \in have /\ step'[r] = "demand" /\ next'[r] = n + 1
        \/ step'[r] = "urgent" /\ next'[r] = n
    BY <1>3 DEF CheckChunk, SentInv
  <2>5. \A q \in Readers \ {r} : step'[q] = step[q] /\ next'[q] = next[q]
    BY <1>3 DEF CheckChunk, SentInv
  <2> HIDE DEF S, L, n
  <2>6. n > L => S .. L \subseteq urgent \cup have
    BY <2>1, <2>2
  <2>7. n \in have => S .. (n + 1) - 1 \subseteq urgent \cup have
    BY <2>1, <2>2
  <2>8. /\ step'[r] \in {"demand", "urgent"}
             => S .. next'[r] - 1 \subseteq urgent' \cup have'
        /\ step'[r] = "wait" => S .. L \subseteq urgent' \cup have'
    BY <2>2, <2>3, <2>4, <2>6, <2>7
  <2> QED BY <2>3, <2>5, <2>8 DEF DemandInv, LastChunk, Length
<1>4. ASSUME NEW r \in Readers, Demand(r) PROVE DemandInv'
  <2>1. /\ urgent' = urgent \cup {next[r]}
        /\ next' = [next EXCEPT ![r] = @ + 1]
        /\ step' = [step EXCEPT ![r] = "demand"] /\ step[r] = "urgent"
        /\ UNCHANGED <<have, range, offset>>
    BY <1>4 DEF Demand, vars, storeVars
  <2>2. StartChunk(offset[r]) \in Nat /\ next[r] \in Nat
    BY <2>1, LengthBounds DEF SentInv
  <2>3. StartChunk(offset[r]) .. next[r] - 1 \subseteq urgent \cup have
    BY <2>1 DEF DemandInv
  <2>4. StartChunk(offset[r]) .. (next[r] + 1) - 1 \subseteq urgent' \cup have'
    BY <2>1, <2>2, <2>3
  <2> QED BY <2>1, <2>4 DEF DemandInv, SentInv, LastChunk, Length
<1>5. ASSUME NEW r \in Readers, ReadBytes(r) PROVE DemandInv'
  <2>1. /\ step[r] = "wait" /\ UNCHANGED <<urgent, have, range>>
        /\ offset' = [offset EXCEPT ![r] = @ + Length(r)]
        /\ step'[r] \in {"done", "demand"}
        /\ step'[r] = "demand" => next'[r] = StartChunk(offset'[r])
        /\ \A q \in Readers \ {r} : step'[q] = step[q] /\ next'[q] = next[q]
    BY <1>5 DEF ReadBytes, vars, storeVars, SentInv
  <2>2. offset[r] \in Nat /\ Length(r) \in Nat /\ ChunkSize \in Nat \ {0}
    BY <2>1, LengthBounds, PlaybackAssumption DEF SentInv
  <2>3. offset'[r] \in Nat
    BY <2>1, <2>2 DEF SentInv
  <2>4. StartChunk(offset'[r]) \in Nat
    BY <2>2, <2>3, DivBounds DEF StartChunk
  <2>5. step'[r] = "demand" => StartChunk(offset'[r]) .. next'[r] - 1 = {}
    BY <2>1, <2>4
  <2> QED BY <2>1, <2>5 DEF DemandInv, SentInv, LastChunk, Length
<1>6. ASSUME NEW r \in Readers, WriteFails(r) PROVE DemandInv'
  BY <1>6
     DEF WriteFails, DemandInv, SentInv, LastChunk, Length, vars, storeVars
<1>7. ASSUME NEW p \in Conns, OnPieceReceived(p) PROVE DemandInv'
  BY <1>1, <1>7 DEF OnPieceReceived, StoredInv, vars, storeVars
<1>8. ASSUME NEW p \in Conns,
             \/ Notify(p) \/ Bitfield(p)
             \/ \E c \in Chunk : Receive(p, c)
      PROVE  DemandInv'
  BY <1>1, <1>8, HaveGrows DEF Notify, Bitfield, Receive
<1>9. ASSUME OrderUnchanged PROVE DemandInv'
  BY <1>1, <1>9, HaveGrows
<1>10. CASE PScheduler
  BY <1>1, <1>9, <1>10, HaveGrows
     DEF PScheduler, TimeOut, Survey, Rank, Chosen, PassOver, Choose
<1>11. CASE SetCursor
  BY <1>1, <1>11, HaveGrows DEF SetCursor
<1> QED
  BY <1>2, <1>3, <1>4, <1>5, <1>6, <1>7, <1>8, <1>9, <1>10, <1>11
     DEF PNext, Handler, ReadLoop, pvars

\* However a demand meets the arrival of its chunk, what a handler waits for
\* stays urgent until it is stored.
THEOREM WaitedUrgent == PSpec => []WaitedIsUrgent
<1>1. PInit => SentInv /\ ClearingType /\ StoredInv /\ DemandInv
  BY PlaybackAssumption
     DEF PInit, Init, SentInv, SentTo, ClearingType, StoredInv, DemandInv
<1>2. DemandInv => WaitedIsUrgent
  BY DEF DemandInv, WaitedIsUrgent
<1>3. PSpec => []TypeOK
  BY ImplementsDownload, Typing, PTL
<1> QED
  BY <1>1, <1>2, <1>3, SentStep, StoredStep, DemandStep, PTL DEF PSpec

-----------------------------------------------------------------------------
(* The order in which chunks are requested. *)

\* A handler demands chunks of the file.
UrgentInv ==
  /\ urgent \subseteq Chunk /\ cursor \in Nat
  /\ \A r \in Readers : step[r] = "urgent" => next[r] \in Chunk

LEMMA LastChunkOfFile ==
  ASSUME NEW r \in Readers, SentInv, step[r] \in {"demand", "urgent", "wait"}
  PROVE  LastChunk(r) \in Chunk
<1> DEFINE b == offset[r] + Length(r) - 1
<1>a. /\ offset[r] \in Nat /\ range[r].stop \in Nat
      /\ range[r].stop <= FileSize /\ FileSize \in Nat
  BY PlaybackAssumption DEF SentInv, SentTo
<1>b. Length(r) \in Nat \ {0} /\ offset[r] + Length(r) <= range[r].stop
  BY LengthBounds
<1>1. b \in Nat /\ b <= FileSize - 1
  BY <1>a, <1>b
<1>2. /\ FileSize \in Nat \ {0} /\ ChunkSize \in Nat \ {0}
      /\ ChunkCount = (FileSize + ChunkSize - 1) \div ChunkSize
  BY PlaybackAssumption
<1> HIDE DEF b
<1>3. /\ b \div ChunkSize \in Nat
      /\ (b \div ChunkSize) * ChunkSize <= b
  BY <1>1, <1>2, DivBounds
<1> DEFINE e == FileSize + ChunkSize - 1
<1>c. e \in Nat /\ ChunkCount = e \div ChunkSize
  BY <1>2
<1> HIDE DEF e
<1>d. e <= (e \div ChunkSize) * ChunkSize + ChunkSize - 1
  BY <1>2, <1>c, DivBounds
<1>e. FileSize <= ChunkCount * ChunkSize
  BY <1>2, <1>c, <1>d, CountsAssumption DEF e
<1> DEFINE c == b \div ChunkSize
<1>4. c \in Nat /\ c * ChunkSize < ChunkCount * ChunkSize
  <2>1. b < ChunkCount * ChunkSize
    BY <1>1, <1>2, <1>e, CountsAssumption
  <2>2. c * ChunkSize \in Nat /\ ChunkCount * ChunkSize \in Nat
    BY <1>2, <1>3, CountsAssumption
  <2> QED BY <1>1, <1>3, <2>1, <2>2
<1> HIDE DEF c
<1>5. c < ChunkCount
  BY <1>2, <1>4, CountsAssumption
<1> QED BY <1>4, <1>5, CountsAssumption DEF LastChunk, EndChunk, Chunk, b, c

LEMMA CursorInFile == ASSUME NEW b \in Int PROVE CursorAt(b) \in Nat
<1>1. b \div ChunkSize \in Int
  BY PlaybackAssumption
<1> QED BY <1>1, CountsAssumption DEF CursorAt

LEMMA UrgentStep == SentInv /\ UrgentInv /\ [PNext]_pvars => UrgentInv'
<1> SUFFICES ASSUME SentInv, UrgentInv, [PNext]_pvars PROVE UrgentInv'
  OBVIOUS
<1> USE DEF orderVars, readerVars, OrderUnchanged
<1>1. ASSUME UNCHANGED <<cursor, readerVars>>, urgent' \subseteq urgent
      PROVE  UrgentInv'
  BY <1>1 DEF UrgentInv
<1>2. ASSUME NEW r \in Readers, CheckChunk(r) PROVE UrgentInv'
  <2>1. UNCHANGED <<urgent, cursor>>
    BY <1>2 DEF CheckChunk
  <2>2. \A q \in Readers \ {r} : step'[q] = step[q] /\ next'[q] = next[q]
    BY <1>2 DEF CheckChunk, SentInv
  <2>3. step'[r] = "urgent" => next'[r] = next[r] /\ ~(next[r] > LastChunk(r))
    BY <1>2 DEF CheckChunk, SentInv
  <2>4. LastChunk(r) \in Chunk /\ next[r] \in Nat
    BY <1>2, LastChunkOfFile DEF CheckChunk, SentInv
  <2>5. step'[r] = "urgent" => next'[r] \in Chunk
    BY <2>3, <2>4, CountsAssumption DEF Chunk
  <2> QED BY <2>1, <2>2, <2>5 DEF UrgentInv
<1>3. ASSUME NEW r \in Readers, Demand(r) PROVE UrgentInv'
  BY <1>3 DEF Demand, UrgentInv, SentInv
<1>4. ASSUME NEW r \in Readers, Serve(r) \/ ReadBytes(r) \/ WriteFails(r)
      PROVE  UrgentInv'
  BY <1>4 DEF Serve, ReadBytes, WriteFails, UrgentInv, SentInv
<1>5. CASE SetCursor
  <2>1. PICK b \in -1 .. FileSize + 1 : cursor' = CursorAt(b)
    BY <1>5 DEF SetCursor
  <2>2. cursor' \in Nat
    BY <2>1, CursorInFile, PlaybackAssumption
  <2> QED BY <1>5, <2>2 DEF SetCursor, UrgentInv
<1>6. ASSUME NEW p \in Conns,
             ReadLoop(p) \/ Bitfield(p) \/ \E c \in Chunk : Receive(p, c)
      PROVE  UrgentInv'
  BY <1>1, <1>6 DEF ReadLoop, Notify, OnPieceReceived, Bitfield, Receive
<1>7. CASE PScheduler \/ OrderUnchanged
  BY <1>1, <1>7 DEF PScheduler, TimeOut, Survey, Rank, Chosen, PassOver, Choose
<1> QED
  BY <1>1, <1>2, <1>3, <1>4, <1>5, <1>6, <1>7 DEF PNext, Handler, pvars

\* A candidate scores nothing if it was urgent when the tick began, and no
\* less than a hundred if not.
LEMMA ScoreTiers ==
  ASSUME NEW c \in Chunk, want.cursor \in Nat
  PROVE  /\ c \in want.urgent => ScoreOf(c) = 0
         /\ c \notin want.urgent => ScoreOf(c) \in Nat /\ ScoreOf(c) >= 100
<1>1. PeersWithChunk(c) \subseteq Ids
  BY DEF PeersWithChunk
<1>2. Cardinality(PeersWithChunk(c)) \in Nat
  BY <1>1, FS_Subset, FS_CardinalityType, PlaybackAssumption
<1>3. c \in Int /\ PlaybackWindow \in Nat
  BY PlaybackAssumption, CountsAssumption DEF Chunk
<1> QED BY <1>2, <1>3 DEF ScoreOf

\* What a tick knows of the chunks that were urgent when it began.  While it
\* assigns, each that is missing is still a candidate, has no peer, is in a
\* batch or was passed.
OrderInv ==
  /\ want.urgent \subseteq Chunk /\ want.cursor \in Nat
  /\ at = "rank" => want.urgent \subseteq todo \cup have
  /\ at = "assign" =>
       /\ \A c \in todo : score[c] \in Nat /\ (score[c] = 0 <=> c \in want.urgent)
       /\ \A d \in want.urgent \ (have \cup passed) :
            d \in todo \/ offer[d] = {} \/ \E i \in Ids : d \in batch[i]

LEMMA OrderStep ==
  TypeOK /\ UrgentInv /\ OrderInv /\ [PNext]_pvars => OrderInv'
<1> SUFFICES ASSUME TypeOK, UrgentInv, OrderInv, [PNext]_pvars PROVE OrderInv'
  OBVIOUS
<1> USE DEF orderVars, readerVars, storeVars, peerVars, monitorVars, tickVars,
            OrderUnchanged
<1>0. have \subseteq have'
  BY HaveGrows
<1>1. ASSUME UNCHANGED <<tickVars, want, score, passed>> PROVE OrderInv'
  BY <1>0, <1>1 DEF OrderInv
<1>2. ASSUME UNCHANGED want, at' \notin {"rank", "assign"} PROVE OrderInv'
  BY <1>2 DEF OrderInv
<1>3. CASE Survey
  <2>1. /\ want' \in {NoWant, [urgent |-> urgent, cursor |-> cursor]}
        /\ todo' = Chunk \ have /\ at' \in {"wait", "rank"}
    BY <1>3 DEF Survey, MissingChunks
  <2>2. want'.urgent \subseteq Chunk /\ want'.cursor \in Nat
    BY <2>1 DEF UrgentInv, NoWant
  <2> QED BY <1>0, <2>1, <2>2 DEF OrderInv
<1>4. CASE Rank
  <2>1. /\ at = "rank"
        /\ todo' = {c \in todo \ snap : PeersWithChunk(c) # {}}
        /\ offer' = [c \in Chunk |-> IF c \in todo' THEN PeersWithChunk(c) ELSE {}]
        /\ at' \in {"wait", "assign"}
        /\ score' = [c \in Chunk |-> IF c \in todo' THEN ScoreOf(c) ELSE 0]
        /\ at' = "assign" => want' = want /\ passed' = snap
        /\ want' \in {want, NoWant}
        /\ UNCHANGED have
    BY <1>4 DEF Rank, PrioritizeChunks
  <2>2. want'.urgent \subseteq Chunk /\ want'.cursor \in Nat
    BY <2>1 DEF OrderInv, NoWant
  <2>3. ASSUME at' = "assign", NEW c \in todo'
        PROVE  score'[c] \in Nat /\ (score'[c] = 0 <=> c \in want'.urgent)
    <3>1. c \in Chunk /\ score'[c] = ScoreOf(c)
      BY <2>1, <2>3 DEF TypeOK
    <3>2. want.cursor \in Nat
      BY DEF OrderInv
    <3> QED BY <2>1, <2>3, <3>1, <3>2, ScoreTiers
  <2>4. ASSUME at' = "assign", NEW d \in want'.urgent \ (have' \cup passed')
        PROVE  d \in todo' \/ offer'[d] = {}
    <3>1. d \in Chunk /\ d \in todo \ snap
      BY <2>1, <2>4 DEF OrderInv
    <3> QED BY <2>1, <3>1
  <2> QED BY <2>1, <2>2, <2>3, <2>4 DEF OrderInv
<1>5. ASSUME NEW c \in Chunk, NEW i \in Ids, Choose(c, i) PROVE OrderInv'
  <2>1. /\ at = "assign" /\ todo' = todo \ {c}
        /\ batch' = [batch EXCEPT ![i] = @ \cup {c}]
        /\ UNCHANGED <<have, at, offer, want, score, passed>>
    BY <1>5 DEF Choose, Assign
  <2>2. c \in batch'[i] /\ \A j \in Ids : batch[j] \subseteq batch'[j]
    BY <2>1 DEF TypeOK
  <2> QED BY <2>1, <2>2 DEF OrderInv
<1>6. ASSUME NEW c \in Chunk, PassOver(c) PROVE OrderInv'
  BY <1>6 DEF PassOver, Skip, OrderInv
<1>7. CASE Chosen
  BY <1>7 DEF Chosen, AssignDone, OrderInv, NoWant
<1>8. ASSUME Tick \/ Look \/ TickDone \/ \E i \in Ids : Lookup(i), OrderUnchanged
      PROVE  OrderInv'
  BY <1>2, <1>8 DEF Tick, Look, TickDone, Lookup
<1>9. ASSUME NEW p \in Conns, NEW S,
             (Request(p, S) /\ OrderUnchanged) \/ TimeOut(p, S)
      PROVE  OrderInv'
  BY <1>2, <1>9 DEF Request, TimeOut, Expire
<1>10. CASE PScheduler
  BY <1>3, <1>4, <1>5, <1>6, <1>7, <1>8, <1>9, <1>10 DEF PScheduler
<1>11. ASSUME NEW p \in Conns,
              \/ (Establish(p) \/ Close(p) \/ Monitor(p)) /\ OrderUnchanged
              \/ Bitfield(p) \/ ReadLoop(p)
              \/ \E c \in Chunk : Receive(p, c)
       PROVE  OrderInv'
  BY <1>1, <1>11
     DEF Establish, ConnectToHost, Connect, AddPeer, Close, Monitor, Forget,
         DropTracker, Collect, ReleaseLost, Bitfield, RecvBitfield, ReadLoop,
         StorePiece, StoreFails, UpdateTracker, Notify, NotifyScheduler,
         OnPieceReceived, Receive, RecvPiece, vars
<1>12. CASE SetCursor \/ (ConnectFails /\ OrderUnchanged) \/ UNCHANGED pvars
  BY <1>1, <1>12 DEF SetCursor, ConnectFails, vars, pvars
<1>13. ASSUME NEW r \in Readers, Serve(r) \/ Handler(r) PROVE OrderInv'
  BY <1>1, <1>13
     DEF Serve, Handler, CheckChunk, Demand, ReadBytes, WriteFails, vars
<1> QED BY <1>10, <1>11, <1>12, <1>13 DEF PNext

\* Only Choose puts chunks in flight.
LEMMA OnlyChosenInFlight ==
  ASSUME [PNext]_pvars, NEW c \in inFlight' \ inFlight
  PROVE  \E i \in Ids : c \in Chunk /\ Choose(c, i)
<1> USE DEF storeVars, peerVars, monitorVars, tickVars
<1>1. CASE PScheduler
  <2>1. ASSUME NEW d \in Chunk, NEW i \in Ids, Choose(d, i)
        PROVE  c = d
    BY <2>1 DEF Choose, Assign
  <2> QED
    BY <1>1, <2>1
       DEF PScheduler, TimeOut, Expire, Survey, MissingChunks, Rank,
           PrioritizeChunks, Chosen, AssignDone, PassOver, Skip, Tick, Look,
           TickDone, Lookup, Request
<1>2. CASE ~PScheduler
  BY <1>2
     DEF PNext, SetCursor, ConnectFails, Establish, ConnectToHost, Connect,
         AddPeer, Close, Monitor, Forget, DropTracker, Collect, ReleaseLost,
         Bitfield, RecvBitfield, ReadLoop, StorePiece, StoreFails,
         UpdateTracker, Notify, NotifyScheduler, OnPieceReceived, Receive,
         RecvPiece, Serve, Handler, CheckChunk, Demand, ReadBytes, WriteFails,
         vars, pvars
<1> QED BY <1>1, <1>2

\* What the player waits for is requested before anything else, whatever is
\* demanded, received, timed out or lost while the tick goes through it.
THEOREM DemandedFirst == PSpec => PlayerFirst
<1>1. PInit => SentInv /\ UrgentInv /\ OrderInv
  BY PlaybackAssumption
     DEF PInit, Init, SentInv, SentTo, UrgentInv, OrderInv, NoWant
<1>2. ASSUME TypeOK, OrderInv, [PNext]_pvars, NEW c \in inFlight' \ inFlight
      PROVE  \/ c \in want.urgent
             \/ \A d \in want.urgent \ (have \cup passed) :
                  Selectable(d) = {} \/ \E i \in Ids : d \in batch[i]
  <2>1. PICK i \in Ids : c \in Chunk /\ Choose(c, i)
    BY <1>2, OnlyChosenInFlight
  <2>2. at = "assign" /\ c \in todo /\ \A d \in todo : score[c] <= score[d]
    BY <2>1 DEF Choose, Assign, First
  <2> SUFFICES ASSUME c \notin want.urgent,
                      NEW d \in want.urgent \ (have \cup passed)
               PROVE  Selectable(d) = {} \/ \E j \in Ids : d \in batch[j]
    OBVIOUS
  <2>3. d \notin todo
    <3>1. score[c] \in Nat /\ score[c] # 0
      BY <1>2, <2>2 DEF OrderInv
    <3>2. d \in todo => score[d] = 0 /\ score[c] <= score[d]
      BY <1>2, <2>2 DEF OrderInv
    <3> QED BY <3>1, <3>2
  <2>4. offer[d] = {} \/ \E j \in Ids : d \in batch[j]
    BY <1>2, <2>2, <2>3 DEF OrderInv
  <2> QED BY <2>4 DEF Selectable
<1>3. TypeOK /\ OrderInv /\ [PNext]_pvars
        => [\A c \in inFlight' \ inFlight :
              \/ c \in want.urgent
              \/ \A d \in want.urgent \ (have \cup passed) :
                   Selectable(d) = {} \/ \E i \in Ids : d \in batch[i]]_pvars
  BY <1>2
<1>4. PSpec => []TypeOK
  BY ImplementsDownload, Typing, PTL
<1> QED
  BY <1>1, <1>3, <1>4, SentStep, UrgentStep, OrderStep, PTL
     DEF PSpec, PlayerFirst
=============================================================================
