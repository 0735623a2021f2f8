-------------------------- MODULE ChunkStoreProofs --------------------------
(***************************************************************************)
(* The properties of ChunkStore for any number of chunks, writers and      *)
(* readers.                                                                *)
(***************************************************************************)
EXTENDS ChunkStore, FiniteSetTheorems, TLAPS

\* Every variable keeps its type, whatever index and data WriteChunk is given.
THEOREM Typing == Safe => []TypeOK
<1>1. Init => TypeOK
  BY ChunkCountAssumption
     DEF Init, NewHostStore, NewPeerStore, TypeOK, Chunk, Data
<1>2. TypeOK /\ [Next]_vars => TypeOK'
  <2> SUFFICES ASSUME TypeOK, [Next]_vars PROVE TypeOK'
    OBVIOUS
  <2> USE DEF TypeOK, storeVars, waitVars, writerVars, readerVars
  <2>1. ASSUME NEW w \in Writers, NEW i \in 0 .. ChunkCount, NEW d \in Data,
               BeginWrite(w, i, d)
        PROVE  TypeOK'
    BY <2>1 DEF BeginWrite, Accepts
  <2>2. ASSUME NEW w \in Writers, FileWrite(w) PROVE TypeOK'
    BY <2>2 DEF FileWrite
  <2>3. ASSUME NEW w \in Writers, FileWriteFails(w) PROVE TypeOK'
    BY <2>3 DEF FileWriteFails
  <2>4. ASSUME NEW w \in Writers, Commit(w) PROVE TypeOK'
    BY <2>4 DEF Commit
  <2>5. ASSUME NEW w \in Writers, Signal(w) PROVE TypeOK'
    BY <2>5 DEF Signal
  <2>6. ASSUME NEW r \in Readers, NEW first \in Chunk, NEW last \in Chunk,
               BeginRead(r, first, last)
        PROVE  TypeOK'
    BY <2>6 DEF BeginRead
  <2>7. ASSUME NEW r \in Readers, NEW i \in Chunk, BeginUpload(r, i)
        PROVE  TypeOK'
    BY <2>7 DEF BeginUpload
  <2>8. ASSUME NEW r \in Readers, Advance(r)
        PROVE  /\ rpc' \in [Readers -> {"idle", "check", "lock", "recheck",
                                        "register", "blocked", "read"}]
               /\ rchunk' \in [Readers -> Chunk]
    <3>1. rchunk[r] < rlast[r] => rchunk[r] + 1 \in Chunk
      BY ChunkCountAssumption DEF Chunk
    <3> QED BY <2>8, <3>1 DEF Advance
  <2>9. ASSUME NEW r \in Readers, Check(r) PROVE TypeOK'
    BY <2>8, <2>9 DEF Check
  <2>10. ASSUME NEW r \in Readers, LockWait(r) PROVE TypeOK'
    BY <2>10 DEF LockWait
  <2>11. ASSUME NEW r \in Readers, Recheck(r) PROVE TypeOK'
    BY <2>8, <2>11 DEF Recheck
  <2>12. ASSUME NEW r \in Readers, Register(r) PROVE TypeOK'
    BY <2>12 DEF Register
  <2>13. ASSUME NEW r \in Readers, Wake(r) PROVE TypeOK'
    BY <2>8, <2>13 DEF Wake
  <2>14. ASSUME NEW r \in Readers, FinishRead(r) PROVE TypeOK'
    BY <2>14 DEF FinishRead
  <2>15. CASE UNCHANGED vars
    BY <2>15 DEF vars
  <2> QED
    BY <2>1, <2>2, <2>3, <2>4, <2>5, <2>6, <2>7, <2>9, <2>10, <2>11, <2>12,
       <2>13, <2>14, <2>15 DEF Next, WriteChunk, ReadStep
<1> QED BY <1>1, <1>2, PTL DEF Safe

-----------------------------------------------------------------------------
(* The inductive invariant behind the safety properties. *)

\* Only verified data is on its way to the file, and what a writer has
\* written or marked stays so.
WritersInv ==
  /\ BitMeansVerified
  /\ \A w \in Writers :
       /\ wpc[w] # "idle" => wdata[w] = "genuine"
       /\ wpc[w] = "commit" => wchunk[w] \in good
       /\ wpc[w] = "signal" => wchunk[w] \in bitfield

\* A reader has found all the chunks before its current one.
RangeInv ==
  \A r \in Readers :
    /\ rpc[r] # "idle" => rfirst[r] <= rchunk[r] /\ rchunk[r] <= rlast[r]
    /\ rpc[r] \notin {"idle", "read"} => rfirst[r] .. rchunk[r] - 1 \subseteq bitfield
    /\ rpc[r] = "read" => rfirst[r] .. rlast[r] \subseteq bitfield

\* The owner of waitMu is the one reader between its locking and unlocking.
LockInv ==
  \A r \in Readers : waitMu = r <=> rpc[r] \in {"recheck", "register"}

\* Some writer will wake the waiters of chunk i.
Waking(i) == \E w \in Writers : wpc[w] = "signal" /\ wchunk[w] = i

\* A reader about to register, or registered, on a chunk that has arrived will
\* be woken; one that is not registered any more may go on.
WaitersInv ==
  /\ \A i \in Chunk : \A r \in waiters[i] : rpc[r] = "blocked" /\ rchunk[r] = i
  /\ \A r \in Readers :
       /\ rpc[r] = "register" /\ rchunk[r] \in bitfield => Waking(rchunk[r])
       /\ rpc[r] = "blocked" =>
            IF r \in waiters[rchunk[r]]
            THEN rchunk[r] \in bitfield => Waking(rchunk[r])
            ELSE rchunk[r] \in bitfield

IInv == WritersInv /\ RangeInv /\ LockInv /\ WaitersInv

LEMMA InitIInv == Init => IInv
  BY ThreadsAssumption
     DEF Init, NewHostStore, NewPeerStore, IInv, WritersInv, RangeInv, LockInv,
         WaitersInv, BitMeansVerified

\* Only verified data reaches the file.
LEMMA WritersStep == TypeOK /\ WritersInv /\ [Next]_vars => WritersInv'
<1> SUFFICES ASSUME TypeOK, WritersInv, [Next]_vars PROVE WritersInv'
  OBVIOUS
<1> USE DEF TypeOK, WritersInv, BitMeansVerified, storeVars, waitVars,
            writerVars, readerVars
<1>1. ASSUME NEW w \in Writers, NEW i \in 0 .. ChunkCount, NEW d \in Data,
             BeginWrite(w, i, d)
      PROVE  WritersInv'
  BY <1>1 DEF BeginWrite, Accepts
<1>2. ASSUME NEW w \in Writers, FileWrite(w) PROVE WritersInv'
  BY <1>2 DEF FileWrite
<1>3. ASSUME NEW w \in Writers, FileWriteFails(w) PROVE WritersInv'
  BY <1>3 DEF FileWriteFails
<1>4. ASSUME NEW w \in Writers, Commit(w) PROVE WritersInv'
  BY <1>4 DEF Commit
<1>5. ASSUME NEW w \in Writers, Signal(w) PROVE WritersInv'
  BY <1>5 DEF Signal
<1>6. ASSUME UNCHANGED <<storeVars, writerVars>> PROVE WritersInv'
  BY <1>6
<1> QED
  BY <1>1, <1>2, <1>3, <1>4, <1>5, <1>6
     DEF Next, WriteChunk, ReadStep, BeginRead, BeginUpload, Check, LockWait,
         Recheck, Register, Wake, FinishRead, vars

\* What a writer's step leaves to the readers.
LEMMA WriteStep ==
  ASSUME TypeOK, NEW w \in Writers, WriteChunk(w)
  PROVE  bitfield \subseteq bitfield' /\ UNCHANGED readerVars
BY DEF WriteChunk, BeginWrite, FileWrite, FileWriteFails, Commit, Signal,
       storeVars, waitVars, writerVars

\* Moving on from a chunk that is there keeps RangeInv.
LEMMA AdvanceRange ==
  ASSUME TypeOK, RangeInv, NEW r \in Readers, Advance(r),
         rpc[r] \notin {"idle", "read"}, rchunk[r] \in bitfield,
         UNCHANGED <<bitfield, rfirst, rlast>>
  PROVE  RangeInv'
<1> USE DEF TypeOK, RangeInv, Chunk
<1>1. rfirst[r] .. rchunk[r] \subseteq bitfield
  BY ChunkCountAssumption
<1>2. CASE rchunk[r] < rlast[r]
  BY <1>1, <1>2, ChunkCountAssumption DEF Advance
<1>3. CASE ~(rchunk[r] < rlast[r])
  BY <1>1, <1>3, ChunkCountAssumption DEF Advance
<1> QED BY <1>2, <1>3

\* The wait loop of ReadBytes skips no chunk.
LEMMA RangeStep ==
  TypeOK /\ RangeInv /\ WaitersInv /\ [Next]_vars => RangeInv'
<1> SUFFICES ASSUME TypeOK, RangeInv, WaitersInv, [Next]_vars PROVE RangeInv'
  OBVIOUS
<1> USE DEF TypeOK, RangeInv, storeVars, waitVars, writerVars, readerVars
<1>1. ASSUME NEW w \in Writers, WriteChunk(w) PROVE RangeInv'
  BY <1>1, WriteStep
<1>2. ASSUME NEW r \in Readers, NEW first \in Chunk, NEW last \in Chunk,
             BeginRead(r, first, last)
      PROVE  RangeInv'
  <2>1. first .. first - 1 = {}
    BY ChunkCountAssumption DEF Chunk
  <2> QED BY <1>2, <2>1, ChunkCountAssumption DEF BeginRead, Chunk
<1>3. ASSUME NEW r \in Readers, NEW i \in Chunk, BeginUpload(r, i)
      PROVE  RangeInv'
  <2>1. i .. i = {i} /\ i <= i
    BY ChunkCountAssumption DEF Chunk
  <2> QED BY <1>3, <2>1 DEF BeginUpload
<1>4. ASSUME NEW r \in Readers, Check(r) PROVE RangeInv'
  <2>1. CASE rchunk[r] \in bitfield
    BY <1>4, <2>1, AdvanceRange DEF Check
  <2>2. CASE rchunk[r] \notin bitfield
    BY <1>4, <2>2 DEF Check
  <2> QED BY <2>1, <2>2
<1>5. ASSUME NEW r \in Readers, LockWait(r) PROVE RangeInv'
  BY <1>5 DEF LockWait
<1>6. ASSUME NEW r \in Readers, Recheck(r) PROVE RangeInv'
  <2>1. CASE rchunk[r] \in bitfield
    BY <1>6, <2>1, AdvanceRange DEF Recheck
  <2>2. CASE rchunk[r] \notin bitfield
    BY <1>6, <2>2 DEF Recheck
  <2> QED BY <2>1, <2>2
<1>7. ASSUME NEW r \in Readers, Register(r) PROVE RangeInv'
  BY <1>7 DEF Register
<1>8. ASSUME NEW r \in Readers, Wake(r) PROVE RangeInv'
  <2>1. rchunk[r] \in bitfield
    BY <1>8 DEF Wake, WaitersInv
  <2> QED BY <1>8, <2>1, AdvanceRange DEF Wake
<1>9. ASSUME NEW r \in Readers, FinishRead(r) PROVE RangeInv'
  BY <1>9 DEF FinishRead
<1>10. CASE UNCHANGED vars
  BY <1>10 DEF vars
<1> QED
  BY <1>1, <1>2, <1>3, <1>4, <1>5, <1>6, <1>7, <1>8, <1>9, <1>10
     DEF Next, ReadStep

\* waitMu has one owner at a time, and each owner gives it back.
LEMMA LockStep == TypeOK /\ LockInv /\ [Next]_vars => LockInv'
<1> SUFFICES ASSUME TypeOK, LockInv, [Next]_vars PROVE LockInv'
  OBVIOUS
<1> USE ThreadsAssumption
    DEF TypeOK, LockInv, storeVars, waitVars, writerVars, readerVars
<1>1. ASSUME NEW w \in Writers, WriteChunk(w) PROVE LockInv'
  BY <1>1 DEF WriteChunk, BeginWrite, FileWrite, FileWriteFails, Commit, Signal
<1>2. ASSUME NEW r \in Readers, NEW first \in Chunk, NEW last \in Chunk,
             BeginRead(r, first, last)
      PROVE  LockInv'
  BY <1>2 DEF BeginRead
<1>3. ASSUME NEW r \in Readers, NEW i \in Chunk, BeginUpload(r, i)
      PROVE  LockInv'
  BY <1>3 DEF BeginUpload
<1>4. ASSUME NEW r \in Readers, Check(r) PROVE LockInv'
  BY <1>4 DEF Check, Advance
<1>5. ASSUME NEW r \in Readers, LockWait(r) PROVE LockInv'
  BY <1>5 DEF LockWait
<1>6. ASSUME NEW r \in Readers, Recheck(r) PROVE LockInv'
  BY <1>6 DEF Recheck, Advance
<1>7. ASSUME NEW r \in Readers, Register(r) PROVE LockInv'
  BY <1>7 DEF Register
<1>8. ASSUME NEW r \in Readers, Wake(r) PROVE LockInv'
  BY <1>8 DEF Wake, Advance
<1>9. ASSUME NEW r \in Readers, FinishRead(r) PROVE LockInv'
  BY <1>9 DEF FinishRead
<1>10. CASE UNCHANGED vars
  BY <1>10 DEF vars
<1> QED
  BY <1>1, <1>2, <1>3, <1>4, <1>5, <1>6, <1>7, <1>8, <1>9, <1>10
     DEF Next, ReadStep

\* A reader that starts or moves on is in nobody's wait set.
LEMMA ReaderMoves ==
  ASSUME TypeOK, WaitersInv, NEW r \in Readers,
         rpc[r] # "blocked" \/ r \notin waiters[rchunk[r]],
         \E x \in {"idle", "check", "lock", "recheck", "read"} :
           rpc' = [rpc EXCEPT ![r] = x],
         \/ rchunk' = rchunk
         \/ \E i \in Chunk : rchunk' = [rchunk EXCEPT ![r] = i],
         UNCHANGED <<bitfield, waiters, wpc, wchunk>>
  PROVE  WaitersInv'
<1> USE DEF TypeOK
<1>1. \A i \in Chunk : r \notin waiters[i]
  BY DEF WaitersInv
<1>2. /\ rpc'[r] \notin {"blocked", "register"}
      /\ \A q \in Readers \ {r} : rpc'[q] = rpc[q] /\ rchunk'[q] = rchunk[q]
  OBVIOUS
<1>3. \A i : Waking(i) => Waking(i)'
  BY DEF Waking
<1> QED BY <1>1, <1>2, <1>3 DEF WaitersInv

\* Advance is such a move.
LEMMA AdvanceMoves ==
  ASSUME TypeOK, NEW r \in Readers, Advance(r)
  PROVE  /\ \E x \in {"idle", "check", "lock", "recheck", "read"} :
              rpc' = [rpc EXCEPT ![r] = x]
         /\ \/ rchunk' = rchunk
            \/ \E i \in Chunk : rchunk' = [rchunk EXCEPT ![r] = i]
<1>1. rchunk[r] < rlast[r] => rchunk[r] + 1 \in Chunk
  BY ChunkCountAssumption DEF TypeOK, Chunk
<1> QED BY <1>1 DEF Advance, TypeOK

\* No reader is left to sleep: whoever is registered on a chunk that has
\* arrived will be woken.  It rests on the second check under waitMu.
LEMMA WaitersStep ==
  TypeOK /\ WritersInv /\ LockInv /\ WaitersInv /\ [Next]_vars => WaitersInv'
<1> SUFFICES ASSUME TypeOK, WritersInv, LockInv, WaitersInv, [Next]_vars
             PROVE  WaitersInv'
  OBVIOUS
<1> USE DEF TypeOK, storeVars, waitVars, writerVars, readerVars
<1>1. ASSUME NEW w \in Writers, NEW i \in 0 .. ChunkCount, NEW d \in Data,
             BeginWrite(w, i, d)
      PROVE  WaitersInv'
  <2>1. \A c \in Chunk : Waking(c) => Waking(c)'
    BY <1>1 DEF BeginWrite, Accepts, Waking
  <2> QED BY <1>1, <2>1 DEF BeginWrite, WaitersInv
<1>2. ASSUME NEW w \in Writers, FileWrite(w) \/ FileWriteFails(w)
      PROVE  WaitersInv'
  <2>1. \A c \in Chunk : Waking(c) => Waking(c)'
    BY <1>2 DEF FileWrite, FileWriteFails, Waking
  <2> QED BY <1>2, <2>1 DEF FileWrite, FileWriteFails, WaitersInv
<1>3. ASSUME NEW w \in Writers, Commit(w) PROVE WaitersInv'
  <2>1. /\ \A c \in Chunk : Waking(c) => Waking(c)'
        /\ Waking(wchunk[w])'
    BY <1>3 DEF Commit, Waking
  <2> QED BY <1>3, <2>1 DEF Commit, WaitersInv
<1>4. ASSUME NEW w \in Writers, Signal(w) PROVE WaitersInv'
  <2>1. \A c \in Chunk : c # wchunk[w] /\ Waking(c) => Waking(c)'
    BY <1>4 DEF Signal, Waking
  <2>2. wchunk[w] \in bitfield
    BY <1>4 DEF Signal, WritersInv
  <2>3. \A r \in Readers : rpc[r] # "register"
    BY <1>4, ThreadsAssumption DEF Signal, LockInv
  <2> QED BY <1>4, <2>1, <2>2, <2>3 DEF Signal, WaitersInv
<1>5. ASSUME NEW r \in Readers, NEW first \in Chunk, NEW last \in Chunk,
             BeginRead(r, first, last)
      PROVE  WaitersInv'
  BY <1>5, ReaderMoves DEF BeginRead
<1>6. ASSUME NEW r \in Readers, NEW i \in Chunk, BeginUpload(r, i)
      PROVE  WaitersInv'
  BY <1>6, ReaderMoves DEF BeginUpload
<1>7. ASSUME NEW r \in Readers, Check(r) PROVE WaitersInv'
  BY <1>7, ReaderMoves, AdvanceMoves DEF Check
<1>8. ASSUME NEW r \in Readers, LockWait(r) PROVE WaitersInv'
  BY <1>8, ReaderMoves DEF LockWait
<1>9. ASSUME NEW r \in Readers, Recheck(r) PROVE WaitersInv'
  <2>1. CASE rchunk[r] \in bitfield
    BY <1>9, <2>1, ReaderMoves, AdvanceMoves DEF Recheck
  <2>2. CASE rchunk[r] \notin bitfield
    BY <1>9, <2>2 DEF Recheck, WaitersInv, Waking
  <2> QED BY <2>1, <2>2
<1>10. ASSUME NEW r \in Readers, Register(r) PROVE WaitersInv'
  <2>1. \A c \in Chunk : Waking(c) => Waking(c)'
    BY <1>10 DEF Register, Waking
  <2> QED BY <1>10, <2>1 DEF Register, WaitersInv
<1>11. ASSUME NEW r \in Readers, Wake(r) PROVE WaitersInv'
  BY <1>11, ReaderMoves, AdvanceMoves DEF Wake
<1>12. ASSUME NEW r \in Readers, FinishRead(r) PROVE WaitersInv'
  BY <1>12, ReaderMoves DEF FinishRead
<1>13. CASE UNCHANGED vars
  BY <1>13 DEF vars, WaitersInv, Waking
<1> QED
  BY <1>1, <1>2, <1>3, <1>4, <1>5, <1>6, <1>7, <1>8, <1>9, <1>10, <1>11,
     <1>12, <1>13 DEF Next, WriteChunk, ReadStep

LEMMA Invariance == Safe => []IInv
<1>1. TypeOK /\ IInv /\ [Next]_vars => IInv'
  BY WritersStep, RangeStep, LockStep, WaitersStep DEF IInv
<1> QED BY InitIInv, Typing, <1>1, PTL DEF Safe

-----------------------------------------------------------------------------
\* A chunk marked available has the manifest's bytes in the file.
THEOREM Verified == Safe => []BitMeansVerified
<1>1. IInv => BitMeansVerified
  BY DEF IInv, WritersInv
<1> QED BY Invariance, <1>1, PTL

\* ReadBytes and ReadChunk read only verified chunks from the file.
THEOREM ReadsVerified == Safe => []ReaderSeesVerified
<1>1. IInv => ReaderSeesVerified
  BY DEF IInv, WritersInv, RangeInv, BitMeansVerified, ReaderSeesVerified
<1> QED BY Invariance, <1>1, PTL

\* No reader sleeps on a chunk that has arrived with nobody left to wake it.
THEOREM WakeupsKept == Safe => []NoLostWakeup
<1>1. TypeOK /\ IInv => NoLostWakeup
  BY DEF IInv, WaitersInv, Waking, NoLostWakeup, TypeOK
<1> QED BY Invariance, Typing, <1>1, PTL

-----------------------------------------------------------------------------
(* Implementation of BlockingStore, safety part. *)

want == [r \in Readers |-> IF rpc[r] = "idle" THEN {} ELSE rfirst[r] .. rlast[r]]

\* A step that leaves the bits, the ranges and who is idle as they are is a
\* stuttering step of the abstract store.
LEMMA Stutters ==
  ASSUME UNCHANGED <<bitfield, rfirst, rlast>>,
         \A r \in Readers : rpc'[r] = "idle" <=> rpc[r] = "idle"
  PROVE  UNCHANGED <<bitfield, want>>
BY DEF want

\* Every step of the store, with its locks and channels, is a step of the
\* abstract store or changes nothing there.
THEOREM ImplementsSafety == Safe => Blocking!Safe
<1>1. Init => Blocking!Init
  BY DEF Init, NewHostStore, NewPeerStore, Blocking!Init
<1>2. TypeOK /\ IInv /\ [Next]_vars => [Blocking!Next]_(Blocking!vars)
  <2> SUFFICES ASSUME TypeOK, IInv, [Next]_vars
               PROVE  Blocking!Next \/ UNCHANGED <<bitfield, want>>
    BY DEF Blocking!vars, want
  <2> USE DEF TypeOK, storeVars, waitVars, writerVars, readerVars
  <2>1. ASSUME NEW w \in Writers, Commit(w)
        PROVE  Blocking!Next \/ UNCHANGED <<bitfield, want>>
    <3>1. UNCHANGED want
      BY <2>1 DEF Commit, want
    <3>2. CASE wchunk[w] \in bitfield
      BY <2>1, <3>1, <3>2 DEF Commit
    <3>3. CASE wchunk[w] \notin bitfield
      <4>1. Blocking!Put(wchunk[w])
        BY <2>1, <3>1, <3>3 DEF Commit, Blocking!Put, want
      <4> QED BY <4>1 DEF Blocking!Next
    <3> QED BY <3>2, <3>3
  <2>2. ASSUME NEW w \in Writers, WriteChunk(w), ~Commit(w)
        PROVE  UNCHANGED <<bitfield, want>>
    BY <2>2, Stutters
       DEF WriteChunk, BeginWrite, FileWrite, FileWriteFails, Signal
  <2>3. ASSUME NEW r \in Readers, NEW S \in SUBSET Chunk, S # {},
               rpc[r] = "idle", UNCHANGED bitfield,
               want' = [want EXCEPT ![r] = S]
        PROVE  Blocking!Next
    <3>1. Blocking!Ask(r, S)
      BY <2>3 DEF Blocking!Ask, want
    <3> QED BY <3>1 DEF Blocking!Next
  <2>4. ASSUME NEW r \in Readers, NEW first \in Chunk, NEW last \in Chunk,
               BeginRead(r, first, last)
        PROVE  Blocking!Next
    <3>1. first .. last \in SUBSET Chunk /\ first .. last # {}
      <4>1. first <= last
        BY <2>4 DEF BeginRead
      <4>2. first \in first .. last /\ first .. last \subseteq Chunk
        BY <4>1, ChunkCountAssumption DEF Chunk
      <4> QED BY <4>2
    <3>2. want' = [want EXCEPT ![r] = first .. last]
      BY <2>4 DEF BeginRead, want
    <3> QED BY <2>3, <2>4, <3>1, <3>2 DEF BeginRead
  <2>5. ASSUME NEW r \in Readers, NEW i \in Chunk, BeginUpload(r, i)
        PROVE  Blocking!Next
    <3>1. i .. i \in SUBSET Chunk /\ i .. i # {}
      BY ChunkCountAssumption DEF Chunk
    <3>2. want' = [want EXCEPT ![r] = i .. i]
      BY <2>5 DEF BeginUpload, want
    <3> QED BY <2>3, <2>5, <3>1, <3>2 DEF BeginUpload
  <2>6. ASSUME NEW r \in Readers,
               Check(r) \/ LockWait(r) \/ Recheck(r) \/ Register(r) \/ Wake(r)
        PROVE  UNCHANGED <<bitfield, want>>
    BY <2>6, Stutters
       DEF Check, LockWait, Recheck, Register, Wake, Advance
  <2>7. ASSUME NEW r \in Readers, FinishRead(r)
        PROVE  Blocking!Next
    <3>1. want' = [want EXCEPT ![r] = {}]
      BY <2>7 DEF FinishRead, want
    <3>2. want[r] # {} /\ want[r] \subseteq bitfield
      <4>1. rfirst[r] <= rlast[r] /\ rfirst[r] .. rlast[r] \subseteq bitfield
        <5>1. rpc[r] = "read"
          BY <2>7 DEF FinishRead
        <5>2. /\ rfirst[r] <= rchunk[r] /\ rchunk[r] <= rlast[r]
              /\ rfirst[r] .. rlast[r] \subseteq bitfield
          BY <5>1 DEF IInv, RangeInv
        <5>3. rfirst[r] \in Int /\ rchunk[r] \in Int /\ rlast[r] \in Int
          BY ChunkCountAssumption DEF Chunk
        <5> QED BY <5>2, <5>3
      <4>2. want[r] = rfirst[r] .. rlast[r]
        BY <2>7 DEF FinishRead, want
      <4>3. rfirst[r] \in rfirst[r] .. rlast[r]
        BY <4>1, ChunkCountAssumption DEF Chunk
      <4> QED BY <4>1, <4>2, <4>3
    <3>3. Blocking!Serve(r)
      BY <2>7, <3>1, <3>2 DEF FinishRead, Blocking!Serve, want
    <3> QED BY <3>3 DEF Blocking!Next
  <2>8. CASE UNCHANGED vars
    BY <2>8 DEF vars, want
  <2> QED
    BY <2>1, <2>2, <2>4, <2>5, <2>6, <2>7, <2>8 DEF Next, ReadStep
<1> QED BY <1>1, <1>2, Typing, Invariance, PTL DEF Safe, Blocking!Safe

-----------------------------------------------------------------------------
(* The count, with one writer. *)

\* With at most one thread inside WriteChunk, as with a single connection,
\* count is exactly the number of chunks we have.  (Two threads may both find
\* the same chunk missing and count it twice.)
THEOREM SingleWriterCount ==
  ASSUME \A v, w \in Writers : v = w
  PROVE  Safe => []ExactCount
<1> DEFINE CInv == /\ IsFiniteSet(bitfield)
                   /\ ExactCount
                   /\ \A w \in Writers : wpc[w] \in {"file", "commit"}
                                           => wchunk[w] \notin bitfield
<1>1. Init => CInv
  <2>1. IsFiniteSet(Chunk) /\ Cardinality(Chunk) = ChunkCount
    BY FS_Interval, ChunkCountAssumption DEF Chunk
  <2> QED
    BY <2>1, FS_EmptySet DEF Init, NewHostStore, NewPeerStore, ExactCount
<1>2. TypeOK /\ CInv /\ [Next]_vars => CInv'
  <2> SUFFICES ASSUME TypeOK, CInv, [Next]_vars PROVE CInv'
    OBVIOUS
  <2> USE DEF TypeOK, ExactCount, storeVars, waitVars, writerVars, readerVars
  <2>1. ASSUME NEW w \in Writers, NEW i \in 0 .. ChunkCount, NEW d \in Data,
               BeginWrite(w, i, d)
        PROVE  CInv'
    BY <2>1 DEF BeginWrite, Accepts
  <2>2. ASSUME NEW w \in Writers, FileWrite(w) PROVE CInv'
    BY <2>2 DEF FileWrite
  <2>3. ASSUME NEW w \in Writers, FileWriteFails(w) PROVE CInv'
    BY <2>3 DEF FileWriteFails
  <2>4. ASSUME NEW w \in Writers, Commit(w) PROVE CInv'
    <3>1. /\ IsFiniteSet(bitfield')
          /\ Cardinality(bitfield') = Cardinality(bitfield) + 1
      BY <2>4, FS_AddElement DEF Commit
    <3> QED BY <2>4, <3>1 DEF Commit
  <2>5. ASSUME NEW w \in Writers, Signal(w) PROVE CInv'
    BY <2>5 DEF Signal
  <2>6. ASSUME UNCHANGED <<storeVars, writerVars>> PROVE CInv'
    BY <2>6
  <2> QED
    BY <2>1, <2>2, <2>3, <2>4, <2>5, <2>6
       DEF Next, WriteChunk, ReadStep, BeginRead, BeginUpload, Check, LockWait,
           Recheck, Register, Wake, FinishRead, vars
<1>3. CInv => ExactCount
  OBVIOUS
<1> HIDE DEF CInv
<1> QED BY <1>1, <1>2, <1>3, Typing, PTL DEF Safe
=============================================================================
