----------------------------- MODULE ChunkStore -----------------------------
(***************************************************************************)
(* internal/chunk/store.go: the chunk store of one process, shared by the  *)
(* threads that write chunks (the read loops of the peers, through         *)
(* OnPieceReceived) and the threads that read them (the HTTP server, which *)
(* blocks in ReadBytes, and the REQUEST handler, which does not).          *)
(*                                                                         *)
(* Each step is a stretch of code that takes a lock, uses the file or      *)
(* blocks.  The store's mutex mu protects one access at a time, so it      *)
(* needs no variable; waitMu is held across several accesses and has one.  *)
(***************************************************************************)
EXTENDS Integers, FiniteSets

CONSTANTS ChunkCount,  \* number of chunks in the manifest
          Writers,     \* threads that may be inside WriteChunk
          Readers,     \* threads that may be inside ReadBytes or ReadChunk
          Unlocked     \* the owner of a mutex nobody holds

ASSUME ChunkCountAssumption == ChunkCount \in Nat \ {0}
ASSUME ThreadsAssumption == /\ IsFiniteSet(Writers)
                            /\ IsFiniteSet(Readers)
                            /\ Unlocked \notin Readers

VARIABLES
  good,      \* chunks whose bytes in the file are the manifest's
  bitfield,  \* chunks marked as available
  count,     \* the store's own count of them
  waiters,   \* waiters[i]: readers blocked on the channel of chunk i
  waitMu,    \* owner of waitMu
  wpc, wchunk, wdata,           \* each writer: step, chunk and data
  rpc, rfirst, rchunk, rlast    \* each reader: step, range and current chunk

storeVars  == <<good, bitfield, count>>
waitVars   == <<waiters, waitMu>>
writerVars == <<wpc, wchunk, wdata>>
readerVars == <<rpc, rfirst, rchunk, rlast>>
vars == <<storeVars, waitVars, writerVars, readerVars>>

Chunk == 0 .. ChunkCount - 1

\* Data either has the hash the manifest gives for the chunk or it does not.
Data == {"genuine", "forged"}

-----------------------------------------------------------------------------
(* Initial states.  NewPeerStore does not empty a .partial file left by an *)
(* earlier run, so its bytes may already be right.                         *)

NewHostStore == /\ good = Chunk
                /\ bitfield = Chunk
                /\ count = ChunkCount

NewPeerStore == /\ good \in SUBSET Chunk
                /\ bitfield = {}
                /\ count = 0

Init == /\ NewHostStore \/ NewPeerStore
        /\ waiters = [i \in Chunk |-> {}]
        /\ waitMu = Unlocked
        /\ wpc = [w \in Writers |-> "idle"]
        /\ wchunk = [w \in Writers |-> 0]
        /\ wdata = [w \in Writers |-> "genuine"]
        /\ rpc = [r \in Readers |-> "idle"]
        /\ rfirst = [r \in Readers |-> 0]
        /\ rchunk = [r \in Readers |-> 0]
        /\ rlast = [r \in Readers |-> 0]

-----------------------------------------------------------------------------
(* WriteChunk. *)

\* Mutants of Accepts: each drops one of its checks.
AcceptsAnyIndex(i, d) == i \notin bitfield /\ d = "genuine"
AcceptsPresent(i, d) == i \in Chunk /\ d = "genuine"
AcceptsForged(i, d) == i \in Chunk /\ i \notin bitfield

\* The three early returns: index out of range, chunk present, wrong hash.
Accepts(i, d) == /\ i \in Chunk
                 /\ i \notin bitfield
                 /\ d = "genuine"

BeginWrite(w, i, d) == /\ wpc[w] = "idle"
                       /\ Accepts(i, d)
                       /\ wpc' = [wpc EXCEPT ![w] = "file"]
                       /\ wchunk' = [wchunk EXCEPT ![w] = i]
                       /\ wdata' = [wdata EXCEPT ![w] = d]
                       /\ UNCHANGED <<storeVars, waitVars, readerVars>>

FileWrite(w) ==
  /\ wpc[w] = "file"
  /\ good' = IF wdata[w] = "genuine" THEN good \cup {wchunk[w]}
                                     ELSE good \ {wchunk[w]}
  /\ wpc' = [wpc EXCEPT ![w] = "commit"]
  /\ UNCHANGED <<bitfield, count, waitVars, wchunk, wdata, readerVars>>

\* WriteAt fails, after writing a part of the data that may be all of it.
FileWriteFails(w) ==
  /\ wpc[w] = "file"
  /\ good' \in IF wdata[w] = "genuine" THEN {good, good \cup {wchunk[w]}}
                                       ELSE {good, good \ {wchunk[w]}}
  /\ wpc' = [wpc EXCEPT ![w] = "idle"]
  /\ UNCHANGED <<bitfield, count, waitVars, wchunk, wdata, readerVars>>

Commit(w) == /\ wpc[w] = "commit"
             /\ bitfield' = bitfield \cup {wchunk[w]}
             /\ count' = count + 1
             /\ wpc' = [wpc EXCEPT ![w] = "signal"]
             /\ UNCHANGED <<good, waitVars, wchunk, wdata, readerVars>>

\* Mutant of Signal: one waiter is woken instead of all.
SignalsOne(w) ==
  /\ wpc[w] = "signal"
  /\ waitMu = Unlocked
  /\ \E r \in Readers :
       /\ waiters[wchunk[w]] # {} => r \in waiters[wchunk[w]]
       /\ waiters' = [waiters EXCEPT ![wchunk[w]] = @ \ {r}]
  /\ wpc' = [wpc EXCEPT ![w] = "idle"]
  /\ UNCHANGED <<storeVars, waitMu, wchunk, wdata, readerVars>>

\* Closing the channel of the chunk wakes all its waiters; the critical
\* section touches nothing but waiters, so it is one step.
Signal(w) == /\ wpc[w] = "signal"
             /\ waitMu = Unlocked
             /\ waiters' = [waiters EXCEPT ![wchunk[w]] = {}]
             /\ wpc' = [wpc EXCEPT ![w] = "idle"]
             /\ UNCHANGED <<storeVars, waitMu, wchunk, wdata, readerVars>>

-----------------------------------------------------------------------------
(* ReadBytes: wait for each chunk of the range in turn, then read.         *)

BeginRead(r, first, last) ==
  /\ rpc[r] = "idle"
  /\ first <= last
  /\ rpc' = [rpc EXCEPT ![r] = "check"]
  /\ rfirst' = [rfirst EXCEPT ![r] = first]
  /\ rchunk' = [rchunk EXCEPT ![r] = first]
  /\ rlast' = [rlast EXCEPT ![r] = last]
  /\ UNCHANGED <<storeVars, waitVars, writerVars>>

\* The REQUEST handler reads a chunk only when it finds it present.
BeginUpload(r, i) ==
  /\ rpc[r] = "idle"
  /\ i \in bitfield
  /\ rpc' = [rpc EXCEPT ![r] = "read"]
  /\ rfirst' = [rfirst EXCEPT ![r] = i]
  /\ rchunk' = [rchunk EXCEPT ![r] = i]
  /\ rlast' = [rlast EXCEPT ![r] = i]
  /\ UNCHANGED <<storeVars, waitVars, writerVars>>

\* Mutant of Advance: ReadBytes waits for the first chunk only.
AdvancesToFile(r) == /\ rpc' = [rpc EXCEPT ![r] = "read"]
                     /\ UNCHANGED rchunk

\* WaitForChunk returned: on to the next chunk of the range, or to the file.
Advance(r) ==
  IF rchunk[r] < rlast[r]
  THEN /\ rchunk' = [rchunk EXCEPT ![r] = @ + 1]
       /\ rpc' = [rpc EXCEPT ![r] = "check"]
  ELSE /\ rpc' = [rpc EXCEPT ![r] = "read"]
       /\ UNCHANGED rchunk

Check(r) == /\ rpc[r] = "check"
            /\ IF rchunk[r] \in bitfield
               THEN Advance(r)
               ELSE /\ rpc' = [rpc EXCEPT ![r] = "lock"]
                    /\ UNCHANGED rchunk
            /\ UNCHANGED <<storeVars, waitVars, writerVars, rfirst, rlast>>

LockWait(r) == /\ rpc[r] = "lock"
               /\ waitMu = Unlocked
               /\ waitMu' = r
               /\ rpc' = [rpc EXCEPT ![r] = "recheck"]
               /\ UNCHANGED <<storeVars, waiters, writerVars, rfirst, rchunk,
                              rlast>>

\* Mutant of Recheck: no second look at the bitfield.
RechecksNothing(r) == /\ rpc[r] = "recheck"
                      /\ rpc' = [rpc EXCEPT ![r] = "register"]
                      /\ UNCHANGED <<storeVars, waitVars, writerVars, rfirst,
                                     rchunk, rlast>>

Recheck(r) == /\ rpc[r] = "recheck"
              /\ IF rchunk[r] \in bitfield
                 THEN /\ waitMu' = Unlocked
                      /\ Advance(r)
                 ELSE /\ rpc' = [rpc EXCEPT ![r] = "register"]
                      /\ UNCHANGED <<waitMu, rchunk>>
              /\ UNCHANGED <<storeVars, waiters, writerVars, rfirst, rlast>>

Register(r) == /\ rpc[r] = "register"
               /\ waiters' = [waiters EXCEPT ![rchunk[r]] = @ \cup {r}]
               /\ waitMu' = Unlocked
               /\ rpc' = [rpc EXCEPT ![r] = "blocked"]
               /\ UNCHANGED <<storeVars, writerVars, rfirst, rchunk, rlast>>

\* The channel the reader received from is closed.
Wake(r) == /\ rpc[r] = "blocked"
           /\ r \notin waiters[rchunk[r]]
           /\ Advance(r)
           /\ UNCHANGED <<storeVars, waitVars, writerVars, rfirst, rlast>>

FinishRead(r) == /\ rpc[r] = "read"
                 /\ rpc' = [rpc EXCEPT ![r] = "idle"]
                 /\ UNCHANGED <<storeVars, waitVars, writerVars, rfirst,
                                rchunk, rlast>>

-----------------------------------------------------------------------------
WriteChunk(w) ==
  \/ \E i \in 0 .. ChunkCount, d \in Data : BeginWrite(w, i, d)
  \/ FileWrite(w)
  \/ FileWriteFails(w)
  \/ Commit(w)
  \/ Signal(w)

\* The steps of a reader that need no lock, and those that follow them.
ReadStep(r) == \/ Check(r)
               \/ Recheck(r)
               \/ Register(r)
               \/ Wake(r)
               \/ FinishRead(r)

Next ==
  \/ \E w \in Writers : WriteChunk(w)
  \/ \E r \in Readers : \/ \E first, last \in Chunk : BeginRead(r, first, last)
                        \/ \E i \in Chunk : BeginUpload(r, i)
                        \/ LockWait(r)
                        \/ ReadStep(r)

\* A thread that can run runs.  waitMu goes to each thread that asks for it
\* even when others keep taking it: a sync.Mutex hands itself to the longest
\* waiter after 1 ms.  No fairness on BeginWrite, FileWrite or Commit: the
\* promise to a reader starts when its chunks are marked available.
Fairness == /\ \A w \in Writers : SF_vars(Signal(w))
            /\ \A r \in Readers : WF_vars(ReadStep(r)) /\ SF_vars(LockWait(r))

Safe == Init /\ [][Next]_vars
Spec == Safe /\ Fairness

-----------------------------------------------------------------------------
(* Properties. *)

\* Every variable has its type; in particular only indices of the manifest
\* are ever marked available.
TypeOK ==
  /\ good \subseteq Chunk
  /\ bitfield \subseteq Chunk
  /\ count \in Nat
  /\ waiters \in [Chunk -> SUBSET Readers]
  /\ waitMu \in Readers \cup {Unlocked}
  /\ wpc \in [Writers -> {"idle", "file", "commit", "signal"}]
  /\ wchunk \in [Writers -> Chunk]
  /\ wdata \in [Writers -> Data]
  /\ rpc \in [Readers -> {"idle", "check", "lock", "recheck", "register",
                          "blocked", "read"}]
  /\ rfirst \in [Readers -> Chunk]
  /\ rchunk \in [Readers -> Chunk]
  /\ rlast \in [Readers -> Chunk]

\* A chunk marked available has the manifest's bytes in the file, whatever
\* writes of the same chunk run at the same time or fail.
BitMeansVerified == bitfield \subseteq good

\* When ReadBytes or ReadChunk reads the file, every chunk of the range it
\* reads is verified: the wait loop has skipped none.
ReaderSeesVerified ==
  \A r \in Readers : rpc[r] = "read" => rfirst[r] .. rlast[r] \subseteq good

\* A reader is never left asleep on a chunk that has arrived: the writer that
\* marked the chunk is still on its way to wake it.
NoLostWakeup ==
  \A r \in Readers :
    rpc[r] = "blocked" /\ r \in waiters[rchunk[r]] /\ rchunk[r] \in bitfield
      => \E w \in Writers : wpc[w] = "signal" /\ wchunk[w] = rchunk[r]

\* count is the number of chunks we have, as the field's comment says.  It
\* holds when at most one thread is inside WriteChunk.
ExactCount == count = Cardinality(bitfield)

\* IsComplete "returns true if all chunks are available" and only then.
IsCompleteExact == (count = ChunkCount) <=> (bitfield = Chunk)

\* The store with its locks and channels keeps the promise of the abstract
\* store, fairness included: a reader whose chunks have arrived is served.
Blocking == INSTANCE BlockingStore
  WITH have <- bitfield,
       want <- [r \in Readers |->
                  IF rpc[r] = "idle" THEN {} ELSE rfirst[r] .. rlast[r]]

Implements == Blocking!Spec
=============================================================================
