------------------------ MODULE ManifestBuildProofs ------------------------
(***************************************************************************)
(* Proofs about ManifestBuild, for any file and any number of workers.     *)
(*                                                                         *)
(* Every chunk that was fed is in one place at most: waiting, with one     *)
(* worker, in the results, or collected (OnePlace).  So when as many       *)
(* results are collected as there are chunks nothing is left with a        *)
(* worker.                                                                 *)
(***************************************************************************)
EXTENDS ManifestBuild, FiniteSetTheorems, TLAPS

Busy(w) == worker[w] \in {"read", "put"}

OnePlace ==
  /\ \A i \in jobs \cup results \cup collected : i < fed
  /\ jobs \cap results = {}
  /\ jobs \cap collected = {}
  /\ results \cap collected = {}
  /\ \A w \in Workers :
       Busy(w) => job[w] < fed /\ job[w] \notin jobs \cup results \cup collected
  /\ \A v, w \in Workers : Busy(v) /\ Busy(w) /\ v # w => job[v] # job[w]

\* What has been collected decides what is returned.
Recorded ==
  /\ firstErr => unreadable # {}
  /\ ~firstErr => hashed = collected /\ collected \cap unreadable = {}
  /\ builder # "collect" => collected = Indices
  /\ builder = "manifest" => ~firstErr
  /\ builder = "error" => firstErr

-----------------------------------------------------------------------------
\* The set of chunks, and each of its subsets, is finite.
LEMMA FiniteChunks ==
  /\ IsFiniteSet(Indices) /\ Cardinality(Indices) = Count
  /\ \A S \in SUBSET Indices : IsFiniteSet(S) /\ Cardinality(S) \in Nat
  /\ Capacity \in Nat
<1>1. IsFiniteSet(Indices) /\ Cardinality(Indices) = Count
  BY FS_Interval, PoolAssumption DEF Indices
<1>2. \A S \in SUBSET Indices : IsFiniteSet(S) /\ Cardinality(S) \in Nat
  BY <1>1, FS_Subset, FS_CardinalityType
<1>3. Capacity \in Nat
  BY PoolAssumption DEF Capacity, NumWorkers
<1> QED BY <1>1, <1>2, <1>3

\* Adding an element to a channel that is not full, or taking one from it,
\* keeps it within its capacity.
LEMMA ChannelFits ==
  ASSUME NEW S \in SUBSET Indices, NEW i \in Indices,
         Cardinality(S) <= Capacity
  PROVE  /\ Cardinality(S) < Capacity => Cardinality(S \cup {i}) <= Capacity
         /\ Cardinality(S \ {i}) <= Capacity
<1>1. IsFiniteSet(S) /\ Cardinality(S) \in Nat
  BY FiniteChunks
<1>2. Cardinality(S \cup {i}) <= Cardinality(S) + 1
  <2>1. Cardinality(S \cup {i}) =
          IF i \in S THEN Cardinality(S) ELSE Cardinality(S) + 1
    BY <1>1, FS_AddElement
  <2> QED BY <1>1, <2>1
<1>3. Cardinality(S \ {i}) <= Cardinality(S)
  <2>1. Cardinality(S \ {i}) =
          IF i \in S THEN Cardinality(S) - 1 ELSE Cardinality(S)
    BY <1>1, FS_RemoveElement
  <2> QED BY <1>1, <2>1
<1>4. Cardinality(S \cup {i}) \in Nat /\ Cardinality(S \ {i}) \in Nat
  BY FiniteChunks
<1> QED BY <1>1, <1>2, <1>3, <1>4, FiniteChunks

\* Every variable keeps its type and no channel outgrows its capacity.
THEOREM Typing == Safe => []TypeOK
<1>1. Init => TypeOK
  <2>1. 0 \in Indices /\ 0 \in 0 .. Count
    BY PoolAssumption DEF Indices
  <2>2. Cardinality({}) <= Capacity
    <3>1. Cardinality({}) = 0
      BY FS_EmptySet
    <3> QED BY <3>1, FiniteChunks
  <2> QED BY <2>1, <2>2 DEF Init, TypeOK
<1>2. TypeOK /\ [Next]_vars => TypeOK'
  <2> SUFFICES ASSUME TypeOK, [Next]_vars PROVE TypeOK'
    OBVIOUS
  <2> USE PoolAssumption DEF TypeOK
  <2>1. CASE Feed
    <3>1. fed \in Indices /\ fed + 1 \in 0 .. Count
      BY <2>1 DEF Feed, Indices
    <3>2. jobs' \subseteq Indices /\ Cardinality(jobs') <= Capacity
      BY <2>1, <3>1, ChannelFits DEF Feed
    <3> QED BY <2>1, <3>1, <3>2 DEF Feed
  <2>2. CASE CloseJobs
    BY <2>2 DEF CloseJobs
  <2>3. ASSUME NEW w \in Workers, Take(w) PROVE TypeOK'
    <3>1. PICK i \in jobs : jobs' = jobs \ {i} /\ job' = [job EXCEPT ![w] = i]
      BY <2>3 DEF Take
    <3>2. jobs' \subseteq Indices /\ Cardinality(jobs') <= Capacity
      BY <3>1, ChannelFits
    <3>3. i \in Indices
      BY <3>1
    <3> QED BY <2>3, <3>1, <3>2, <3>3 DEF Take
  <2>4. ASSUME NEW w \in Workers, ReadChunk(w) PROVE TypeOK'
    BY <2>4 DEF ReadChunk, Indices
  <2>5. ASSUME NEW w \in Workers, Put(w) PROVE TypeOK'
    <3>1. job[w] \in Indices
      BY <2>5
    <3> QED BY <2>5, <3>1, ChannelFits DEF Put
  <2>6. ASSUME NEW w \in Workers, Exit(w) PROVE TypeOK'
    BY <2>6 DEF Exit
  <2>7. CASE CloseResults
    BY <2>7 DEF CloseResults
  <2>8. CASE Collect
    BY <2>8, ChannelFits DEF Collect, Records
  <2>9. CASE Finish
    BY <2>9 DEF Finish
  <2>10. CASE UNCHANGED vars
    BY <2>10 DEF vars
  <2> QED BY <2>1, <2>2, <2>3, <2>4, <2>5, <2>6, <2>7, <2>8, <2>9, <2>10
          DEF Next, Feeder, Worker, Builder
<1> QED BY <1>1, <1>2, PTL DEF Safe

\* No chunk is with two of the channels and workers.
THEOREM Placed == Safe => []OnePlace
<1>1. Init => OnePlace
  BY DEF Init, OnePlace, Busy
<1>2. TypeOK /\ OnePlace /\ [Next]_vars => OnePlace'
  <2> SUFFICES ASSUME TypeOK, OnePlace, [Next]_vars PROVE OnePlace'
    OBVIOUS
  <2> USE PoolAssumption DEF OnePlace, TypeOK, Busy, Indices
  <2>1. CASE Feed
    BY <2>1 DEF Feed
  <2>2. CASE CloseJobs
    BY <2>2 DEF CloseJobs
  <2>3. ASSUME NEW w \in Workers, Take(w) PROVE OnePlace'
    <3>1. PICK i \in jobs : jobs' = jobs \ {i} /\ job' = [job EXCEPT ![w] = i]
      BY <2>3 DEF Take
    <3>2. worker' = [worker EXCEPT ![w] = "read"] /\ worker[w] = "take"
      BY <2>3 DEF Take
    <3>3. UNCHANGED <<fed, results, collected>>
      BY <2>3 DEF Take
    <3>4. \A v \in Workers : Busy(v) => job[v] # i
      BY <3>1
    <3> QED BY <3>1, <3>2, <3>3, <3>4
  <2>4. ASSUME NEW w \in Workers, ReadChunk(w) PROVE OnePlace'
    BY <2>4 DEF ReadChunk
  <2>5. ASSUME NEW w \in Workers, Put(w) PROVE OnePlace'
    <3>1. results' = results \cup {job[w]} /\ worker[w] = "put"
      BY <2>5 DEF Put
    <3>2. worker' = [worker EXCEPT ![w] = "take"]
      BY <2>5 DEF Put
    <3>3. UNCHANGED <<fed, jobs, job, collected>>
      BY <2>5 DEF Put
    <3> QED BY <3>1, <3>2, <3>3
  <2>6. ASSUME NEW w \in Workers, Exit(w) PROVE OnePlace'
    BY <2>6 DEF Exit
  <2>7. CASE CloseResults
    BY <2>7 DEF CloseResults
  <2>8. CASE Collect
    <3>1. PICK i \in results : /\ results' = results \ {i}
                               /\ collected' = collected \cup {i}
      BY <2>8 DEF Collect
    <3>2. UNCHANGED <<fed, jobs, worker, job>>
      BY <2>8 DEF Collect
    <3> QED BY <3>1, <3>2
  <2>9. CASE Finish
    BY <2>9 DEF Finish
  <2>10. CASE UNCHANGED vars
    BY <2>10 DEF vars
  <2> QED BY <2>1, <2>2, <2>3, <2>4, <2>5, <2>6, <2>7, <2>8, <2>9, <2>10
          DEF Next, Feeder, Worker, Builder
<1> QED BY <1>1, <1>2, Typing, PTL DEF Safe

\* Errors and hashes are recorded as they are collected, and what is returned
\* follows them.
THEOREM Recording == Safe => []Recorded
<1>1. Init => Recorded
  BY DEF Init, Recorded
<1>2. TypeOK /\ OnePlace /\ Recorded /\ [Next]_vars => Recorded'
  <2> SUFFICES ASSUME TypeOK, OnePlace, Recorded, [Next]_vars
               PROVE  Recorded'
    OBVIOUS
  <2> USE DEF Recorded
  <2>1. CASE Feed \/ CloseJobs \/ CloseResults
    BY <2>1 DEF Feed, CloseJobs, CloseResults
  <2>2. ASSUME NEW w \in Workers, Take(w) \/ Put(w) \/ Exit(w)
        PROVE  Recorded'
    BY <2>2 DEF Take, Put, Exit
  <2>3. ASSUME NEW w \in Workers, ReadChunk(w) PROVE Recorded'
    <3>1. unreadable' = unreadable \/ unreadable' = unreadable \cup {job[w]}
      BY <2>3 DEF ReadChunk
    <3>2. job[w] \notin collected
      BY <2>3 DEF ReadChunk, OnePlace, Busy
    <3>3. UNCHANGED <<collected, firstErr, hashed, builder>>
      BY <2>3 DEF ReadChunk
    <3> QED BY <3>1, <3>2, <3>3
  <2>4. CASE Collect
    BY <2>4 DEF Collect, Records, TypeOK
  <2>5. CASE Finish
    <3>1. collected = Indices
      BY <2>5, FiniteChunks, FS_Subset DEF Finish, AllCollected, TypeOK
    <3> QED BY <2>5, <3>1 DEF Finish, TypeOK
  <2>6. CASE UNCHANGED vars
    BY <2>6 DEF vars
  <2> QED BY <2>1, <2>2, <2>3, <2>4, <2>5, <2>6
          DEF Next, Feeder, Worker, Builder
<1> QED BY <1>1, <1>2, Typing, Placed, PTL DEF Safe

\* BuildManifest returns a manifest only when every chunk is hashed, and an
\* error only when a chunk could not be read.
THEOREM OutcomeRight == Safe => []Outcome
<1>1. TypeOK /\ Recorded => Outcome
  BY DEF TypeOK, Recorded, Outcome
<1> QED BY <1>1, Typing, Recording, PTL

\* No worker reads the file once BuildManifest has returned and closed it.
THEOREM ClosedLast == Safe => []FileClosedLast
<1>1. TypeOK /\ OnePlace /\ Recorded => FileClosedLast
  BY DEF TypeOK, OnePlace, Recorded, FileClosedLast, Busy
<1> QED BY <1>1, Typing, Placed, Recording, PTL
=============================================================================
