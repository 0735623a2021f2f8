--------------------------- MODULE ManifestBuild ---------------------------
(***************************************************************************)
(* BuildManifest (internal/chunk/manifest.go): a pool of workers hashes    *)
(* the chunks of the host's file.  One goroutine feeds the channel of      *)
(* jobs, another closes the channel of results when every worker is done,  *)
(* and the caller collects one result for each chunk.                      *)
(*                                                                         *)
(* A channel is the set of the chunks in it: in what order it is drained   *)
(* does not matter here.                                                   *)
(***************************************************************************)
EXTENDS Integers, FiniteSets

CONSTANTS Count,   \* chunks of the file
          NumCPU,
          MayFail  \* chunks that may be impossible to read

ASSUME PoolAssumption == /\ Count \in Nat \ {0}
                         /\ NumCPU \in Nat \ {0}
                         /\ MayFail \subseteq 0 .. Count - 1

VARIABLES
  fed,        \* chunks that were fed to jobs: those below this one
  jobs, jobsClosed,
  worker,     \* worker[w]: "take", "read", "put" or "exited"
  job,        \* job[w]: the chunk worker w is at
  unreadable, \* chunks whose reading failed
  results, resultsClosed,
  collected,  \* chunks whose result was received
  firstErr,   \* an error was received
  hashed,     \* entries of m.Chunks that are filled
  builder     \* the caller: "collect", "manifest" or "error", as it returned

vars == <<fed, jobs, jobsClosed, worker, job, unreadable, results,
          resultsClosed, collected, firstErr, hashed, builder>>

Indices == 0 .. Count - 1
NumWorkers == IF NumCPU < Count THEN NumCPU ELSE Count
Workers == 1 .. NumWorkers
Capacity == NumWorkers * 2

Init == /\ fed = 0
        /\ jobs = {} /\ jobsClosed = FALSE
        /\ worker = [w \in Workers |-> "take"]
        /\ job = [w \in Workers |-> 0]
        /\ unreadable = {}
        /\ results = {} /\ resultsClosed = FALSE
        /\ collected = {} /\ firstErr = FALSE /\ hashed = {}
        /\ builder = "collect"

-----------------------------------------------------------------------------
\* Mutant of Feed: off by one.
FeedsPast == /\ fed <= Count
             /\ Cardinality(jobs) < Capacity
             /\ jobs' = jobs \cup {fed}
             /\ fed' = fed + 1
             /\ UNCHANGED <<jobsClosed, worker, job, unreadable, results,
                            resultsClosed, collected, firstErr, hashed,
                            builder>>

Feed == /\ fed < Count
        /\ Cardinality(jobs) < Capacity
        /\ jobs' = jobs \cup {fed}
        /\ fed' = fed + 1
        /\ UNCHANGED <<jobsClosed, worker, job, unreadable, results,
                       resultsClosed, collected, firstErr, hashed, builder>>

CloseJobs == /\ fed = Count /\ ~jobsClosed
             /\ jobsClosed' = TRUE
             /\ UNCHANGED <<fed, jobs, worker, job, unreadable, results,
                            resultsClosed, collected, firstErr, hashed,
                            builder>>

Take(w) == /\ worker[w] = "take"
           /\ \E i \in jobs : /\ jobs' = jobs \ {i}
                              /\ job' = [job EXCEPT ![w] = i]
           /\ worker' = [worker EXCEPT ![w] = "read"]
           /\ UNCHANGED <<fed, jobsClosed, unreadable, results, resultsClosed,
                          collected, firstErr, hashed, builder>>

\* Reading the chunk from the file, and hashing it.
ReadChunk(w) ==
  /\ worker[w] = "read"
  /\ unreadable' \in {unreadable} \cup
                     (IF job[w] \in MayFail THEN {unreadable \cup {job[w]}}
                                            ELSE {})
  /\ worker' = [worker EXCEPT ![w] = "put"]
  /\ UNCHANGED <<fed, jobs, jobsClosed, job, results, resultsClosed,
                 collected, firstErr, hashed, builder>>

Put(w) == /\ worker[w] = "put"
          /\ Cardinality(results) < Capacity
          /\ results' = results \cup {job[w]}
          /\ worker' = [worker EXCEPT ![w] = "take"]
          /\ UNCHANGED <<fed, jobs, jobsClosed, job, unreadable,
                         resultsClosed, collected, firstErr, hashed, builder>>

Exit(w) == /\ worker[w] = "take"
           /\ jobsClosed /\ jobs = {}
           /\ worker' = [worker EXCEPT ![w] = "exited"]
           /\ UNCHANGED <<fed, jobs, jobsClosed, job, unreadable, results,
                          resultsClosed, collected, firstErr, hashed, builder>>

CloseResults == /\ \A w \in Workers : worker[w] = "exited"
                /\ ~resultsClosed
                /\ resultsClosed' = TRUE
                /\ UNCHANGED <<fed, jobs, jobsClosed, worker, job, unreadable,
                               results, collected, firstErr, hashed, builder>>

\* Mutant of Records: an error is forgotten by the next good result.
RecordsLast(i) == /\ firstErr' = (i \in unreadable)
                  /\ hashed' = IF firstErr' THEN hashed ELSE hashed \cup {i}

\* Nothing more is filled in once there was an error.
Records(i) == /\ firstErr' = (firstErr \/ i \in unreadable)
              /\ hashed' = IF firstErr' THEN hashed ELSE hashed \cup {i}

Collect == /\ builder = "collect"
           /\ \E i \in results : /\ results' = results \ {i}
                                 /\ collected' = collected \cup {i}
                                 /\ Records(i)
           /\ UNCHANGED <<fed, jobs, jobsClosed, worker, job, unreadable,
                          resultsClosed, builder>>

\* Mutant of AllCollected: the first error ends the collection.
UntilError == firstErr \/ Cardinality(collected) = Count

AllCollected == Cardinality(collected) = Count

\* The caller returns, and closes the file.
Finish == /\ builder = "collect"
          /\ AllCollected
          /\ builder' = IF firstErr THEN "error" ELSE "manifest"
          /\ UNCHANGED <<fed, jobs, jobsClosed, worker, job, unreadable,
                         results, resultsClosed, collected, firstErr, hashed>>

-----------------------------------------------------------------------------
Feeder == Feed \/ CloseJobs
Worker(w) == Take(w) \/ ReadChunk(w) \/ Put(w) \/ Exit(w)
Builder == Collect \/ Finish

Next == Feeder \/ (\E w \in Workers : Worker(w)) \/ CloseResults \/ Builder

Safe == Init /\ [][Next]_vars

\* Every goroutine that can run does.
Spec == /\ Safe
        /\ WF_vars(Feeder) /\ WF_vars(CloseResults) /\ WF_vars(Builder)
        /\ \A w \in Workers : WF_vars(Worker(w))

-----------------------------------------------------------------------------
(* Properties. *)

\* Every variable has its type, and no channel holds more than its capacity.
TypeOK ==
  /\ fed \in 0 .. Count
  /\ jobs \subseteq Indices /\ Cardinality(jobs) <= Capacity
  /\ worker \in [Workers -> {"take", "read", "put", "exited"}]
  /\ job \in [Workers -> Indices]
  /\ results \subseteq Indices /\ Cardinality(results) <= Capacity
  /\ collected \subseteq Indices /\ hashed \subseteq Indices
  /\ unreadable \subseteq Indices
  /\ {jobsClosed, resultsClosed, firstErr} \subseteq BOOLEAN
  /\ builder \in {"collect", "manifest", "error"}

\* BuildManifest returns a manifest only if it hashed every chunk, and an
\* error only if a chunk could not be read.
Outcome == /\ builder = "manifest" => hashed = Indices /\ unreadable = {}
           /\ builder = "error" => unreadable # {}

\* The file, which closes when BuildManifest returns, is not read any more.
FileClosedLast ==
  builder # "collect" => \A w \in Workers : worker[w] \notin {"read", "put"}

\* BuildManifest returns, and no goroutine stays blocked on a channel.
EverybodyEnds == <>[](builder # "collect" /\ resultsClosed)
=============================================================================
