--------------------------- MODULE BlockingStore ---------------------------
(***************************************************************************)
(* What a chunk store promises to its readers, with no locks and no        *)
(* channels: chunks become available one at a time and stay available, a   *)
(* reader asks for a range of chunks and is served once all of them are    *)
(* available.  ChunkStore implements this specification.                   *)
(***************************************************************************)
CONSTANTS Chunk,   \* the chunks of the video
          Readers  \* the threads that read from the store

VARIABLES have,    \* chunks available locally
          want     \* want[r]: chunks reader r is waiting for ({} when idle)

vars == <<have, want>>

Init == /\ have \in {{}, Chunk}
        /\ want = [r \in Readers |-> {}]

\* A chunk has been verified and stored.
Put(i) == /\ i \notin have
          /\ have' = have \cup {i}
          /\ UNCHANGED want

\* A reader asks for the chunks S.
Ask(r, S) == /\ want[r] = {}
             /\ S # {}
             /\ want' = [want EXCEPT ![r] = S]
             /\ UNCHANGED have

\* A reader is given what it asked for, which must all be available.
Serve(r) == /\ want[r] # {}
            /\ want[r] \subseteq have
            /\ want' = [want EXCEPT ![r] = {}]
            /\ UNCHANGED have

Next == \/ \E i \in Chunk : Put(i)
        \/ \E r \in Readers : Serve(r) \/ \E S \in SUBSET Chunk : Ask(r, S)

\* A reader whose chunks are all available does not wait for ever.
Fairness == \A r \in Readers : WF_vars(Serve(r))

Safe == Init /\ [][Next]_vars
Spec == Safe /\ Fairness
=============================================================================
