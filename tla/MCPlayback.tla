----------------------------- MODULE MCPlayback -----------------------------
(* Connection "h1" leads to the host and "p1" to another joiner. *)
EXTENDS Playback

ConnIds   == [p \in Conns |-> IF p = "h1" THEN "host" ELSE "peer"]
AllChunks == [i \in Ids |-> Chunk]

\* From within the first chunk to its end and beyond that of the file.
Ranges == {[first |-> 1, last |-> 4], [first |-> 2, last |-> 9]}

\* From the end of the first chunk to beyond that of the file.
ToEnd == {[first |-> 2, last |-> 9]}
=============================================================================
