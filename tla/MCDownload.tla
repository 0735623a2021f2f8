----------------------------- MODULE MCDownload -----------------------------
(* Small instances of Download for TLC: connections "h1", "h2" lead to the  *)
(* host and "p1", "p2" to another joiner.                                   *)
EXTENDS Download

ConnIds == [p \in Conns |-> IF p \in {"h1", "h2"} THEN "host" ELSE "peer"]

\* The host has every chunk; the other joiner has them all in the end.
AllChunks == [i \in Ids |-> Chunk]

\* The other joiner has the first chunk and no more.
FirstOnly == [i \in Ids |-> IF i = Host THEN Chunk ELSE {0}]
=============================================================================
