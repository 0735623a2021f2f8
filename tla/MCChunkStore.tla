---------------------------- MODULE MCChunkStore ----------------------------
(* Small instances of ChunkStore for TLC, whose threads are model values.  *)
EXTENDS ChunkStore
=============================================================================
