---------------------------- MODULE MCPlayerIPC ----------------------------
(* Small instances of PlayerIPC for TLC.  Callers are named by what calls  *)
(* in cmd/join.go: the sync handler and the cursor loop.                   *)
EXTENDS PlayerIPC
=============================================================================
