-------------------------- MODULE MCManifestBuild --------------------------
(* Small instances of ManifestBuild for TLC.                               *)
EXTENDS ManifestBuild
=============================================================================
