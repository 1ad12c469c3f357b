---------------------------- MODULE MCDocsIndex ----------------------------
(* The docs index for TLC.  No symmetry: liveness is checked. *)
EXTENDS DocsIndex

CONSTANTS r1, r2
=============================================================================
