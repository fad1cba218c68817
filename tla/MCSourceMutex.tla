--------------------------- MODULE MCSourceMutex ---------------------------
(* Instances of SourceMutex for TLC; no symmetry, the run checks liveness. *)
EXTENDS SourceMutex
=============================================================================
