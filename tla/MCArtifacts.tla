---------------------------- MODULE MCArtifacts ----------------------------
(* Instances of Artifacts for TLC. *)
EXTENDS Artifacts, TLC

Runs == Permutations(Run)
=============================================================================
