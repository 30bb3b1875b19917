----------------------------- MODULE MCBuildTask -----------------------------
(* Instances of BuildTask for TLC. *)
EXTENDS BuildTask, TLC

TaskSymmetry == Permutations(Tasks)
=============================================================================
