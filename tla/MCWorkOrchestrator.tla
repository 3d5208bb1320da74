------------------------- MODULE MCWorkOrchestrator -------------------------
(* Instances of WorkOrchestrator for TLC.                                  *)
EXTENDS WorkOrchestrator, TLC

JobSymmetry == Permutations(Jobs) \cup Permutations(Workers)
=============================================================================
