------------------------ MODULE MCJourneyDisturbance ------------------------
(* The instances of MCJourneyTraversal, with the history variable.         *)
EXTENDS MCJourneyTraversal, JourneyDisturbance
=============================================================================
