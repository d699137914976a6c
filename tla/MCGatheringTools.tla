--------------------------- MODULE MCGatheringTools ---------------------------
(* Instances of GatheringTools for TLC.                                      *)
EXTENDS GatheringTools

MCTasks == Slots \X Sources
=============================================================================
