--------------------------- MODULE MCPipelineInOrder ---------------------------
(***************************************************************************)
(* The pipeline with deliveries that satisfy the hypotheses of the         *)
(* theorems about GenuineFailuresCounted, FlakyFailuresExcused and         *)
(* CountedOrExcused.                                                       *)
(***************************************************************************)
EXTENDS MCActivityPipeline

ASSUME InOrderAssumption == ExcusedTogether /\ Ordered

===============================================================================
