------------------------- MODULE MCTrainingWorkflow -------------------------
(* TrainingWorkflow on a small instance for TLC: thresholds below and above *)
(* what the workflow takes for the Sharpe ratio.                           *)
EXTENDS TrainingWorkflow

MCThresholds == {-1, 5}
=============================================================================
