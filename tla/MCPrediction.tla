---------------------------- MODULE MCPrediction ----------------------------
(* Instances of Prediction for TLC.                                         *)
EXTENDS Prediction

=============================================================================
