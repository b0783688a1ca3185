-------------------------- MODULE MCInferenceOrder --------------------------
(* Two inferences of the programs of MCInference. *)
EXTENDS MCInference, InferenceOrder

=============================================================================
