------------------------- MODULE MCExperimentRunner -------------------------
(* Instances of ExperimentRunner for TLC.                                  *)
EXTENDS ExperimentRunner
=============================================================================
