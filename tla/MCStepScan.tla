------------------------------ MODULE MCStepScan ------------------------------
(* Instances of StepScan for TLC.                                              *)
EXTENDS StepScan

=============================================================================
