-------------------------------- MODULE MCDaqRun -------------------------------
(* Instances of DaqRun for TLC: the constants are in the cfg.                  *)
EXTENDS DaqRun

=============================================================================
