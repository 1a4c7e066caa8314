----------------------------- MODULE MCStatusStore -----------------------------
(* Instances of StatusStore for TLC: the constants are in the cfg.             *)
EXTENDS StatusStore

=============================================================================
