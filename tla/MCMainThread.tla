------------------------------ MODULE MCMainThread ------------------------------
(* Instances of MainThread for TLC: the constants are in the cfgs.             *)
EXTENDS MainThread

=============================================================================
