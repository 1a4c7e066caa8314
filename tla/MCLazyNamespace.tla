---------------------------- MODULE MCLazyNamespace ----------------------------
(* Instances of LazyNamespace for TLC.                                         *)
EXTENDS LazyNamespace, TLC

CONSTANTS a, b

\* a and b use each other.
Circle == a :> {b} @@ b :> {a}
\* Builds of a fail in every way; those of b fail with a.
FaultyA == a :> {"import", "construct", "optional"} @@ b :> {}

=============================================================================
