----------------------------- MODULE MCRecording -----------------------------
(* Instances of Recording for TLC.                                             *)
EXTENDS Recording, TLC

CONSTANTS s1, s2

\* The later recording may hold fewer points than the earlier one.
Caps == s1 :> 2 @@ s2 :> 1

=============================================================================
