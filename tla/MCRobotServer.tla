---------------------------- MODULE MCRobotServer ----------------------------
(* Instances of RobotServer for TLC.                                           *)
EXTENDS RobotServer

Commands == 1..2
AllOps == {"submit", "background", "abort", "stop", "restart"}

=============================================================================
