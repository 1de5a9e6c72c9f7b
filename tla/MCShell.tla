------------------------------ MODULE MCShell ------------------------------
(* Instances of the shell for TLC. *)
EXTENDS ShellProperties

(* A run with two events before one tick and one later, and after a load a *)
(* run with an event before its first tick. *)
TwoRuns == <<<<1, 1, 2>>, <<0, 2>>>>
=============================================================================
