-------------------------- MODULE MCEmployeeSession --------------------------
(* Instances of EmployeeSession for TLC. *)
EXTENDS EmployeeSession
=============================================================================
