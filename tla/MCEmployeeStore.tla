--------------------------- MODULE MCEmployeeStore ---------------------------
(* Instances of EmployeeStore for TLC. *)
EXTENDS EmployeeStore, TLC

(* A namesake of Bob with the id and the experience of Alice: stored after *)
(* Charlie it makes two adjacent duplicates, and a report must move it.    *)
SecondBob == [name |-> 2, id |-> 101, exp |-> 5]
MCEmployees == {SecondBob}
MCIds == {101}
=============================================================================
