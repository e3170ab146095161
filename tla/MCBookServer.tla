---------------------------- MODULE MCBookServer ----------------------------
(* Instances of BookServer for TLC. *)
EXTENDS BookServer

Kernighan == [acc |-> 1001, title |-> {"C"}, author |-> {"K"}]
CleanCode == [acc |-> 1002, title |-> {"code"}, author |-> {"Martin"}]
MCInitially == <<Kernighan, CleanCode>>

(* Two new books; one has the number of an old one and shares its author.  *)
MCTyped == {[acc |-> 1001, title |-> {"C", "code"}, author |-> {"K"}],
            [acc |-> 1003, title |-> {"C"}, author |-> {"Martin"}]}
=============================================================================
