--------------------------- MODULE MCAppendServer ---------------------------
(* Instances of AppendServer for TLC. *)
EXTENDS AppendServer
=============================================================================
