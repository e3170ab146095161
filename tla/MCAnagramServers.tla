-------------------------- MODULE MCAnagramServers --------------------------
(* Instances of AnagramServers for TLC. *)
EXTENDS AnagramServers
=============================================================================
