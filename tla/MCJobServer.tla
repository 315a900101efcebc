----------------------------- MODULE MCJobServer -----------------------------
(* Instances of JobServer for TLC: see the .cfg files. *)
EXTENDS JobServer
=============================================================================
