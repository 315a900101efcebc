----------------------------- MODULE MCPipelines -----------------------------
(* Instances of Pipelines for TLC: see the .cfg files. *)
EXTENDS Pipelines

TwoLms == <<"l1", "l2">>
OneDit == <<"d1">>
OneVae == <<"v1">>

\* An address is named by the key that is loaded there.
AddrsAreKeys == AllKeys
Identity == [k \in AllKeys |-> k]
=============================================================================
