------------------------------ MODULE MCLmBatch ------------------------------
(* The instance of LmBatch.cfg, in which every token and request is plain. *)
EXTENDS MCUnderstand

ASSUME PlainAssumption == PlainInstance
=============================================================================
