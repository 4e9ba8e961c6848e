--------------------------- MODULE MCPermitBroker ---------------------------
(* Small instances of PermitBroker for TLC.                                *)
EXTENDS PermitBroker, TLC

ClientSymmetry == Permutations(Clients)
=============================================================================
