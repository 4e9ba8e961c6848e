-------------------------- MODULE MCArtifactStore --------------------------
(* A small instance of ArtifactStore for TLC: two serializations of one    *)
(* identity.                                                               *)
EXTENDS ArtifactStore, TLC

CONSTANTS a1, a2, i1

MCIdentity == [c \in Contents |-> i1]
StoreSymmetry == Permutations(Processes) \cup Permutations(Pids)
=============================================================================
