--------------------------- MODULE MCWorkloadRun ---------------------------
(* WorkloadRun has no parameter but its fixed set of resources.            *)
EXTENDS WorkloadRun

MCResources == RunResources
=============================================================================
