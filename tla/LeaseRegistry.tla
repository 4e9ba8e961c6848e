--------------------------- MODULE LeaseRegistry ---------------------------
(***************************************************************************)
(* The lease registry of an execution (src/src/execution/lease.rs): a      *)
(* stack of cleanup actions and the list of evidence they left.  A lease   *)
(* is taken off the stack either by running its cleanup, or by a caller    *)
(* that says it has already cleaned up.  The registry does not know which  *)
(* resource a caller means: both operations take the latest lease.         *)
(***************************************************************************)
EXTENDS Sequences, Naturals

CONSTANT Resources   (* what leases are registered for                     *)

VARIABLES
  leases,      (* LeaseRegistry.leases, the latest last                    *)
  completed    (* LeaseRegistry.completed                                  *)

registry == <<leases, completed>>

(* What running a cleanup action can come to: it removed the resource, it  *)
(* could not verify the removal, or it failed or panicked.                 *)
Fates == {"removed", "unverified", "error"}

Evidence(resource, fate) ==
  [resource |-> resource, released |-> fate # "error", verified |-> fate = "removed"]

Latest == leases[Len(leases)]
AllButLatest == SubSeq(leases, 1, Len(leases) - 1)

RegistryInit == leases = <<>> /\ completed = <<>>

RegisterLease(resource) ==
  /\ leases' = Append(leases, resource)
  /\ UNCHANGED completed

(* Evidence of a verified release, without running the cleanup.            *)
CompleteLatestVerified ==
  /\ leases # <<>>
  /\ completed' = Append(completed, Evidence(Latest, "removed"))
  /\ leases' = AllButLatest

(* Mutant: a cleanup that fails takes its lease away without evidence.     *)
ReleaseSilently(fate) ==
  /\ leases # <<>>
  /\ completed' = IF fate = "error" THEN completed
                  ELSE Append(completed, Evidence(Latest, fate))
  /\ leases' = AllButLatest

(* The latest lease's cleanup runs and comes to the given fate.            *)
ReleaseLatest(fate) ==
  /\ leases # <<>>
  /\ completed' = Append(completed, Evidence(Latest, fate))
  /\ leases' = AllButLatest

RegistryTypeOK ==
  /\ leases \in Seq(Resources)
  /\ completed \in Seq([resource : Resources, released : BOOLEAN, verified : BOOLEAN])
=============================================================================
