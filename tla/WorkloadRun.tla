---------------------------- MODULE WorkloadRun ----------------------------
(***************************************************************************)
(* One isolation-checked execution, from the scratch directory to the      *)
(* receipt: execute_isolation_checked_workload (runner.rs), run_workload   *)
(* (workload.rs), and execute_container_workload and run_container_case    *)
(* (sandbox/container.rs), over the lease registry.  The resources are     *)
(* real here: `world' says what exists, and the registry's evidence is     *)
(* what the receipt will say about it.                                     *)
(*                                                                         *)
(* The workload's container runs in a future of its own that a select      *)
(* races against the readiness of the container; losing the race drops     *)
(* the future wherever it stands.                                          *)
(***************************************************************************)
EXTENDS LeaseRegistry

VARIABLES
  uses,         (* the transports the workload's plan asks for             *)
  world,        (* what became of each resource: none, live, gone          *)
  stage,        (* where the run stands                                    *)
  step,         (* where run_container_case stands, idle outside it        *)
  started,      (* the start marker was created for the ready workload     *)
  execution,    (* execution_result of run_workload                        *)
  transportOK,  (* no transport error was noted                            *)
  requested,    (* the outcome the runner would report: requested_outcome  *)
  complete,     (* execution_complete                                      *)
  termination,  (* the budget's termination, first one wins                *)
  snapshot,     (* the termination as of the budget snapshot               *)
  outcome,      (* the outcome on the persisted receipt, None before       *)
  abandoned     (* history: the container's future was dropped             *)

vars == <<registry, uses, world, stage, step, started, execution, transportOK, requested,
          complete, termination, snapshot, outcome, abandoned>>

None == "None"
Transports == {"broker", "proxy"}
Containers == {"probe", "workload"}
RunResources == {"scratch"} \cup Transports \cup Containers
Terminations == {"CallsExhausted", "CleanupExhausted", "DeadlineExhausted", "Cancelled"}
Outcomes == {"Passed", "Failed", "Partial", "Blocked", "Cancelled"}

ASSUME EveryResource == Resources = RunResources

Init ==
  /\ RegistryInit
  /\ uses \in SUBSET Transports
  /\ world = [r \in Resources |-> "none"]
  /\ stage = "scratch" /\ step = "idle"
  /\ started = FALSE /\ execution = None /\ transportOK = TRUE
  /\ requested = "Blocked" /\ complete = FALSE
  /\ termination = None /\ snapshot = None /\ outcome = None
  /\ abandoned = FALSE

Becomes(r, status) == world' = [world EXCEPT ![r] = status]

(* The sockets of the transports lie inside the scratch directory and go    *)
(* with it.                                                                *)
Remove(r) ==
  world' = [x \in Resources |->
              IF x = r \/ (r = "scratch" /\ x \in Transports /\ world[x] = "live")
              THEN "gone" ELSE world[x]]

verdict == <<requested, complete, termination, snapshot, outcome>>
progress == <<uses, started, execution, transportOK, abandoned>>

(* The cleanup of r ran: removal is certain only when it was verified.     *)
CleanupRan(r, fate) ==
  \/ fate # "unverified" /\ Remove(r)
  \/ fate # "removed" /\ UNCHANGED world

-----------------------------------------------------------------------------
(* Before the workload                                                     *)

(* create_isolation_scratch creates the directory first ...                *)
CreateScratch ==
  /\ stage = "scratch"
  /\ \/ Becomes("scratch", "live") /\ stage' = "secure"
     \/ stage' = "error" /\ UNCHANGED world
  /\ UNCHANGED <<registry, step, progress, verdict>>

(* ... then makes it private, and only then registers its lease.           *)
SecureScratch ==
  /\ stage = "secure"
  /\ \/ RegisterLease("scratch") /\ stage' = "schedule"
     \/ stage' = "error" /\ UNCHANGED registry
  /\ UNCHANGED <<world, step, progress, verdict>>

(* The scheduler, adapter.prepare and validate_workload_request, or the    *)
(* probe's own preparation: an error blocks the run.                       *)
PrepareRun ==
  /\ \/ stage = "schedule" /\ stage' \in {"prepare", "release"}
     \/ stage = "prepare" /\ stage' \in {"probe", "snapshot"}
     \/ stage = "probe" /\ step = "idle" /\ stage' = "snapshot"
  /\ UNCHANGED <<registry, world, step, progress, verdict>>

(* is_backend_verified, then prepare_container_workload: an insufficient   *)
(* assessment leaves the run blocked, a failed preparation makes it        *)
(* partial.                                                                *)
AssessIsolation ==
  /\ stage = "assess"
  /\ \/ stage' = "snapshot" /\ requested' \in {"Blocked", "Partial"}
     \/ stage' = "broker" /\ UNCHANGED requested
  /\ UNCHANGED <<registry, world, step, progress, complete, termination, snapshot, outcome>>

-----------------------------------------------------------------------------
(* run_container_case, for the probe and for the workload                  *)

(* The container's lease is registered before the container is created.    *)
StartCase(c) ==
  /\ stage = c /\ step = "idle"
  /\ RegisterLease(c)
  /\ step' = "create"
  /\ UNCHANGED <<world, stage, progress, verdict>>

(* A failed, cancelled or timed-out creation may still have created it.    *)
CreateContainer(c) ==
  /\ stage = c /\ step = "create"
  /\ \/ Becomes(c, "live") /\ step' = "run" /\ UNCHANGED execution
     \/ /\ Becomes(c, "live") \/ UNCHANGED world
        /\ step' = "cleanup" /\ execution' = "error"
  /\ UNCHANGED <<registry, stage, uses, started, transportOK, abandoned, verdict>>

RunContainer(c) ==
  /\ stage = c /\ step = "run"
  /\ step' = "cleanup"
  /\ execution' \in {"ok", "error"}
  /\ UNCHANGED <<registry, world, stage, uses, started, transportOK, abandoned, verdict>>

AfterCase(c, ok) ==
  /\ step' = "idle"
  /\ stage' = IF c = "workload" THEN "stop_proxy" ELSE IF ok THEN "assess" ELSE "snapshot"

(* cleanup_container verified the removal: the caller says so.             *)
CleanUpCase(c) ==
  /\ stage = c /\ step = "cleanup"
  /\ Becomes(c, "gone")
  /\ CompleteLatestVerified
  /\ AfterCase(c, execution = "ok")
  /\ UNCHANGED <<progress, verdict>>

(* Mutant: the caller completes the lease although its cleanup failed.     *)
RecoverByRecord(c) ==
  /\ stage = c /\ step = "cleanup"
  /\ CompleteLatestVerified /\ UNCHANGED world
  /\ execution' = "error"
  /\ AfterCase(c, FALSE)
  /\ UNCHANGED <<uses, started, transportOK, abandoned, verdict>>

(* It did not: the lease's own cleanup runs, and the case is an error.     *)
RecoverCase(c) ==
  /\ stage = c /\ step = "cleanup"
  /\ \E fate \in Fates : ReleaseLatest(fate) /\ CleanupRan(Latest, fate)
  /\ execution' = "error"
  /\ AfterCase(c, FALSE)
  /\ UNCHANGED <<uses, started, transportOK, abandoned, verdict>>

-----------------------------------------------------------------------------
(* run_workload                                                            *)

(* A transport is bound, then leased.  An error ends run_workload at once: *)
(* the drop of a broker already started tries to remove its socket, but a  *)
(* proxy that fails after it bound its own has no owner yet and leaves it. *)
StartTransport(t, next) ==
  /\ stage = t
  /\ IF t \notin uses
     THEN stage' = next /\ UNCHANGED <<registry, world, requested>>
     ELSE \/ /\ Becomes(t, "live") /\ RegisterLease(t)
             /\ stage' = next /\ UNCHANGED requested
          \/ /\ \/ UNCHANGED world
                \/ t = "proxy" /\ \E status \in {"none", "live"} :
                     world' = [world EXCEPT ![t] = status,
                                            !["broker"] = IF @ = "live" THEN "gone" ELSE @]
                \/ t = "proxy" /\ Becomes(t, "live")
             /\ stage' = "snapshot" /\ requested' = "Partial" /\ UNCHANGED registry
  /\ UNCHANGED <<step, progress, complete, termination, snapshot, outcome>>

(* The proxy's certificate or the image inspection fails before the case.  *)
FailBeforeLaunch ==
  /\ stage = "workload" /\ step = "idle"
  /\ execution' = "error" /\ stage' = "stop_proxy"
  /\ UNCHANGED <<registry, world, step, uses, started, transportOK, abandoned, verdict>>

(* The workload wrote its ready marker, its peer was corroborated, and the *)
(* start marker was created: from here on only the case is awaited.        *)
StartWorkload ==
  /\ stage = "workload" /\ step = "run" /\ ~started
  /\ started' = TRUE
  /\ UNCHANGED <<registry, world, stage, step, uses, execution, transportOK, abandoned,
                 verdict>>

(* The startup ceiling, a cancellation, a failed peer inspection or a      *)
(* failed start marker: the error leaves the function while the case is    *)
(* still pending, and drops it where it stands.                            *)
AbandonStartup ==
  /\ stage = "workload" /\ step # "idle" /\ ~started
  /\ abandoned' = TRUE /\ execution' = "error"
  /\ step' = "idle" /\ stage' = "stop_proxy"
  /\ UNCHANGED <<registry, world, uses, started, transportOK, verdict>>

(* shutdown of a transport: its task is joined and its socket removed; if  *)
(* either fails, the drop of the transport tries the socket once more.     *)
StopTransport(t, place, next) ==
  /\ stage = place /\ step = "idle"
  /\ IF t \notin uses
     THEN stage' = next /\ UNCHANGED <<world, step, transportOK>>
     ELSE /\ UNCHANGED stage
          /\ \/ step' = "stopped" /\ Becomes(t, "gone") /\ UNCHANGED transportOK
             \/ /\ step' = "failed" /\ transportOK' = FALSE
                /\ Becomes(t, "gone") \/ UNCHANGED world
  /\ UNCHANGED <<registry, uses, started, execution, abandoned, verdict>>

(* A stopped transport completes the latest lease, a failed one releases   *)
(* it; evidence that is not verified is a transport error as well.         *)
SettleTransport(t, place, next) ==
  /\ stage = place /\ stage' = next /\ step' = "idle"
  /\ \/ step = "stopped" /\ CompleteLatestVerified /\ UNCHANGED world
     \/ /\ step = "failed"
        /\ \E fate \in Fates : ReleaseLatest(fate) /\ CleanupRan(Latest, fate)
  /\ UNCHANGED <<progress, verdict>>

(* The rest of run_workload: errors become a partial run, an incomplete    *)
(* result is partial or blocked, and the adapter judges a complete one.    *)
Collect ==
  /\ stage = "collect"
  /\ stage' = "snapshot"
  /\ \/ requested' \in {"Partial", "Blocked"} /\ UNCHANGED complete
     \/ /\ execution = "ok" /\ transportOK
        /\ requested' \in {"Passed", "Failed", "Partial"}
        /\ complete' \in BOOLEAN
  /\ (execution # "ok" \/ ~transportOK) => requested' = "Partial"
  /\ UNCHANGED <<registry, world, step, progress, termination, snapshot, outcome>>

-----------------------------------------------------------------------------
(* The end of the run                                                      *)

TakeSnapshot ==
  /\ stage = "snapshot"
  /\ snapshot' = termination /\ stage' = "release"
  /\ UNCHANGED <<registry, world, step, progress, requested, complete, termination, outcome>>

(* Mutant: release_all goes through the leases in registration order.      *)
ReleaseOldest ==
  /\ stage = "release" /\ leases # <<>>
  /\ \E fate \in Fates :
       /\ completed' = Append(completed, Evidence(Head(leases), fate))
       /\ leases' = Tail(leases)
       /\ CleanupRan(Head(leases), fate)
  /\ UNCHANGED <<stage, step, progress, verdict>>

(* release_all: what is left on the stack, the latest first.               *)
ReleaseNext ==
  /\ stage = "release" /\ leases # <<>>
  /\ \E fate \in Fates : ReleaseLatest(fate) /\ CleanupRan(Latest, fate)
  /\ UNCHANGED <<stage, step, progress, verdict>>

(* Mutant: incomplete cleanup does not change the outcome.                 *)
FinalizeUncleaned ==
  IF snapshot = "Cancelled" THEN "Cancelled"
  ELSE IF requested = "Blocked" THEN "Blocked"
  ELSE IF snapshot # None \/ ~complete THEN "Partial"
  ELSE requested

(* Mutant: only a cancellation is looked at.                               *)
FinalizeExhausted ==
  IF snapshot = "Cancelled" THEN "Cancelled"
  ELSE IF requested = "Blocked" THEN "Blocked"
  ELSE IF \/ ~complete
          \/ \E i \in DOMAIN completed : ~(completed[i].released /\ completed[i].verified)
       THEN "Partial"
  ELSE requested

(* Mutant: the termination is reported in place of an outcome.             *)
FinalizeRaw ==
  IF requested = "Blocked" THEN "Blocked"
  ELSE IF snapshot # None THEN snapshot
  ELSE requested

FinalizeOutcome ==
  IF snapshot = "Cancelled" THEN "Cancelled"
  ELSE IF requested = "Blocked" THEN "Blocked"
  ELSE IF \/ snapshot # None
          \/ ~complete
          \/ \E i \in DOMAIN completed : ~(completed[i].released /\ completed[i].verified)
       THEN "Partial"
  ELSE requested

(* The store may refuse the receipt: the run is then an error without one. *)
WriteReceipt ==
  /\ stage = "release" /\ leases = <<>>
  /\ \/ stage' = "done" /\ outcome' = FinalizeOutcome
     \/ stage' = "error" /\ UNCHANGED outcome
  /\ UNCHANGED <<registry, world, step, progress, requested, complete, termination, snapshot>>

(* The interrupt handler, or the budget itself, while the scheduler lives. *)
TerminateBudget ==
  /\ stage \in {"prepare", "probe", "assess", "broker", "proxy", "workload", "stop_proxy",
                "stop_broker", "collect", "snapshot"}
  /\ termination = None
  /\ termination' \in Terminations
  /\ UNCHANGED <<registry, world, stage, step, progress, requested, complete, snapshot,
                 outcome>>

Ended == stage \in {"done", "error"} /\ UNCHANGED vars

Forward ==
  \/ CreateScratch \/ SecureScratch \/ PrepareRun \/ AssessIsolation
  \/ \E c \in Containers : \/ StartCase(c) \/ CreateContainer(c) \/ RunContainer(c)
                           \/ CleanUpCase(c) \/ RecoverCase(c)
  \/ StartTransport("broker", "proxy") \/ StartTransport("proxy", "workload")
  \/ FailBeforeLaunch \/ StartWorkload \/ AbandonStartup
  \/ StopTransport("proxy", "stop_proxy", "stop_broker")
  \/ SettleTransport("proxy", "stop_proxy", "stop_broker")
  \/ StopTransport("broker", "stop_broker", "collect")
  \/ SettleTransport("broker", "stop_broker", "collect")
  \/ Collect \/ TakeSnapshot \/ ReleaseNext \/ WriteReceipt

Next == Forward \/ TerminateBudget \/ Ended

Spec == Init /\ [][Next]_vars

-----------------------------------------------------------------------------
(* Properties                                                              *)

(* The variables keep their types.                                         *)
TypeOK ==
  /\ RegistryTypeOK
  /\ uses \subseteq Transports
  /\ world \in [Resources -> {"none", "live", "gone"}]
  /\ stage \in {"scratch", "secure", "schedule", "prepare", "probe", "assess", "broker",
                "proxy", "workload", "stop_proxy", "stop_broker", "collect", "snapshot",
                "release", "done", "error"}
  /\ step \in {"idle", "create", "run", "cleanup", "stopped", "failed"}
  /\ started \in BOOLEAN /\ transportOK \in BOOLEAN /\ complete \in BOOLEAN
  /\ abandoned \in BOOLEAN
  /\ execution \in {None, "ok", "error"}
  /\ requested \in Outcomes
  /\ termination \in Terminations \cup {None} /\ snapshot \in Terminations \cup {None}
  /\ outcome \in Outcomes \cup {None}

Verified(r) == \E i \in DOMAIN completed : completed[i].resource = r /\ completed[i].verified
HasEvidence(r) == \E i \in DOMAIN completed : completed[i].resource = r
IsLeased(r) == \E i \in DOMAIN leases : leases[i] = r

(* A run reported as passed or failed left nothing behind: whatever mixture *)
(* of fallbacks, transport errors and abandoned startups preceded it, no    *)
(* container, socket or scratch directory of the run still exists.          *)
JudgedRunsAreClean ==
  outcome \in {"Passed", "Failed"} => \A r \in Resources : world[r] # "live"

(* Once the container startup was not abandoned, the evidence is true: a    *)
(* release recorded as verified names a resource that is gone.              *)
EvidenceIsTrue ==
  ~abandoned => \A r \in Resources : Verified(r) => world[r] = "gone"

(* A receipt accounts for everything that is left: a resource still there   *)
(* has its line of cleanup evidence, its own or that of the scratch         *)
(* directory it lies in, and no lease is accounted for twice.               *)
ReceiptAccountsForAll ==
  /\ outcome # None =>
       \A r \in Resources :
         world[r] = "live" =>
           \/ HasEvidence(r)
           \/ /\ r \in Transports
              /\ world["scratch"] = "live" /\ HasEvidence("scratch")
  /\ \A i, j \in DOMAIN completed :
       completed[i].resource = completed[j].resource => i = j
  /\ \A r \in Resources : ~(IsLeased(r) /\ HasEvidence(r))

(* A run whose budget stopped for any reason before its snapshot, above all *)
(* an interrupted one, is never reported as passed or failed.               *)
StoppedRunsAreNotJudged ==
  outcome \in {"Passed", "Failed"} => termination = None

(* The scratch directory holds the container client's configuration, which  *)
(* every container cleanup needs: it is removed after all other leases.     *)
ScratchGoesLast ==
  [][world["scratch"] = "live" /\ world'["scratch"] = "gone" => leases' = <<>>]_vars

(* The design: the receipt records each verified release.  A release        *)
(* recorded as verified means the resource is not there any more.           *)
VerifiedMeansGone ==
  \A r \in Resources : Verified(r) => world[r] # "live"

(* The design: every acquired resource registers a lease before it becomes  *)
(* visible.                                                                 *)
LeasedBeforeVisible ==
  \A r \in Resources : world[r] = "live" => IsLeased(r) \/ HasEvidence(r)
=============================================================================
