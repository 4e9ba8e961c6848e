-------------------------- MODULE WorkloadRunProofs --------------------------
(***************************************************************************)
(* What holds of every run, whatever fails and wherever it is stopped.     *)
(* The stack of leases has a shape that the place of the run determines,   *)
(* up to one lease that an abandoned startup leaves on top; who releases   *)
(* the latest lease therefore knows which one it is as long as nothing     *)
(* was abandoned, and an abandoned run is never judged.                    *)
(***************************************************************************)
EXTENDS WorkloadRun, TLAPS

Leased == {leases[i] : i \in DOMAIN leases}
Recorded == {completed[i].resource : i \in DOMAIN completed}
RecordedGone == {completed[i].resource : i \in {j \in DOMAIN completed : completed[j].verified}}

Late == {"snapshot", "release", "done", "error"}
Early == {"scratch", "secure"}
Stopping == {"stop_proxy", "stop_broker"}

(* The stack as the stages before the release build it up.                 *)
Bottom == <<"scratch">>
WithBroker == IF "broker" \in uses THEN Append(Bottom, "broker") ELSE Bottom
WithTransports == IF "proxy" \in uses THEN Append(WithBroker, "proxy") ELSE WithBroker

(* Where step may stand; a transport that says it stopped has no socket.   *)
StepInv ==
  /\ stage \notin Containers \cup Stopping => step = "idle"
  /\ stage \in Containers => step \in {"idle", "create", "run", "cleanup"}
  /\ stage \in Stopping => step \in {"idle", "stopped", "failed"}
  /\ stage = "stop_proxy" /\ step # "idle" => "proxy" \in uses
  /\ stage = "stop_broker" /\ step # "idle" => "broker" \in uses
  /\ stage = "stop_proxy" /\ step = "stopped" => world["proxy"] = "gone"
  /\ stage = "stop_broker" /\ step = "stopped" => world["broker"] = "gone"

(* The snapshot is the last word on the budget, and the outcome follows    *)
(* from it, the evidence and the request.                                  *)
VerdictInv ==
  /\ stage \in Early \cup {"schedule"} => termination = None
  /\ stage \notin {"release", "done", "error"} => snapshot = None
  /\ stage \in {"release", "done"} => snapshot = termination
  /\ outcome # None => stage = "done" /\ leases = <<>> /\ outcome = FinalizeOutcome

(* A complete run was not abandoned.                                       *)
CompleteInv ==
  /\ abandoned => execution = "error" /\ stage \in Stopping \cup {"collect"} \cup Late
  /\ complete => execution = "ok" /\ stage \in Late

(* The shape of the stack; an abandoned startup has one lease more.        *)
StackInv ==
  /\ stage \in Early => leases = <<>> /\ completed = <<>>
  /\ stage \in {"schedule", "prepare", "assess", "broker"} => leases = Bottom
  /\ stage = "probe" =>
       leases = IF step = "idle" THEN Bottom ELSE Append(Bottom, "probe")
  /\ stage = "proxy" => leases = WithBroker
  /\ stage = "workload" =>
       leases = IF step = "idle" THEN WithTransports ELSE Append(WithTransports, "workload")
  /\ stage = "stop_proxy" =>
       leases = IF abandoned THEN Append(WithTransports, "workload") ELSE WithTransports
  /\ stage = "stop_broker" =>
       IF abandoned THEN \E r \in {"proxy", "workload"} : leases = Append(WithBroker, r)
       ELSE leases = WithBroker
  /\ stage = "collect" =>
       IF abandoned THEN \E r \in {"broker", "proxy", "workload"} : leases = Append(Bottom, r)
       ELSE leases = Bottom

(* Each resource is leased once and recorded once, never both, and the     *)
(* scratch directory lies below all others.                                *)
OnceInv ==
  /\ \A i, j \in DOMAIN leases : leases[i] = leases[j] => i = j
  /\ \A i, j \in DOMAIN completed : completed[i].resource = completed[j].resource => i = j
  /\ Leased \cap Recorded = {}
  /\ leases # <<>> => leases[1] = "scratch"

(* What the run has not come to yet is neither leased nor recorded.        *)
Ahead ==
  {r \in Resources :
     \/ stage \in Early
     \/ stage \in {"schedule", "prepare"} /\ r # "scratch"
     \/ stage = "probe" /\ step = "idle" /\ r # "scratch"
     \/ stage \in {"probe", "assess", "broker"} /\ r \in Transports \cup {"workload"}
     \/ stage = "proxy" /\ r \in {"proxy", "workload"}
     \/ stage = "workload" /\ step = "idle" /\ r = "workload"}
FreshInv == Ahead \cap (Leased \cup Recorded) = {}

(* The scratch directory is there from its lease to the release.           *)
ScratchInv ==
  /\ stage = "secure" => world["scratch"] = "live"
  /\ stage \notin Early \cup Late => world["scratch"] = "live" /\ "scratch" \in Leased

(* What is recorded as gone is gone.                                       *)
TruthInv == ~abandoned => \A r \in RecordedGone : world[r] = "gone"

(* Whatever exists is leased or recorded, but for a scratch directory that *)
(* could not be made private and for the sockets of a failed start, which  *)
(* lie in a scratch directory that is.                                     *)
AccountInv ==
  \A r \in Resources : world[r] = "live" =>
    \/ r \in Leased \cup Recorded
    \/ r = "scratch" /\ stage \in {"secure", "error"}
    \/ /\ r \in Transports /\ ~complete /\ stage \in Late
       /\ world["scratch"] = "live" /\ "scratch" \in Leased \cup Recorded

IInv == TypeOK /\ StepInv /\ VerdictInv /\ CompleteInv /\ StackInv /\ OnceInv /\ FreshInv
          /\ ScratchInv /\ TruthInv /\ AccountInv

-----------------------------------------------------------------------------
(* The registry's operations, by what they do to the sets of resources.    *)

LEMMA RegistryUntouched ==
  ASSUME UNCHANGED registry
  PROVE  /\ leases' = leases /\ completed' = completed
         /\ Leased' = Leased /\ Recorded' = Recorded /\ RecordedGone' = RecordedGone
BY DEF registry, Leased, Recorded, RecordedGone

LEMMA Registers ==
  ASSUME RegistryTypeOK, NEW r \in Resources, RegisterLease(r), OnceInv,
         r \notin Leased \cup Recorded, leases = <<>> => r = "scratch"
  PROVE  /\ leases' = Append(leases, r) /\ completed' = completed
         /\ RegistryTypeOK' /\ OnceInv'
         /\ Leased' = Leased \cup {r} /\ Recorded' = Recorded /\ RecordedGone' = RecordedGone
<1> USE DEF RegisterLease
<1>1. RegistryTypeOK'
  BY DEF RegistryTypeOK
<1>2. /\ Len(leases') = Len(leases) + 1 /\ leases'[Len(leases) + 1] = r
      /\ \A i \in 1..Len(leases) : leases'[i] = leases[i]
      /\ DOMAIN leases' = 1..(Len(leases) + 1) /\ DOMAIN leases = 1..Len(leases)
      /\ Len(leases) \in Nat
  BY DEF RegistryTypeOK
<1>3. Leased' = Leased \cup {r}
  BY <1>2 DEF Leased
<1>4. Recorded' = Recorded /\ RecordedGone' = RecordedGone
  BY DEF Recorded, RecordedGone
<1>5. OnceInv'
  <2>1. \A i, j \in DOMAIN leases' : leases'[i] = leases'[j] => i = j
    BY <1>2 DEF OnceInv, Leased
  <2>2. (Leased \cap Recorded)' = {}
    BY <1>3, <1>4 DEF OnceInv
  <2>3. leases'[1] = "scratch"
    BY <1>2 DEF OnceInv, RegistryTypeOK
  <2> QED BY <2>1, <2>2, <2>3 DEF OnceInv
<1> QED BY <1>1, <1>3, <1>4, <1>5

(* Taking the latest lease off, with or without its cleanup.               *)
LEMMA Releases ==
  ASSUME RegistryTypeOK, NEW fate \in Fates, ReleaseLatest(fate), OnceInv
  PROVE  /\ leases # <<>> /\ Latest \in Leased /\ RegistryTypeOK' /\ OnceInv'
         /\ leases' = AllButLatest
         /\ Leased' = Leased \ {Latest} /\ Recorded' = Recorded \cup {Latest}
         /\ RecordedGone' = IF fate = "removed" THEN RecordedGone \cup {Latest}
                            ELSE RecordedGone
<1> USE DEF ReleaseLatest, Latest, AllButLatest
<1>1. /\ Len(leases) \in Nat \ {0} /\ DOMAIN leases = 1..Len(leases)
      /\ \A i \in 1..Len(leases) : leases[i] \in Resources
  BY DEF RegistryTypeOK
<1>2. /\ leases' \in Seq(Resources) /\ Len(leases') = Len(leases) - 1
      /\ DOMAIN leases' = 1..(Len(leases) - 1)
      /\ \A i \in 1..(Len(leases) - 1) : leases'[i] = leases[i]
  BY <1>1 DEF RegistryTypeOK
<1> DEFINE new == Evidence(Latest, fate)
<1>3. /\ new \in [resource : Resources, released : BOOLEAN, verified : BOOLEAN]
      /\ new.resource = Latest /\ (new.verified <=> fate = "removed")
  <2> DEFINE released == fate # "error"
             verified == fate = "removed"
  <2>1. released \in BOOLEAN /\ verified \in BOOLEAN
    BY Zenon
  <2>2. new = [resource |-> Latest, released |-> released, verified |-> verified]
    BY Zenon DEF Evidence
  <2>3. Latest \in Resources
    BY <1>1
  <2> HIDE DEF new, released, verified, Latest
  <2>4. /\ new \in [resource : Resources, released : BOOLEAN, verified : BOOLEAN]
        /\ new.resource = Latest /\ new.verified = verified
    BY <2>1, <2>2, <2>3
  <2> QED BY <2>4 DEF verified
<1>4. completed' = Append(completed, new)
  OBVIOUS
<1> HIDE DEF new
<1>5. /\ RegistryTypeOK'
      /\ Len(completed) \in Nat /\ DOMAIN completed = 1..Len(completed)
      /\ DOMAIN completed' = 1..(Len(completed) + 1)
      /\ completed'[Len(completed) + 1] = new
      /\ \A i \in 1..Len(completed) : completed'[i] = completed[i]
  BY <1>2, <1>3, <1>4 DEF RegistryTypeOK
<1>6. Latest \in Leased
  BY <1>1 DEF Leased
<1>7. Leased' = Leased \ {Latest}
  <2>1. \A i \in DOMAIN leases : leases[i] = Latest => i = Len(leases)
    BY <1>1 DEF OnceInv
  <2>2. \A i \in DOMAIN leases' :
          i \in DOMAIN leases /\ leases'[i] = leases[i] /\ i # Len(leases)
    BY <1>1, <1>2
  <2>3. \A i \in DOMAIN leases :
          i # Len(leases) => i \in DOMAIN leases' /\ leases'[i] = leases[i]
    BY <1>1, <1>2
  <2>4. Latest = leases[Len(leases)]
    OBVIOUS
  <2> HIDE DEF Latest
  <2>5. Leased' \subseteq Leased \ {Latest}
    BY <2>1, <2>2 DEF Leased
  <2>6. Leased \ {Latest} \subseteq Leased'
    BY <2>3, <2>4 DEF Leased
  <2> QED BY <2>5, <2>6
<1>8. Recorded' = Recorded \cup {Latest}
  BY <1>3, <1>5 DEF Recorded
<1>9. RecordedGone' = IF fate = "removed" THEN RecordedGone \cup {Latest} ELSE RecordedGone
  <2>1. \A j \in DOMAIN completed : completed'[j] = completed[j] /\ j \in DOMAIN completed'
    BY <1>5
  <2>2. \A j \in DOMAIN completed' : j \in DOMAIN completed \/ completed'[j] = new
    BY <1>5
  <2>3. Len(completed) + 1 \in DOMAIN completed' /\ completed'[Len(completed) + 1] = new
    BY <1>5
  <2>4. RecordedGone \subseteq RecordedGone'
    BY <2>1 DEF RecordedGone
  <2>5. fate = "removed" => Latest \in RecordedGone'
    BY <1>3, <2>3 DEF RecordedGone
  <2>6. RecordedGone' \subseteq RecordedGone \cup {Latest}
    BY <1>3, <2>1, <2>2 DEF RecordedGone
  <2>7. fate # "removed" => RecordedGone' \subseteq RecordedGone
    BY <1>3, <2>1, <2>2 DEF RecordedGone
  <2> QED BY <2>4, <2>5, <2>6, <2>7
<1>10. OnceInv'
  <2>1. \A i, j \in DOMAIN leases' : leases'[i] = leases'[j] => i = j
    BY <1>1, <1>2 DEF OnceInv
  <2>2. \A i, j \in DOMAIN completed' :
          completed'[i].resource = completed'[j].resource => i = j
    BY <1>3, <1>5, <1>6 DEF OnceInv, Recorded
  <2>3. (Leased \cap Recorded)' = {}
    BY <1>7, <1>8 DEF OnceInv
  <2>4. leases' # <<>> => leases'[1] = "scratch"
    BY <1>1, <1>2 DEF OnceInv
  <2> QED BY <2>1, <2>2, <2>3, <2>4 DEF OnceInv
<1> QED BY <1>5, <1>6, <1>7, <1>8, <1>9, <1>10

(* Leases and evidence are about resources.                                *)
LEMMA RegistryIsAboutResources ==
  ASSUME RegistryTypeOK
  PROVE  RecordedGone \subseteq Recorded /\ Recorded \subseteq Resources /\ Leased \subseteq Resources
<1>1. RecordedGone \subseteq Recorded
  BY DEF Recorded, RecordedGone
<1>2. \A i \in DOMAIN completed : completed[i].resource \in Resources
  <2> TAKE i \in DOMAIN completed
  <2> DEFINE lines == [resource : Resources, released : BOOLEAN, verified : BOOLEAN]
  <2>1. completed \in Seq(lines)
    BY DEF RegistryTypeOK
  <2>2. \A line \in lines : line.resource \in Resources
    OBVIOUS
  <2> HIDE DEF lines
  <2>3. completed[i] \in lines
    BY <2>1
  <2> QED BY <2>2, <2>3
<1>3. \A i \in DOMAIN leases : leases[i] \in Resources
  BY DEF RegistryTypeOK
<1> QED BY <1>1, <1>2, <1>3 DEF Leased, Recorded

(* Completing as verified is a release that leaves verified evidence.      *)
LEMMA CompletesAsReleased == CompleteLatestVerified => ReleaseLatest("removed") /\ "removed" \in Fates
BY DEF CompleteLatestVerified, ReleaseLatest, Fates

(* The latest lease of a stack with r on top is r.                         *)
LEMMA TopOfStack ==
  ASSUME NEW below, below \in Seq(Resources), NEW r \in Resources, leases = Append(below, r)
  PROVE  Latest = r /\ AllButLatest = below
<1>1. Len(leases) = Len(below) + 1 /\ leases[Len(below) + 1] = r /\ Len(below) \in Nat
  OBVIOUS
<1>2. SubSeq(leases, 1, Len(below)) = below
  OBVIOUS
<1> QED BY <1>1, <1>2 DEF Latest, AllButLatest

(* The stacks are made of resources.                                       *)
LEMMA Stacks ==
  /\ Bottom \in Seq(Resources) /\ WithBroker \in Seq(Resources)
  /\ WithTransports \in Seq(Resources)
  /\ Containers \cup Transports \cup {"scratch"} = Resources
<1> USE EveryResource DEF RunResources, Transports, Containers
<1>1. Bottom \in Seq(Resources)
  BY DEF Bottom
<1>2. WithBroker \in Seq(Resources)
  BY <1>1 DEF WithBroker
<1>3. WithTransports \in Seq(Resources)
  BY <1>2 DEF WithTransports
<1> QED BY <1>1, <1>2, <1>3

-----------------------------------------------------------------------------
(* Steps that touch neither a resource nor a lease.                        *)

(* What precedes the workload only moves the run on.                       *)
LEMMA PrepareRunKeeps ==
  ASSUME IInv, PrepareRun
  PROVE  IInv'
<1> USE DEF IInv, PrepareRun, progress, verdict
<1>0. world' = world /\ UNCHANGED registry
  OBVIOUS
<1>1. TypeOK'
  BY <1>0, RegistryUntouched DEF TypeOK, RegistryTypeOK, Outcomes, Terminations
<1>2. StepInv' /\ VerdictInv' /\ CompleteInv'
  BY <1>0, RegistryUntouched
  DEF TypeOK, StepInv, VerdictInv, CompleteInv, Containers, Stopping, Early, Late
<1>3. StackInv'
  BY <1>0, RegistryUntouched
  DEF StackInv, StepInv, CompleteInv, WithBroker, WithTransports, Containers, Stopping, Early, Late
<1>4. OnceInv' /\ FreshInv' /\ ScratchInv'
  BY <1>0, RegistryUntouched
  DEF OnceInv, FreshInv, ScratchInv, Ahead, Containers, Transports, Early, Late
<1>5. TruthInv' /\ AccountInv'
  BY <1>0, RegistryUntouched DEF TruthInv, AccountInv, CompleteInv, Containers, Transports, Late
<1> QED BY <1>1, <1>2, <1>3, <1>4, <1>5

(* So does the assessment; a blocked run is not complete.                  *)
LEMMA AssessIsolationKeeps ==
  ASSUME IInv, AssessIsolation
  PROVE  IInv'
<1> USE DEF IInv, AssessIsolation, progress, verdict
<1>0. world' = world /\ UNCHANGED registry
  OBVIOUS
<1>1. TypeOK'
  BY <1>0, RegistryUntouched DEF TypeOK, RegistryTypeOK, Outcomes, Terminations
<1>2. StepInv' /\ VerdictInv' /\ CompleteInv'
  BY <1>0, RegistryUntouched
  DEF TypeOK, StepInv, VerdictInv, CompleteInv, Containers, Stopping, Early, Late
<1>3. StackInv'
  BY <1>0, RegistryUntouched
  DEF StackInv, StepInv, CompleteInv, WithBroker, WithTransports, Containers, Stopping, Early, Late
<1>4. OnceInv' /\ FreshInv' /\ ScratchInv'
  BY <1>0, RegistryUntouched
  DEF OnceInv, FreshInv, ScratchInv, Ahead, Containers, Transports, Early, Late
<1>5. TruthInv' /\ AccountInv'
  BY <1>0, RegistryUntouched DEF TruthInv, AccountInv, CompleteInv, Containers, Transports, Late
<1> QED BY <1>1, <1>2, <1>3, <1>4, <1>5

(* Running the container changes nothing that is accounted for.            *)
LEMMA RunContainerKeeps ==
  ASSUME IInv, NEW c \in Containers, RunContainer(c)
  PROVE  IInv'
<1> USE DEF IInv, RunContainer, progress, verdict
<1>0. world' = world /\ UNCHANGED registry
  OBVIOUS
<1>1. TypeOK'
  BY <1>0, RegistryUntouched DEF TypeOK, RegistryTypeOK, Outcomes, Terminations
<1>2. StepInv' /\ VerdictInv' /\ CompleteInv'
  BY <1>0, RegistryUntouched
  DEF TypeOK, StepInv, VerdictInv, CompleteInv, Containers, Stopping, Early, Late
<1>3. StackInv'
  BY <1>0, RegistryUntouched
  DEF StackInv, StepInv, CompleteInv, WithBroker, WithTransports, Containers, Stopping, Early, Late
<1>4. OnceInv' /\ FreshInv' /\ ScratchInv'
  BY <1>0, RegistryUntouched
  DEF OnceInv, FreshInv, ScratchInv, Ahead, Containers, Transports, Early, Late
<1>5. TruthInv' /\ AccountInv'
  BY <1>0, RegistryUntouched DEF TruthInv, AccountInv, CompleteInv, Containers, Transports, Late
<1> QED BY <1>1, <1>2, <1>3, <1>4, <1>5

(* An early error goes to the stopping of the transports.                  *)
LEMMA FailBeforeLaunchKeeps ==
  ASSUME IInv, FailBeforeLaunch
  PROVE  IInv'
<1> USE DEF IInv, FailBeforeLaunch, progress, verdict
<1>0. world' = world /\ UNCHANGED registry
  OBVIOUS
<1>1. TypeOK'
  BY <1>0, RegistryUntouched DEF TypeOK, RegistryTypeOK, Outcomes, Terminations
<1>2. StepInv' /\ VerdictInv' /\ CompleteInv'
  BY <1>0, RegistryUntouched
  DEF TypeOK, StepInv, VerdictInv, CompleteInv, Containers, Stopping, Early, Late
<1>3. StackInv'
  BY <1>0, RegistryUntouched
  DEF StackInv, StepInv, CompleteInv, WithBroker, WithTransports, Containers, Stopping, Early, Late
<1>4. OnceInv' /\ FreshInv' /\ ScratchInv'
  BY <1>0, RegistryUntouched
  DEF OnceInv, FreshInv, ScratchInv, Ahead, Containers, Transports, Early, Late
<1>5. TruthInv' /\ AccountInv'
  BY <1>0, RegistryUntouched DEF TruthInv, AccountInv, CompleteInv, Containers, Transports, Late
<1> QED BY <1>1, <1>2, <1>3, <1>4, <1>5

(* The start marker changes nothing else.                                  *)
LEMMA StartWorkloadKeeps ==
  ASSUME IInv, StartWorkload
  PROVE  IInv'
<1> USE DEF IInv, StartWorkload, progress, verdict
<1>0. world' = world /\ UNCHANGED registry
  OBVIOUS
<1>1. TypeOK'
  BY <1>0, RegistryUntouched DEF TypeOK, RegistryTypeOK, Outcomes, Terminations
<1>2. StepInv' /\ VerdictInv' /\ CompleteInv'
  BY <1>0, RegistryUntouched
  DEF TypeOK, StepInv, VerdictInv, CompleteInv, Containers, Stopping, Early, Late
<1>3. StackInv'
  BY <1>0, RegistryUntouched
  DEF StackInv, StepInv, CompleteInv, WithBroker, WithTransports, Containers, Stopping, Early, Late
<1>4. OnceInv' /\ FreshInv' /\ ScratchInv'
  BY <1>0, RegistryUntouched
  DEF OnceInv, FreshInv, ScratchInv, Ahead, Containers, Transports, Early, Late
<1>5. TruthInv' /\ AccountInv'
  BY <1>0, RegistryUntouched DEF TruthInv, AccountInv, CompleteInv, Containers, Transports, Late
<1> QED BY <1>1, <1>2, <1>3, <1>4, <1>5

(* An abandoned startup leaves the container's lease on top.               *)
LEMMA AbandonStartupKeeps ==
  ASSUME IInv, AbandonStartup
  PROVE  IInv'
<1> USE DEF IInv, AbandonStartup, progress, verdict
<1>0. world' = world /\ UNCHANGED registry
  OBVIOUS
<1>1. TypeOK'
  BY <1>0, RegistryUntouched DEF TypeOK, RegistryTypeOK, Outcomes, Terminations
<1>2. StepInv' /\ VerdictInv' /\ CompleteInv'
  BY <1>0, RegistryUntouched
  DEF TypeOK, StepInv, VerdictInv, CompleteInv, Containers, Stopping, Early, Late
<1>3. StackInv'
  BY <1>0, RegistryUntouched
  DEF StackInv, StepInv, CompleteInv, WithBroker, WithTransports, Containers, Stopping, Early, Late
<1>4. OnceInv' /\ FreshInv' /\ ScratchInv'
  BY <1>0, RegistryUntouched
  DEF OnceInv, FreshInv, ScratchInv, Ahead, Containers, Transports, Early, Late
<1>5. TruthInv' /\ AccountInv'
  BY <1>0, RegistryUntouched DEF TruthInv, AccountInv, CompleteInv, Containers, Transports, Late
<1> QED BY <1>1, <1>2, <1>3, <1>4, <1>5

(* Only a run without errors is judged by its adapter.                     *)
LEMMA CollectKeeps ==
  ASSUME IInv, Collect
  PROVE  IInv'
<1> USE DEF IInv, Collect, progress, verdict
<1>0. world' = world /\ UNCHANGED registry
  OBVIOUS
<1>1. TypeOK'
  BY <1>0, RegistryUntouched DEF TypeOK, RegistryTypeOK, Outcomes, Terminations
<1>2. StepInv' /\ VerdictInv' /\ CompleteInv'
  BY <1>0, RegistryUntouched
  DEF TypeOK, StepInv, VerdictInv, CompleteInv, Containers, Stopping, Early, Late
<1>3. StackInv'
  BY <1>0, RegistryUntouched
  DEF StackInv, StepInv, CompleteInv, WithBroker, WithTransports, Containers, Stopping, Early, Late
<1>4. OnceInv' /\ FreshInv' /\ ScratchInv'
  BY <1>0, RegistryUntouched
  DEF OnceInv, FreshInv, ScratchInv, Ahead, Containers, Transports, Early, Late
<1>5. TruthInv' /\ AccountInv'
  BY <1>0, RegistryUntouched DEF TruthInv, AccountInv, CompleteInv, Containers, Transports, Late
<1> QED BY <1>1, <1>2, <1>3, <1>4, <1>5

(* The snapshot takes the termination as it is.                            *)
LEMMA TakeSnapshotKeeps ==
  ASSUME IInv, TakeSnapshot
  PROVE  IInv'
<1> USE DEF IInv, TakeSnapshot, progress, verdict
<1>0. world' = world /\ UNCHANGED registry
  OBVIOUS
<1>1. TypeOK'
  BY <1>0, RegistryUntouched DEF TypeOK, RegistryTypeOK, Outcomes, Terminations
<1>2. StepInv' /\ VerdictInv' /\ CompleteInv'
  BY <1>0, RegistryUntouched
  DEF TypeOK, StepInv, VerdictInv, CompleteInv, Containers, Stopping, Early, Late
<1>3. StackInv'
  BY <1>0, RegistryUntouched
  DEF StackInv, StepInv, CompleteInv, WithBroker, WithTransports, Containers, Stopping, Early, Late
<1>4. OnceInv' /\ FreshInv' /\ ScratchInv'
  BY <1>0, RegistryUntouched
  DEF OnceInv, FreshInv, ScratchInv, Ahead, Containers, Transports, Early, Late
<1>5. TruthInv' /\ AccountInv'
  BY <1>0, RegistryUntouched DEF TruthInv, AccountInv, CompleteInv, Containers, Transports, Late
<1> QED BY <1>1, <1>2, <1>3, <1>4, <1>5

(* The budget ends only while somebody can still see it.                   *)
LEMMA TerminateBudgetKeeps ==
  ASSUME IInv, TerminateBudget
  PROVE  IInv'
<1> USE DEF IInv, TerminateBudget, progress, verdict
<1>0. world' = world /\ UNCHANGED registry
  OBVIOUS
<1>1. TypeOK'
  BY <1>0, RegistryUntouched DEF TypeOK, RegistryTypeOK, Outcomes, Terminations
<1>2. StepInv' /\ VerdictInv' /\ CompleteInv'
  BY <1>0, RegistryUntouched
  DEF TypeOK, StepInv, VerdictInv, CompleteInv, Containers, Stopping, Early, Late
<1>3. StackInv'
  BY <1>0, RegistryUntouched
  DEF StackInv, StepInv, CompleteInv, WithBroker, WithTransports, Containers, Stopping, Early, Late
<1>4. OnceInv' /\ FreshInv' /\ ScratchInv'
  BY <1>0, RegistryUntouched
  DEF OnceInv, FreshInv, ScratchInv, Ahead, Containers, Transports, Early, Late
<1>5. TruthInv' /\ AccountInv'
  BY <1>0, RegistryUntouched DEF TruthInv, AccountInv, CompleteInv, Containers, Transports, Late
<1> QED BY <1>1, <1>2, <1>3, <1>4, <1>5

-----------------------------------------------------------------------------
(* The start, the scratch directory and the creation of containers.        *)

(* The run starts with nothing.                                            *)
LEMMA RunStarts == Init => IInv
<1> SUFFICES ASSUME Init PROVE IInv
  OBVIOUS
<1> USE DEF Init, RegistryInit
<1>0. Leased = {} /\ Recorded = {} /\ RecordedGone = {}
  BY DEF Leased, Recorded, RecordedGone
<1>1. TypeOK
  <2>1. RegistryTypeOK
    BY DEF RegistryTypeOK
  <2>2. uses \subseteq Transports /\ world \in [Resources -> {"none", "live", "gone"}]
    OBVIOUS
  <2> QED BY <2>1, <2>2 DEF TypeOK, Outcomes, Terminations
<1>2. StepInv /\ VerdictInv /\ CompleteInv /\ StackInv
  BY DEF StepInv, VerdictInv, CompleteInv, StackInv, Containers, Stopping, Early, Late
<1>3. OnceInv /\ FreshInv /\ ScratchInv /\ TruthInv /\ AccountInv
  BY <1>0 DEF OnceInv, FreshInv, ScratchInv, TruthInv, AccountInv, Early, Late
<1> QED BY <1>1, <1>2, <1>3 DEF IInv

(* A stuttering step.                                                      *)
LEMMA StutterKeeps == ASSUME IInv, UNCHANGED vars PROVE IInv'
BY RegistryUntouched
DEF vars, registry, IInv, TypeOK, RegistryTypeOK, StepInv, VerdictInv, CompleteInv, StackInv, OnceInv,
    FreshInv, ScratchInv, TruthInv, AccountInv, Ahead, WithBroker, WithTransports,
    FinalizeOutcome

(* Creating the scratch directory.                                         *)
LEMMA CreateScratchKeeps ==
  ASSUME IInv, CreateScratch
  PROVE  IInv'
<1> USE Stacks DEF IInv, CreateScratch, progress, verdict, Becomes
<1>0. UNCHANGED registry
  OBVIOUS
<1>1. TypeOK'
  BY <1>0, RegistryUntouched DEF TypeOK, RegistryTypeOK
<1>2. StepInv' /\ VerdictInv' /\ CompleteInv' /\ StackInv'
  BY <1>0, RegistryUntouched
  DEF TypeOK, StepInv, VerdictInv, CompleteInv, StackInv, Containers, Stopping, Early, Late
<1>3. OnceInv' /\ FreshInv' /\ ScratchInv'
  BY <1>0, RegistryUntouched
  DEF TypeOK, OnceInv, FreshInv, ScratchInv, Ahead, Early, Late, Transports
<1>4. Recorded = {} /\ Leased = {} /\ RecordedGone = {}
  BY DEF StackInv, Early, Recorded, Leased, RecordedGone
<1>5. TruthInv' /\ AccountInv'
  BY <1>0, <1>4, RegistryUntouched
  DEF TypeOK, TruthInv, AccountInv, CompleteInv, Transports, Late
<1> QED BY <1>1, <1>2, <1>3, <1>5

(* Making it private, and leasing it.                                      *)
LEMMA SecureScratchKeeps ==
  ASSUME IInv, SecureScratch
  PROVE  IInv'
<1> USE Stacks DEF IInv, SecureScratch, progress, verdict
<1>1. CASE stage' = "error" /\ UNCHANGED registry
  <2>1. TypeOK'
    BY <1>1, RegistryUntouched DEF TypeOK, RegistryTypeOK
  <2>2. StepInv' /\ VerdictInv' /\ CompleteInv' /\ StackInv'
    BY <1>1, RegistryUntouched
    DEF TypeOK, StepInv, VerdictInv, CompleteInv, StackInv, Containers, Stopping, Early, Late
  <2>3. OnceInv' /\ FreshInv' /\ ScratchInv'
    BY <1>1, RegistryUntouched
    DEF OnceInv, FreshInv, ScratchInv, Ahead, Early, Late, Transports
  <2>4. TruthInv' /\ AccountInv'
    BY <1>1, RegistryUntouched DEF TruthInv, AccountInv, Transports, Late
  <2> QED BY <2>1, <2>2, <2>3, <2>4
<1>2. CASE RegisterLease("scratch") /\ stage' = "schedule"
  <2>0. leases = <<>> /\ Recorded = {} /\ Leased = {} /\ RecordedGone = {}
    BY DEF StackInv, Early, Recorded, Leased, RecordedGone
  <2>1. /\ leases' = Append(leases, "scratch") /\ completed' = completed
        /\ RegistryTypeOK' /\ OnceInv'
        /\ Leased' = {"scratch"} /\ Recorded' = {} /\ RecordedGone' = {}
    BY <1>2, <2>0, Registers DEF TypeOK
  <2>2. TypeOK'
    BY <1>2, <2>1 DEF TypeOK
  <2>3. StepInv' /\ VerdictInv' /\ CompleteInv' /\ StackInv'
    BY <1>2, <2>0, <2>1
    DEF TypeOK, StepInv, VerdictInv, CompleteInv, StackInv, Bottom, Containers, Stopping, Early, Late
  <2>4. FreshInv'
    BY <1>2, <2>1 DEF FreshInv, Ahead, Early, Late, Transports
  <2>5. world["scratch"] = "live"
    BY DEF ScratchInv
  <2>6. ScratchInv' /\ TruthInv' /\ AccountInv'
    BY <1>2, <2>0, <2>1, <2>5 DEF ScratchInv, TruthInv, AccountInv, Early, Late, Transports
  <2> QED BY <2>1, <2>2, <2>3, <2>4, <2>6
<1> QED BY <1>1, <1>2

(* Leasing a container before it is created.                               *)
LEMMA StartCaseKeeps ==
  ASSUME IInv, NEW c \in Containers, StartCase(c)
  PROVE  IInv'
<1> USE Stacks DEF IInv, StartCase, progress, verdict
<1>1. c \in Ahead /\ c \in Resources /\ leases # <<>>
  BY DEF Ahead, Containers, Transports, ScratchInv, Early, Late, Leased
<1>2. /\ leases' = Append(leases, c) /\ completed' = completed
      /\ RegistryTypeOK' /\ OnceInv'
      /\ Leased' = Leased \cup {c} /\ Recorded' = Recorded /\ RecordedGone' = RecordedGone
  BY <1>1, Registers DEF TypeOK, FreshInv
<1>3. TypeOK'
  BY <1>2 DEF TypeOK
<1>4. StepInv' /\ VerdictInv' /\ CompleteInv'
  BY DEF TypeOK, StepInv, VerdictInv, CompleteInv, Containers, Stopping, Early, Late
<1>5. StackInv'
  BY <1>2 DEF StackInv, WithBroker, WithTransports, Containers, Early
<1>6. FreshInv' /\ ScratchInv'
  BY <1>2 DEF FreshInv, ScratchInv, Ahead, Containers, Transports, Early, Late
<1>7. TruthInv' /\ AccountInv'
  BY <1>2 DEF TruthInv, AccountInv, Containers, Transports, Early, Late
<1> QED BY <1>2, <1>3, <1>4, <1>5, <1>6, <1>7

(* Creating it, perhaps without knowing.                                   *)
LEMMA CreateContainerKeeps ==
  ASSUME IInv, NEW c \in Containers, CreateContainer(c)
  PROVE  IInv'
<1> USE Stacks DEF IInv, CreateContainer, progress, verdict, Becomes
<1>0. UNCHANGED registry
  OBVIOUS
<1>1. TypeOK'
  BY <1>0, RegistryUntouched DEF TypeOK, RegistryTypeOK, Containers
<1>2. StepInv' /\ VerdictInv' /\ CompleteInv' /\ StackInv'
  BY <1>0, RegistryUntouched
  DEF TypeOK, StepInv, VerdictInv, CompleteInv, StackInv, WithBroker, WithTransports, Containers,
      Stopping, Early, Late
<1>3. OnceInv' /\ FreshInv' /\ ScratchInv'
  BY <1>0, RegistryUntouched
  DEF TypeOK, OnceInv, FreshInv, ScratchInv, Ahead, Containers, Transports, Early, Late
<1>4. c \in Leased /\ c \in Resources
  <2>1. PICK below \in Seq(Resources) : leases = Append(below, c)
    BY DEF StackInv, Containers
  <2>2. c \in Resources
    OBVIOUS
  <2>3. Latest = c /\ leases # <<>>
    BY <2>1, <2>2, TopOfStack
  <2>4. Len(leases) \in DOMAIN leases
    BY <2>3 DEF TypeOK, RegistryTypeOK
  <2> QED BY <2>2, <2>3, <2>4 DEF Leased, Latest
<1>5. TruthInv'
  <2>1. \A r \in RecordedGone : r \in Resources /\ r # c
    BY <1>4, RegistryIsAboutResources DEF TypeOK, OnceInv
  <2> QED BY <1>0, <2>1, RegistryUntouched DEF TypeOK, TruthInv
<1>6. AccountInv'
  BY <1>0, <1>4, RegistryUntouched DEF TypeOK, AccountInv, Containers, Transports, Late
<1> QED BY <1>1, <1>2, <1>3, <1>5, <1>6

-----------------------------------------------------------------------------
(* Cleanups of containers, and the start of transports.                    *)

(* What a cleanup can do to the world.                                     *)
LEMMA CleanupOnlyRemoves ==
  ASSUME world \in [Resources -> {"none", "live", "gone"}],
         NEW r \in Resources, NEW fate \in Fates, CleanupRan(r, fate)
  PROVE  /\ world' \in [Resources -> {"none", "live", "gone"}]
         /\ \A x \in Resources : world'[x] = world[x] \/ world'[x] = "gone"
         /\ r # "scratch" => \A x \in Resources : x = r \/ world'[x] = world[x]
         /\ fate = "removed" => world'[r] = "gone"
         /\ world["scratch"] = "live" /\ world'["scratch"] # "live" =>
              r = "scratch" /\ \A x \in Transports : world'[x] # "live"
BY Stacks DEF CleanupRan, Remove, Fates

(* The containers' lease is on top while one of them runs.                 *)
LEMMA CaseOnTop ==
  ASSUME IInv, NEW c \in Containers, stage = c, step # "idle"
  PROVE  /\ Latest = c /\ ~abandoned
         /\ AllButLatest = IF c = "probe" THEN Bottom ELSE WithTransports
<1>1. leases = Append(IF c = "probe" THEN Bottom ELSE WithTransports, c)
  BY DEF IInv, StackInv, Containers
<1>2. ~abandoned
  BY DEF IInv, CompleteInv, Containers, Stopping, Late
<1> QED BY <1>1, <1>2, TopOfStack, Stacks

(* The case's own cleanup, verified.                                       *)
LEMMA CleanUpCaseKeeps ==
  ASSUME IInv, NEW c \in Containers, CleanUpCase(c)
  PROVE  IInv'
<1> USE Stacks DEF IInv, CleanUpCase, AfterCase, progress, verdict, Becomes
<1>1. Latest = c /\ ~abandoned
      /\ AllButLatest = IF c = "probe" THEN Bottom ELSE WithTransports
  BY CaseOnTop
<1>2. /\ RegistryTypeOK' /\ OnceInv' /\ c \in Leased
      /\ leases' = AllButLatest
      /\ Leased' = Leased \ {c} /\ Recorded' = Recorded \cup {c}
      /\ RecordedGone' = RecordedGone \cup {c}
  BY <1>1, CompletesAsReleased, Releases DEF TypeOK
<1>3. TypeOK'
  BY <1>2 DEF TypeOK, Containers
<1>4. StepInv' /\ VerdictInv' /\ CompleteInv'
  BY DEF TypeOK, StepInv, VerdictInv, CompleteInv, Containers, Stopping, Early, Late
<1>5. StackInv'
  BY <1>1, <1>2 DEF StackInv, WithBroker, WithTransports, Containers, Early
<1>6. FreshInv' /\ ScratchInv'
  BY <1>2 DEF TypeOK, FreshInv, ScratchInv, Ahead, Containers, Transports, Early, Late
<1>7. TruthInv'
  BY <1>1, <1>2, RegistryIsAboutResources DEF TypeOK, TruthInv
<1>8. AccountInv'
  BY <1>2 DEF TypeOK, AccountInv, Containers, Transports, Early, Late
<1> QED BY <1>2, <1>3, <1>4, <1>5, <1>6, <1>7, <1>8

(* The lease's cleanup in its place.                                       *)
LEMMA RecoverCaseKeeps ==
  ASSUME IInv, NEW c \in Containers, RecoverCase(c)
  PROVE  IInv'
<1> USE Stacks DEF IInv, AfterCase, verdict
<1>1. Latest = c /\ ~abandoned
      /\ AllButLatest = IF c = "probe" THEN Bottom ELSE WithTransports
  BY CaseOnTop DEF RecoverCase
<1>2. PICK fate \in Fates : ReleaseLatest(fate) /\ CleanupRan(c, fate)
  BY <1>1 DEF RecoverCase
<1>3. /\ RegistryTypeOK' /\ OnceInv' /\ c \in Leased
      /\ leases' = AllButLatest
      /\ Leased' = Leased \ {c} /\ Recorded' = Recorded \cup {c}
      /\ RecordedGone' \subseteq RecordedGone \cup {c}
      /\ fate # "removed" => RecordedGone' = RecordedGone
  BY <1>1, <1>2, Releases DEF TypeOK
<1>4. /\ world' \in [Resources -> {"none", "live", "gone"}]
      /\ \A x \in Resources : x = c \/ world'[x] = world[x]
      /\ \A x \in Resources : world'[x] = world[x] \/ world'[x] = "gone"
      /\ fate = "removed" => world'[c] = "gone"
  <2>1. c \in Resources /\ c # "scratch"
    BY DEF Containers
  <2>2. world \in [Resources -> {"none", "live", "gone"}]
    BY DEF TypeOK
  <2> QED BY <1>2, <2>1, <2>2, CleanupOnlyRemoves
<1> USE DEF RecoverCase
<1>5. TypeOK'
  BY <1>3, <1>4 DEF TypeOK, Containers
<1>6. StepInv' /\ VerdictInv' /\ CompleteInv'
  BY DEF TypeOK, StepInv, VerdictInv, CompleteInv, Containers, Stopping, Early, Late
<1>7. StackInv'
  BY <1>1, <1>3 DEF StackInv, WithBroker, WithTransports, Containers, Early
<1>8. FreshInv' /\ ScratchInv'
  BY <1>3, <1>4 DEF FreshInv, ScratchInv, Ahead, Containers, Transports, Early, Late
<1>9. TruthInv'
  BY <1>1, <1>3, <1>4, RegistryIsAboutResources DEF TypeOK, TruthInv
<1>10. AccountInv'
  BY <1>3, <1>4 DEF TypeOK, AccountInv, Containers, Transports, Early, Late
<1> QED BY <1>3, <1>5, <1>6, <1>7, <1>8, <1>9, <1>10

(* Starting a transport: leased, not asked for, or failed.                 *)
LEMMA StartTransportKeeps ==
  ASSUME IInv, NEW t \in Transports, NEW next,
         (t = "broker" /\ next = "proxy") \/ (t = "proxy" /\ next = "workload"),
         StartTransport(t, next)
  PROVE  IInv'
<1> USE Stacks DEF IInv, progress
<1>1. CASE t \notin uses
  <2> USE <1>1 DEF StartTransport
  <2>0. UNCHANGED registry /\ world' = world /\ stage' = next /\ requested' = requested
    OBVIOUS
  <2>1. TypeOK'
    BY <2>0, RegistryUntouched DEF TypeOK, RegistryTypeOK
  <2>2. StepInv' /\ VerdictInv' /\ CompleteInv'
    BY <2>0, RegistryUntouched
    DEF TypeOK, StepInv, VerdictInv, CompleteInv, Containers, Stopping, Early, Late
  <2>3. StackInv'
    BY <2>0, RegistryUntouched
    DEF StackInv, StepInv, WithBroker, WithTransports, Containers, Stopping, Early
  <2>4. OnceInv' /\ FreshInv' /\ ScratchInv'
    BY <2>0, RegistryUntouched
    DEF OnceInv, FreshInv, ScratchInv, Ahead, Transports, Early, Late
  <2>5. TruthInv' /\ AccountInv'
    BY <2>0, RegistryUntouched DEF TruthInv, AccountInv, Transports, Late
  <2> QED BY <2>1, <2>2, <2>3, <2>4, <2>5
<1>2. CASE t \in uses /\ Becomes(t, "live") /\ RegisterLease(t) /\ stage' = next
           /\ UNCHANGED requested
  <2>0. t \in Ahead /\ t \in Resources /\ leases # <<>> /\ stage = t
    BY DEF StartTransport, Ahead, Transports, ScratchInv, Early, Late, Leased
  <2>1. /\ leases' = Append(leases, t) /\ completed' = completed
        /\ RegistryTypeOK' /\ OnceInv'
        /\ Leased' = Leased \cup {t} /\ Recorded' = Recorded /\ RecordedGone' = RecordedGone
    BY <1>2, <2>0, Registers DEF TypeOK, FreshInv
  <2> USE <1>2 DEF StartTransport, Becomes
  <2>2. TypeOK'
    BY <2>0, <2>1 DEF TypeOK
  <2>3. StepInv' /\ VerdictInv' /\ CompleteInv'
    BY <2>0, <2>1
    DEF TypeOK, StepInv, VerdictInv, CompleteInv, Containers, Stopping, Early, Late
  <2>4. StackInv'
    BY <2>0, <2>1 DEF StackInv, StepInv, WithBroker, WithTransports, Containers, Stopping, Early
  <2>5. FreshInv' /\ ScratchInv'
    BY <2>0, <2>1 DEF TypeOK, FreshInv, ScratchInv, Ahead, Transports, Early, Late
  <2>6. TruthInv'
    <3>1. \A r \in RecordedGone : r \in Resources /\ r # t
      BY <2>0, RegistryIsAboutResources DEF TypeOK, FreshInv
    <3> QED BY <2>0, <2>1, <3>1 DEF TypeOK, TruthInv
  <2>7. AccountInv'
    BY <2>0, <2>1 DEF TypeOK, AccountInv, Transports, Early, Late
  <2> QED BY <2>1, <2>2, <2>3, <2>4, <2>5, <2>6, <2>7
<1>3. CASE /\ t \in uses /\ stage' = "snapshot" /\ requested' = "Partial" /\ UNCHANGED registry
           /\ world' \in [Resources -> {"none", "live", "gone"}]
           /\ \A x \in Resources : x \in Ahead \/ world'[x] = world[x] \/ world'[x] = "gone"
           /\ world'["scratch"] = world["scratch"]
           /\ \A x \in Resources : x \notin Transports => world'[x] = world[x]
  <2> USE <1>3
  <2>0. stage = t /\ step' = step /\ UNCHANGED <<progress, complete, termination, snapshot, outcome>>
    BY DEF StartTransport
  <2> USE <2>0
  <2>1. TypeOK'
    BY RegistryUntouched DEF TypeOK, RegistryTypeOK, Outcomes
  <2>2. StepInv' /\ VerdictInv' /\ CompleteInv' /\ StackInv'
    BY RegistryUntouched
    DEF TypeOK, StepInv, VerdictInv, CompleteInv, StackInv, Containers, Stopping, Early, Late, Transports
  <2>3. OnceInv' /\ FreshInv' /\ ScratchInv'
    BY RegistryUntouched DEF OnceInv, FreshInv, ScratchInv, Ahead, Transports, Early, Late
  <2>4. TruthInv'
    <3>1. \A r \in RecordedGone : r \in Resources /\ r \notin Ahead
      BY RegistryIsAboutResources DEF TypeOK, FreshInv
    <3> QED BY <3>1, RegistryUntouched DEF TruthInv
  <2>5. AccountInv'
    <3>1. ~complete /\ world["scratch"] = "live" /\ "scratch" \in Leased
      BY DEF CompleteInv, ScratchInv, Transports, Early, Late
    <3> QED BY <3>1, RegistryUntouched DEF TypeOK, AccountInv, Transports, Late
  <2> QED BY <2>1, <2>2, <2>3, <2>4, <2>5
<1>4. t \in Ahead /\ "scratch" \notin Transports /\ t \in Resources
  BY DEF Ahead, Transports, StartTransport
<1>5. QED
  BY <1>1, <1>2, <1>3, <1>4 DEF TypeOK, StartTransport, Becomes, Transports

-----------------------------------------------------------------------------
(* Stopping the transports, the release and the receipt.                   *)

(* Stopping a transport takes its socket away, or not.                     *)
LEMMA StopTransportKeeps ==
  ASSUME IInv, NEW t \in Transports, NEW place, NEW next,
         \/ t = "proxy" /\ place = "stop_proxy" /\ next = "stop_broker"
         \/ t = "broker" /\ place = "stop_broker" /\ next = "collect",
         StopTransport(t, place, next)
  PROVE  IInv'
<1> USE Stacks DEF IInv, StopTransport, Becomes, verdict
<1>0. /\ UNCHANGED registry /\ stage = place /\ t \in Resources /\ step = "idle"
      /\ world' = world \/ (world' = [world EXCEPT ![t] = "gone"] /\ stage' = stage)
  OBVIOUS
<1>1. TypeOK'
  <2>1. RegistryTypeOK'
    BY <1>0, RegistryUntouched DEF TypeOK, RegistryTypeOK
  <2>2. world' \in [Resources -> {"none", "live", "gone"}]
    BY <1>0 DEF TypeOK
  <2>3. /\ transportOK' \in BOOLEAN /\ step' \in {"idle", "stopped", "failed"}
        /\ stage' \in {"stop_proxy", "stop_broker", "collect"}
    BY DEF TypeOK
  <2> QED BY <1>0, <2>1, <2>2, <2>3 DEF TypeOK
<1>2. StepInv' /\ VerdictInv' /\ CompleteInv'
  BY <1>0, RegistryUntouched
  DEF TypeOK, StepInv, VerdictInv, CompleteInv, Containers, Stopping, Early, Late
<1>3. StackInv'
  <2>1. CASE stage' = stage
    BY <1>0, <2>1, RegistryUntouched
    DEF StackInv, WithBroker, WithTransports, Early
  <2>2. CASE t = "proxy" /\ stage' = next
    BY <1>0, <2>2, RegistryUntouched DEF StackInv, WithBroker, WithTransports, Early
  <2>3. CASE t = "broker" /\ stage' = next
    BY <1>0, <2>3, RegistryUntouched DEF StackInv, WithBroker, WithTransports, Early
  <2> QED BY <2>1, <2>2, <2>3
<1>4. OnceInv' /\ FreshInv' /\ ScratchInv'
  BY <1>0, RegistryUntouched
  DEF TypeOK, OnceInv, FreshInv, ScratchInv, Ahead, Transports, Early, Late
<1>5. TruthInv' /\ AccountInv'
  BY <1>0, RegistryUntouched, RegistryIsAboutResources
  DEF TypeOK, TruthInv, AccountInv, Transports, Early, Late
<1> QED BY <1>1, <1>2, <1>3, <1>4, <1>5

(* Which lease is on top when a transport's is settled.                    *)
LEMMA TransportOnTop ==
  ASSUME IInv, NEW t \in Transports, step # "idle",
         stage = IF t = "proxy" THEN "stop_proxy" ELSE "stop_broker"
  PROVE  /\ Latest \in Resources \ {"scratch"}
         /\ ~abandoned => Latest = t
         /\ t = "proxy" => AllButLatest = IF abandoned THEN Append(WithBroker, "proxy")
                                          ELSE WithBroker
         /\ t = "broker" => AllButLatest = IF abandoned THEN Append(Bottom, "broker")
                                           ELSE Bottom
<1> USE Stacks DEF IInv
<1>1. CASE t = "proxy"
  <2>1. "proxy" \in uses
    BY <1>1 DEF StepInv
  <2>2. /\ WithTransports = Append(WithBroker, "proxy") /\ "proxy" \in Resources
        /\ "workload" \in Resources
    BY <2>1 DEF WithTransports, Transports, Containers
  <2>3. leases = IF abandoned THEN Append(WithTransports, "workload") ELSE WithTransports
    BY <1>1 DEF StackInv
  <2> QED BY <1>1, <2>2, <2>3, TopOfStack
<1>2. CASE t = "broker"
  <2>1. "broker" \in uses
    BY <1>2 DEF StepInv
  <2>2. /\ WithBroker = Append(Bottom, "broker") /\ "broker" \in Resources
        /\ {"proxy", "workload"} \subseteq Resources
    BY <2>1 DEF WithBroker, Transports, Containers
  <2>3. CASE abandoned
    <3>1. PICK r \in {"proxy", "workload"} : leases = Append(WithBroker, r)
      BY <1>2, <2>3 DEF StackInv
    <3>2. Latest = r /\ AllButLatest = WithBroker
      BY <2>2, <3>1, TopOfStack
    <3> QED BY <1>2, <2>2, <2>3, <3>2
  <2>4. CASE ~abandoned
    <3>1. leases = WithBroker
      BY <1>2, <2>4 DEF StackInv
    <3> QED BY <1>2, <2>2, <2>4, <3>1, TopOfStack
  <2> QED BY <2>3, <2>4
<1> QED BY <1>1, <1>2 DEF Transports

(* Settling takes the latest lease off, which is the transport's own if    *)
(* nothing was abandoned.                                                  *)
LEMMA SettleTransportKeeps ==
  ASSUME IInv, NEW t \in Transports, NEW place, NEW next,
         \/ t = "proxy" /\ place = "stop_proxy" /\ next = "stop_broker"
         \/ t = "broker" /\ place = "stop_broker" /\ next = "collect",
         SettleTransport(t, place, next)
  PROVE  IInv'
<1> USE Stacks DEF IInv, progress, verdict
<1>0. /\ stage = place /\ stage' = next /\ step' = "idle" /\ step # "idle"
      /\ UNCHANGED <<progress, verdict>>
  BY DEF SettleTransport
<1>1. /\ Latest \in Resources \ {"scratch"}
      /\ ~abandoned => Latest = t
      /\ t = "proxy" => AllButLatest = IF abandoned THEN Append(WithBroker, "proxy")
                                       ELSE WithBroker
      /\ t = "broker" => AllButLatest = IF abandoned THEN Append(Bottom, "broker")
                                        ELSE Bottom
  BY <1>0, TransportOnTop DEF Transports
<1>2. PICK r \in Resources \ {"scratch"} : r = Latest
  BY <1>1
<1>3. \E fate \in Fates : /\ ReleaseLatest(fate)
                          /\ CleanupRan(r, fate) \/ (world' = world /\ step = "stopped")
  BY <1>2, CompletesAsReleased DEF SettleTransport
<1>4. PICK fate \in Fates : /\ ReleaseLatest(fate)
                            /\ CleanupRan(r, fate) \/ (world' = world /\ step = "stopped")
  BY <1>3
<1>5. /\ RegistryTypeOK' /\ OnceInv' /\ r \in Leased
      /\ leases' = AllButLatest
      /\ Leased' = Leased \ {r} /\ Recorded' = Recorded \cup {r}
      /\ RecordedGone' \subseteq RecordedGone \cup {r}
      /\ fate # "removed" => RecordedGone' = RecordedGone
  BY <1>2, <1>4, Releases DEF TypeOK
<1>6. world \in [Resources -> {"none", "live", "gone"}]
  BY DEF TypeOK
<1>7. /\ world' \in [Resources -> {"none", "live", "gone"}]
      /\ \A x \in Resources : x = r \/ world'[x] = world[x]
      /\ \A x \in Resources : world'[x] = world[x] \/ world'[x] = "gone"
      /\ fate = "removed" /\ step # "stopped" => world'[r] = "gone"
      /\ fate = "removed" => world'[r] = "gone" \/ world' = world
  BY <1>4, <1>6, CleanupOnlyRemoves
<1>8. TypeOK'
  BY <1>0, <1>5, <1>7 DEF TypeOK
<1>9. StepInv' /\ VerdictInv' /\ CompleteInv'
  BY <1>0 DEF TypeOK, StepInv, VerdictInv, CompleteInv, Containers, Stopping, Early, Late
<1>10. StackInv'
  BY <1>0, <1>1, <1>5 DEF StackInv, WithBroker, WithTransports, Containers, Early
<1>11. FreshInv' /\ ScratchInv'
  BY <1>0, <1>5, <1>7 DEF FreshInv, ScratchInv, Ahead, Containers, Transports, Early, Late
<1>12. TruthInv'
  <2>1. ~abandoned /\ step = "stopped" => world[r] = "gone"
    BY <1>0, <1>1, <1>2 DEF StepInv
  <2>2. ~abandoned /\ fate = "removed" => world'[r] = "gone"
    BY <1>7, <2>1
  <2>3. \A x \in RecordedGone : x \in Resources
    BY RegistryIsAboutResources DEF TypeOK
  <2> QED BY <1>0, <1>5, <1>7, <2>2, <2>3 DEF TruthInv
<1>13. AccountInv'
  BY <1>0, <1>5, <1>7 DEF AccountInv, Containers, Transports, Early, Late
<1> QED BY <1>5, <1>8, <1>9, <1>10, <1>11, <1>12, <1>13

(* Releasing what is left, whatever it is.                                 *)
LEMMA ReleaseNextKeeps ==
  ASSUME IInv, ReleaseNext
  PROVE  IInv'
<1> USE Stacks DEF IInv, progress, verdict
<1>0. stage = "release" /\ stage' = stage /\ step' = step /\ UNCHANGED <<progress, verdict>>
  BY DEF ReleaseNext
<1>1. PICK fate \in Fates : ReleaseLatest(fate) /\ CleanupRan(Latest, fate)
  BY DEF ReleaseNext
<1>2. Latest \in Resources
  BY <1>1, Releases, RegistryIsAboutResources DEF TypeOK
<1>3. PICK r \in Resources : r = Latest
  BY <1>2
<1>4. /\ RegistryTypeOK' /\ OnceInv' /\ r \in Leased
      /\ Leased' = Leased \ {r} /\ Recorded' = Recorded \cup {r}
      /\ RecordedGone' \subseteq RecordedGone \cup {r}
      /\ fate # "removed" => RecordedGone' = RecordedGone
  BY <1>1, <1>3, Releases DEF TypeOK
<1>5. /\ world' \in [Resources -> {"none", "live", "gone"}]
      /\ \A x \in Resources : world'[x] = world[x] \/ world'[x] = "gone"
      /\ fate = "removed" => world'[r] = "gone"
      /\ world["scratch"] = "live" /\ world'["scratch"] # "live" =>
           \A x \in Transports : world'[x] # "live"
  BY <1>1, <1>3, CleanupOnlyRemoves DEF TypeOK
<1>6. TypeOK'
  BY <1>0, <1>4, <1>5 DEF TypeOK
<1>7. StepInv' /\ VerdictInv' /\ CompleteInv' /\ StackInv'
  BY <1>0
  DEF TypeOK, StepInv, VerdictInv, CompleteInv, StackInv, Containers, Stopping, Early, Late
<1>8. FreshInv' /\ ScratchInv'
  BY <1>0, <1>4 DEF FreshInv, ScratchInv, Ahead, Transports, Early, Late
<1>9. TruthInv'
  <2>1. \A x \in RecordedGone : x \in Resources
    BY RegistryIsAboutResources DEF TypeOK
  <2> QED BY <1>0, <1>4, <1>5, <2>1 DEF TruthInv
<1>10. AccountInv'
  BY <1>0, <1>4, <1>5 DEF AccountInv, Transports, Late
<1> QED BY <1>4, <1>6, <1>7, <1>8, <1>9, <1>10

(* The receipt says what the invariant says.                               *)
LEMMA WriteReceiptKeeps ==
  ASSUME IInv, WriteReceipt
  PROVE  IInv'
<1> USE DEF IInv, WriteReceipt, progress
<1>0. world' = world /\ UNCHANGED registry
  OBVIOUS
<1>1. FinalizeOutcome \in Outcomes /\ FinalizeOutcome' = FinalizeOutcome
  BY <1>0, RegistryUntouched DEF FinalizeOutcome, TypeOK, Outcomes
<1>2. TypeOK'
  BY <1>0, <1>1, RegistryUntouched DEF TypeOK, RegistryTypeOK
<1>3. StepInv' /\ VerdictInv' /\ CompleteInv' /\ StackInv'
  BY <1>0, <1>1, RegistryUntouched
  DEF StepInv, VerdictInv, CompleteInv, StackInv, Containers, Stopping, Early, Late
<1>4. OnceInv' /\ FreshInv' /\ ScratchInv'
  BY <1>0, RegistryUntouched
  DEF OnceInv, FreshInv, ScratchInv, Ahead, Early, Late
<1>5. TruthInv' /\ AccountInv'
  BY <1>0, RegistryUntouched DEF TruthInv, AccountInv, Transports, Late
<1> QED BY <1>2, <1>3, <1>4, <1>5

-----------------------------------------------------------------------------
(* No step of a run breaks the invariant.                                  *)
LEMMA StepKeeps ==
  ASSUME IInv, [Next]_vars
  PROVE  IInv'
<1>1. CASE \E c \in Containers : \/ StartCase(c) \/ CreateContainer(c) \/ RunContainer(c)
                                 \/ CleanUpCase(c) \/ RecoverCase(c)
  BY <1>1, StartCaseKeeps, CreateContainerKeeps, RunContainerKeeps, CleanUpCaseKeeps,
     RecoverCaseKeeps
<1>2. CASE StartTransport("broker", "proxy") \/ StartTransport("proxy", "workload")
  <2>1. "broker" \in Transports /\ "proxy" \in Transports
    BY DEF Transports
  <2>2. ASSUME StartTransport("broker", "proxy") PROVE IInv'
    BY <2>1, <2>2, StartTransportKeeps
  <2>3. ASSUME StartTransport("proxy", "workload") PROVE IInv'
    BY <2>1, <2>3, StartTransportKeeps
  <2> QED BY <1>2, <2>2, <2>3
<1>3. CASE \/ StopTransport("proxy", "stop_proxy", "stop_broker")
           \/ StopTransport("broker", "stop_broker", "collect")
  BY <1>3, StopTransportKeeps DEF Transports
<1>4. CASE \/ SettleTransport("proxy", "stop_proxy", "stop_broker")
           \/ SettleTransport("broker", "stop_broker", "collect")
  BY <1>4, SettleTransportKeeps DEF Transports
<1>5. CASE CreateScratch \/ SecureScratch \/ PrepareRun \/ AssessIsolation
  BY <1>5, CreateScratchKeeps, SecureScratchKeeps, PrepareRunKeeps, AssessIsolationKeeps
<1>6. CASE FailBeforeLaunch \/ StartWorkload \/ AbandonStartup \/ Collect
  BY <1>6, FailBeforeLaunchKeeps, StartWorkloadKeeps, AbandonStartupKeeps, CollectKeeps
<1>7. CASE TakeSnapshot \/ ReleaseNext \/ WriteReceipt \/ TerminateBudget
  BY <1>7, TakeSnapshotKeeps, ReleaseNextKeeps, WriteReceiptKeeps, TerminateBudgetKeeps
<1>8. CASE Ended \/ UNCHANGED vars
  BY <1>8, StutterKeeps DEF Ended
<1> QED BY <1>1, <1>2, <1>3, <1>4, <1>5, <1>6, <1>7, <1>8 DEF Next, Forward

(* The inductive invariant, for every run of runner.rs: wherever a step    *)
(* fails, a startup is abandoned or the budget ends.                       *)
THEOREM Invariant == Spec => []IInv
<1>1. Init => IInv
  BY RunStarts
<1>2. IInv /\ [Next]_vars => IInv'
  BY StepKeeps
<1> QED BY <1>1, <1>2, PTL DEF Spec

(* The run and its registry keep their types.                              *)
THEOREM TypeCorrect == Spec => []TypeOK
<1>1. IInv => TypeOK
  BY DEF IInv
<1> QED BY <1>1, Invariant, PTL

(* finalize_outcome judges no run whose budget stopped before its          *)
(* snapshot.                                                               *)
THEOREM StoppedRunsAreNeverJudged == Spec => []StoppedRunsAreNotJudged
<1>1. IInv => StoppedRunsAreNotJudged
  BY DEF IInv, TypeOK, VerdictInv, FinalizeOutcome, StoppedRunsAreNotJudged, None, Terminations
<1> QED BY <1>1, Invariant, PTL

(* The cleanup evidence of a run whose startup was not abandoned is true.  *)
THEOREM EvidenceIsAlwaysTrue == Spec => []EvidenceIsTrue
<1>1. IInv => EvidenceIsTrue
  BY DEF IInv, TruthInv, EvidenceIsTrue, Verified, RecordedGone
<1> QED BY <1>1, Invariant, PTL

(* A receipt accounts, once, for whatever its run left behind.             *)
THEOREM ReceiptsAccountForAll == Spec => []ReceiptAccountsForAll
<1>1. IInv => ReceiptAccountsForAll
  <2> SUFFICES ASSUME IInv PROVE ReceiptAccountsForAll
    OBVIOUS
  <2>1. \A r \in Resources : (HasEvidence(r) <=> r \in Recorded) /\ (IsLeased(r) <=> r \in Leased)
    BY DEF HasEvidence, IsLeased, Recorded, Leased
  <2>2. outcome # None => stage = "done" /\ Leased = {}
    BY DEF IInv, VerdictInv, Leased
  <2>3. "scratch" \in Resources
    BY Stacks
  <2> QED BY <2>1, <2>2, <2>3
          DEF IInv, AccountInv, OnceInv, ReceiptAccountsForAll
<1> QED BY <1>1, Invariant, PTL

(* A run reported as passed or failed left no container, socket or scratch *)
(* directory behind.                                                       *)
THEOREM JudgedRunsAreAlwaysClean == Spec => []JudgedRunsAreClean
<1>1. IInv => JudgedRunsAreClean
  <2> SUFFICES ASSUME IInv, outcome \in {"Passed", "Failed"}, NEW r \in Resources,
                      world[r] = "live"
               PROVE  FALSE
    BY DEF JudgedRunsAreClean
  <2>1. stage = "done" /\ outcome = FinalizeOutcome /\ Leased = {}
    BY DEF IInv, VerdictInv, Leased, None
  <2>2. complete /\ \A i \in DOMAIN completed : completed[i].verified
    BY <2>1 DEF FinalizeOutcome, IInv, TypeOK, Terminations
  <2>3. r \in Recorded
    BY <2>1, <2>2 DEF IInv, AccountInv
  <2>4. r \in RecordedGone
    BY <2>2, <2>3 DEF Recorded, RecordedGone
  <2> QED BY <2>2, <2>4 DEF IInv, CompleteInv, TruthInv
<1> QED BY <1>1, Invariant, PTL

(* release_all, and every release before it, takes the scratch directory   *)
(* away last.                                                              *)
THEOREM ScratchAlwaysGoesLast == Spec => ScratchGoesLast
<1>1. ASSUME IInv, [Next]_vars, world["scratch"] = "live", world'["scratch"] = "gone"
      PROVE  leases' = <<>>
  <2>0. RegistryTypeOK /\ OnceInv /\ world \in [Resources -> {"none", "live", "gone"}]
    BY <1>1 DEF IInv, TypeOK
  <2>1. ASSUME NEW fate \in Fates, ReleaseLatest(fate), CleanupRan(Latest, fate)
        PROVE  leases' = <<>>
    <3>1. Latest \in Leased /\ Latest \in Resources
      BY <2>0, <2>1, Releases, RegistryIsAboutResources
    <3>2. PICK r \in Resources : r = Latest
      BY <3>1
    <3>3. r = "scratch"
      BY <1>1, <2>0, <2>1, <3>2, CleanupOnlyRemoves
    <3>4. leases # <<>> /\ leases[1] = "scratch" /\ leases[Len(leases)] = "scratch"
      BY <2>0, <2>1, <3>2, <3>3 DEF ReleaseLatest, Latest, OnceInv
    <3>5. Len(leases) = 1
      <4>1. Len(leases) \in Nat \ {0} /\ DOMAIN leases = 1..Len(leases)
        BY <2>0, <3>4 DEF RegistryTypeOK
      <4> QED BY <2>0, <3>4, <4>1 DEF OnceInv
    <3> QED BY <2>0, <2>1, <3>5 DEF ReleaseLatest, AllButLatest, RegistryTypeOK
  <2>2. CASE ReleaseNext
    BY <2>1, <2>2 DEF ReleaseNext
  <2>3. CASE \E c \in Containers : CleanUpCase(c) \/ RecoverCase(c)
    BY <1>1, <2>0, <2>1, <2>3, Stacks DEF CleanUpCase, RecoverCase, Becomes, Containers
  <2>4. CASE \/ SettleTransport("proxy", "stop_proxy", "stop_broker")
             \/ SettleTransport("broker", "stop_broker", "collect")
    BY <1>1, <2>0, <2>1, <2>4, Stacks DEF SettleTransport
  <2>5. CASE \/ StopTransport("proxy", "stop_proxy", "stop_broker")
             \/ StopTransport("broker", "stop_broker", "collect")
    BY <1>1, <2>0, <2>5, Stacks DEF StopTransport, Becomes, Transports
  <2>6. CASE StartTransport("broker", "proxy") \/ StartTransport("proxy", "workload")
    BY <1>1, <2>0, <2>6, Stacks DEF StartTransport, Becomes, Transports
  <2>7. CASE \/ CreateScratch
             \/ \E c \in Containers : StartCase(c) \/ CreateContainer(c) \/ RunContainer(c)
    BY <1>1, <2>0, <2>7, Stacks DEF CreateScratch, StartCase, CreateContainer, RunContainer, Becomes,
                      Containers
  <2>8. CASE \/ SecureScratch \/ PrepareRun \/ AssessIsolation \/ FailBeforeLaunch
             \/ StartWorkload \/ AbandonStartup \/ Collect \/ TakeSnapshot \/ WriteReceipt
             \/ TerminateBudget \/ Ended \/ UNCHANGED vars
    BY <1>1, <2>8
    DEF SecureScratch, PrepareRun, AssessIsolation, FailBeforeLaunch, StartWorkload,
        AbandonStartup, Collect, TakeSnapshot, WriteReceipt, TerminateBudget, Ended, vars
  <2> QED BY <1>1, <2>2, <2>3, <2>4, <2>5, <2>6, <2>7, <2>8 DEF Next, Forward
<1>2. IInv /\ [Next]_vars =>
        [world["scratch"] = "live" /\ world'["scratch"] = "gone" => leases' = <<>>]_vars
  BY <1>1
<1> QED BY <1>2, Invariant, PTL DEF Spec, ScratchGoesLast
=============================================================================
