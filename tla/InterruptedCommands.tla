------------------------- MODULE InterruptedCommands -------------------------
(***************************************************************************)
(* The executions of one process, one of which runs a bounded command that *)
(* its own budget can cancel, under interrupts that arrive at any moment:  *)
(* InterruptRegistry and BoundedCommand together.                          *)
(***************************************************************************)
EXTENDS InterruptRegistry, BoundedCommand

VARIABLE owner  (* the execution whose command it is, None before          *)

hostVars == <<registryVars, commandVars, owner>>

Init == RegistryInit /\ CommandInit /\ owner = None

(* run_bounded_command_cancellable with the budget of e (one command is a  *)
(* bound of the model).                                                    *)
RunCommand(e) ==
  /\ stage[e] = "running" /\ owner = None
  /\ owner' = e
  /\ Spawn
  /\ UNCHANGED registryVars

(* The scheduler is dropped when its work has returned, or is dropped with *)
(* it; with the runtime go the readers.                                    *)
EndExecution(e) ==
  /\ owner = e => command \notin InProgress
  /\ DropBudget(e)
  /\ UNCHANGED <<commandVars, owner>>

Supervised == owner # None /\ Supervise(cancelled[owner])

RegistrySteps ==
  /\ \/ Handle
     \/ \E e \in Executions : RegisterCancellation(e) \/ DropRegistration(e)
  /\ UNCHANGED <<commandVars, owner>>

(* Readers that an error left behind are not followed.                     *)
CommandSteps ==
  /\ command \in InProgress
  /\ \/ Supervised \/ Environment \/ Abandon
     \/ \E s \in Streams : Capture(s)
  /\ UNCHANGED <<registryVars, owner>>

Next ==
  \/ \E e \in Executions : RunCommand(e) \/ EndExecution(e)
  \/ RegistrySteps \/ CommandSteps

Spec == Init /\ [][Next]_hostVars

(* The runtime polls what can run, its timer fires, and whoever keeps the  *)
(* pipes lets go of them; the child itself may run for ever.               *)
Alone(A) == command \in InProgress /\ A /\ UNCHANGED <<registryVars, owner>>
Fairness ==
  /\ WF_hostVars(Alone(Supervised)) /\ WF_hostVars(Alone(ExitHeir))
  /\ \A s \in Streams : WF_hostVars(Alone(Capture(s)))

FairSpec == Spec /\ Fairness

-----------------------------------------------------------------------------
(* Properties                                                              *)

TypeOK ==
  /\ interrupted \in BOOLEAN /\ active \in Executions \cup {None}
  /\ stage \in [Executions -> Stages] /\ cancelled \in [Executions -> BOOLEAN]
  /\ handler \in {"idle", "looking", "cancelling"} /\ held \in Executions \cup {None}
  /\ interrupts \in 0..MaxInterrupts
  /\ command \in InProgress \cup {"none", "returned", "error", "dropped"}
  /\ why \subseteq Flags /\ full \in BOOLEAN
  /\ child \in {"none", "running", "exited", "reaped"} /\ heir \in BOOLEAN
  /\ written \in [Streams -> 0..MaxWritten] /\ pending \in [Streams -> 0..MaxWritten]
  /\ reader \in [Streams -> {"none", "reading", "loading", "swapping", "done", "failed"}]
  /\ count \in [Streams -> 0..BufferSize] /\ loaded \in [Streams -> 0..MaxOutput]
  /\ captured \in [Streams -> 0..MaxOutput] /\ consumed \in 0..MaxOutput
  /\ owner \in Executions \cup {None}
  /\ command = "returned" => child = "reaped"

(* An interrupt that has been handled has cancelled the execution that is  *)
(* running, whichever of registering, looking and dropping came first: one *)
(* that comes between two executions is found by the flag.                 *)
InterruptsAreHeard ==
  handler = "idle" /\ interrupted => \A e \in Executions : stage[e] = "running" => cancelled[e]

(* Two readers never keep more than max_output_bytes together, and what is *)
(* reported as consumed is what was kept.                                  *)
CaptureIsBounded ==
  /\ Total(captured) <= MaxOutput
  /\ command = "returned" => consumed = Total(captured)

(* A command that returns without a flag returns all its output: a reader  *)
(* that reaches the ceiling as the child exits is still noticed.           *)
UnflaggedOutputIsWhole ==
  command = "returned" /\ why = {} => captured = written

(* A command ends, whether or not its child ever would.                    *)
CommandEnds == command \in InProgress ~> command \notin InProgress
=============================================================================
