-------------------------- MODULE InterruptRegistry --------------------------
(***************************************************************************)
(* How an interrupt finds the execution it is meant for                    *)
(* (src/src/execution/cancellation.rs, and the order in which scheduler.rs *)
(* builds and drops what belongs to an execution).  Executions follow each *)
(* other or overlap on the threads of one process; the interrupt handler   *)
(* runs on a thread of its own.  The registry holds a weak reference to    *)
(* the active budget: whether it can be upgraded depends on who still      *)
(* owns the budget, the handler included.                                  *)
(***************************************************************************)
EXTENDS Integers

CONSTANTS
  MaxExecutions,  (* the executions of one process, in the order in which  *)
                  (* they come to register                                 *)
  MaxInterrupts,  (* a bound of the model: interrupts in a behaviour       *)
  None

ASSUME RegistryParameters == MaxExecutions \in Nat /\ MaxInterrupts \in Nat /\ None \notin Nat

Executions == 1..MaxExecutions

VARIABLES
  interrupted,  (* INTERRUPTED                                             *)
  active,       (* the execution ACTIVE_BUDGET refers to, None at first    *)
  stage,        (* where each execution's scheduler stands                 *)
  cancelled,    (* the cancelled watch of each budget                      *)
  handler,      (* where the interrupt handler stands                      *)
  held,         (* the budget the handler has upgraded                     *)
  interrupts    (* counts towards MaxInterrupts                            *)

registryVars == <<interrupted, active, stage, cancelled, handler, held, interrupts>>

Stages == {"new", "registered", "running", "dropping", "over", "refused"}
Alive(e) == stage[e] \in {"registered", "running"} \/ held = e
Owned == active # None /\ Alive(active)

RegistryInit ==
  /\ interrupted = FALSE /\ active = None
  /\ stage = [e \in Executions |-> "new"]
  /\ cancelled = [e \in Executions |-> FALSE]
  /\ handler = "idle" /\ held = None /\ interrupts = 0

Stand(e, where) == stage' = [stage EXCEPT ![e] = where]

(* register_cancellation under the lock of ACTIVE_BUDGET: a budget that    *)
(* somebody still owns refuses the next ...                                *)
Register(e) ==
  /\ stage[e] = "new" /\ \A d \in 1..(e - 1) : stage[d] # "new"
  /\ IF Owned
     THEN Stand(e, "refused") /\ UNCHANGED active
     ELSE Stand(e, "registered") /\ active' = e
  /\ UNCHANGED <<interrupted, cancelled, handler, held, interrupts>>

(* ... and an interrupt that found no budget cancels the one that comes.   *)
SwapFlag(e) ==
  /\ stage[e] = "registered"
  /\ interrupted' = FALSE
  /\ cancelled' = [cancelled EXCEPT ![e] = @ \/ interrupted]
  /\ Stand(e, "running")
  /\ UNCHANGED <<active, handler, held, interrupts>>

(* Mutant: the flag is swapped before the budget can be found.             *)
RegisterLate(e) ==
  \/ /\ stage[e] = "new" /\ \A d \in 1..(e - 1) : stage[d] # "new"
     /\ IF Owned
        THEN Stand(e, "refused") /\ UNCHANGED <<interrupted, cancelled>>
        ELSE /\ Stand(e, "registered")
             /\ interrupted' = FALSE
             /\ cancelled' = [cancelled EXCEPT ![e] = @ \/ interrupted]
     /\ UNCHANGED <<active, handler, held, interrupts>>
  \/ /\ stage[e] = "registered"
     /\ Stand(e, "running") /\ active' = e
     /\ UNCHANGED <<interrupted, cancelled, handler, held, interrupts>>

RegisterCancellation(e) == Register(e) \/ SwapFlag(e)

(* ExecutionScheduler drops its runtime and its budget first ...           *)
DropBudget(e) ==
  /\ stage[e] = "running"
  /\ Stand(e, "dropping")
  /\ UNCHANGED <<interrupted, active, cancelled, handler, held, interrupts>>

(* ... and then the registration, which finds itself current only while    *)
(* the handler still owns the budget.                                      *)
DropRegistration(e) ==
  /\ stage[e] = "dropping"
  /\ IF active = e /\ Alive(e)
     THEN active' = None /\ interrupted' = FALSE
     ELSE UNCHANGED <<active, interrupted>>
  /\ Stand(e, "over")
  /\ UNCHANGED <<cancelled, handler, held, interrupts>>

-----------------------------------------------------------------------------
(* cancel_active, on the handler's thread                                  *)

Interrupt ==
  /\ handler = "idle" /\ interrupts < MaxInterrupts
  /\ interrupted' = TRUE /\ handler' = "looking"
  /\ interrupts' = interrupts + 1
  /\ UNCHANGED <<active, stage, cancelled, held>>

FindBudget ==
  /\ handler = "looking"
  /\ IF Owned
     THEN held' = active /\ handler' = "cancelling"
     ELSE handler' = "idle" /\ UNCHANGED held
  /\ UNCHANGED <<interrupted, active, stage, cancelled, interrupts>>

CancelHeld ==
  /\ handler = "cancelling"
  /\ cancelled' = [cancelled EXCEPT ![held] = TRUE]
  /\ held' = None /\ handler' = "idle"
  /\ UNCHANGED <<interrupted, active, stage, interrupts>>

Handle == Interrupt \/ FindBudget \/ CancelHeld
=============================================================================
