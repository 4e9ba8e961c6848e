---------------------- MODULE InterruptedCommandsProofs ----------------------
(***************************************************************************)
(* What holds of interrupts and of a bounded command for any number of     *)
(* executions and interrupts, any output ceiling and any amount of output. *)
(* The registry and the command are separate: each has an invariant of its *)
(* own, which a step of the other cannot disturb.                          *)
(***************************************************************************)
EXTENDS InterruptedCommands, TLAPS

(***************************************************************************)
(* The registry                                                            *)
(***************************************************************************)

RegistryOK ==
  /\ interrupted \in BOOLEAN /\ active \in Executions \cup {None}
  /\ stage \in [Executions -> Stages] /\ cancelled \in [Executions -> BOOLEAN]
  /\ handler \in {"idle", "looking", "cancelling"} /\ held \in Executions \cup {None}
  /\ interrupts \in 0..MaxInterrupts

(* Whoever is registered can be found.                                     *)
FoundInv == \A e \in Executions : stage[e] \in {"registered", "running"} => active = e

(* The handler holds a budget exactly while it cancels it; if the registry *)
(* has let go of that budget meanwhile, the flag went with it.             *)
HeldInv ==
  /\ held # None <=> handler = "cancelling"
  /\ handler = "cancelling" => active = held \/ ~interrupted

(* An interrupt that an execution has not heard is still with the handler. *)
PendingInv ==
  \A e \in Executions :
    interrupted /\ stage[e] = "running" /\ ~cancelled[e] =>
      handler = "looking" \/ (handler = "cancelling" /\ held = e)

RegistryInv == RegistryOK /\ FoundInv /\ HeldInv /\ PendingInv

(* No execution is called None.                                            *)
LEMMA NoneIsNoExecution == None \notin Executions
BY RegistryParameters DEF Executions

(* Before anything registers there is nothing to find.                     *)
LEMMA RegistryStarts == RegistryInit => RegistryInv
<1> SUFFICES ASSUME RegistryInit PROVE RegistryInv
  OBVIOUS
<1>1. RegistryOK
  <2>1. interrupts \in 0..MaxInterrupts
    BY RegistryParameters DEF RegistryInit
  <2>2. stage \in [Executions -> Stages]
    BY DEF RegistryInit, Stages
  <2>3. cancelled \in [Executions -> BOOLEAN]
    BY Zenon DEF RegistryInit
  <2> QED BY <2>1, <2>2, <2>3 DEF RegistryInit, RegistryOK
<1>2. FoundInv /\ PendingInv
  BY DEF RegistryInit, FoundInv, PendingInv
<1>3. HeldInv
  BY DEF RegistryInit, HeldInv
<1> QED BY <1>1, <1>2, <1>3 DEF RegistryInv

(* Registering: a budget that somebody owns refuses the next, so that two  *)
(* executions are never registered at once.                                *)
LEMMA RegisterKeeps ==
  ASSUME RegistryInv, NEW e \in Executions, Register(e)
  PROVE  RegistryInv'
<1> USE NoneIsNoExecution DEF RegistryInv
<1>1. RegistryOK'
  BY DEF Register, Stand, RegistryOK, Stages
<1>2. FoundInv'
  <2>1. CASE Owned
    BY <2>1 DEF Register, Stand, FoundInv, RegistryOK
  <2>2. CASE ~Owned
    <3>1. \A d \in Executions : stage[d] \notin {"registered", "running"}
      BY <2>2 DEF FoundInv, Owned, Alive, RegistryOK
    <3> QED BY <2>2, <3>1 DEF Register, Stand, FoundInv, RegistryOK
  <2> QED BY <2>1, <2>2
<1>3. HeldInv'
  BY DEF Register, HeldInv, Owned, Alive, RegistryOK
<1>4. PendingInv'
  BY DEF Register, Stand, PendingInv, RegistryOK
<1> QED BY <1>1, <1>2, <1>3, <1>4

(* Swapping the flag hands its interrupt to the budget.                    *)
LEMMA SwapKeeps ==
  ASSUME RegistryInv, NEW e \in Executions, SwapFlag(e)
  PROVE  RegistryInv'
BY DEF SwapFlag, Stand, RegistryInv, RegistryOK, FoundInv, HeldInv, PendingInv, Stages

(* Dropping an execution.                                                  *)
LEMMA DropKeeps ==
  ASSUME RegistryInv, NEW e \in Executions, DropBudget(e) \/ DropRegistration(e)
  PROVE  RegistryInv'
<1> USE NoneIsNoExecution DEF RegistryInv
<1>1. ASSUME DropBudget(e) PROVE RegistryInv'
  BY <1>1 DEF DropBudget, Stand, RegistryOK, FoundInv, HeldInv, PendingInv, Stages
<1>2. ASSUME DropRegistration(e) PROVE RegistryInv'
  BY <1>2 DEF DropRegistration, Stand, RegistryOK, FoundInv, HeldInv, PendingInv, Stages
<1> QED BY <1>1, <1>2

(* The handler finds the budget that is registered, and cancels it.        *)
LEMMA HandleKeeps ==
  ASSUME RegistryInv, Handle
  PROVE  RegistryInv'
<1> USE NoneIsNoExecution DEF RegistryInv
<1>1. ASSUME Interrupt PROVE RegistryInv'
  BY <1>1, RegistryParameters DEF Interrupt, RegistryOK, FoundInv, HeldInv, PendingInv
<1>2. ASSUME FindBudget PROVE RegistryInv'
  BY <1>2 DEF FindBudget, Owned, Alive, RegistryOK, FoundInv, HeldInv, PendingInv
<1>3. ASSUME CancelHeld PROVE RegistryInv'
  BY <1>3 DEF CancelHeld, RegistryOK, FoundInv, HeldInv, PendingInv
<1> QED BY <1>1, <1>2, <1>3 DEF Handle

-----------------------------------------------------------------------------
(***************************************************************************)
(* The command                                                             *)
(***************************************************************************)

Held == {"loading", "swapping"}

CommandOK ==
  /\ command \in InProgress \cup {"none", "returned", "error", "dropped"}
  /\ why \subseteq Flags /\ full \in BOOLEAN
  /\ child \in {"none", "running", "exited", "reaped"} /\ heir \in BOOLEAN
  /\ written \in [Streams -> Nat] /\ pending \in [Streams -> Nat]
  /\ reader \in [Streams -> {"none", "reading", "loading", "swapping", "done", "failed"}]
  /\ count \in [Streams -> 0..BufferSize] /\ loaded \in [Streams -> 0..MaxOutput]
  /\ captured \in [Streams -> Nat] /\ consumed \in 0..MaxOutput

(* A joining command has reaped its child.                                 *)
ReapedInv == command \in {"joining", "returned"} => child = "reaped"

(* What is reserved in the counter is what was kept.                       *)
CounterInv == consumed = Total(captured)

(* Every byte written is kept, taken or still in the pipe; one can be lost *)
(* only when the ceiling or an error was noticed.                          *)
BytesInv ==
  /\ Total(written) <= MaxWritten
  /\ \A s \in Streams :
       /\ captured[s] + count[s] + pending[s] <= written[s]
       /\ ~full => captured[s] + count[s] + pending[s] = written[s]
       /\ reader[s] \notin Held => count[s] = 0
       /\ ~full /\ reader[s] = "done" => pending[s] = 0

(* The result of a command that returned.                                  *)
ResultInv ==
  command = "returned" =>
    /\ \A s \in Streams : reader[s] = "done"
    /\ full => why # {}

CommandInv == CommandOK /\ ReapedInv /\ CounterInv /\ BytesInv /\ ResultInv

(* Before the command everything is zero.                                  *)
LEMMA CommandStarts == CommandInit => CommandInv
<1> SUFFICES ASSUME CommandInit PROVE CommandInv
  OBVIOUS
<1>1. CommandOK
  <2>1. consumed \in 0..MaxOutput /\ 0 \in 0..BufferSize /\ 0 \in 0..MaxOutput
    BY CommandParameters DEF CommandInit
  <2>2. reader \in [Streams -> {"none", "reading", "loading", "swapping", "done", "failed"}]
    BY DEF CommandInit
  <2>3. heir \in BOOLEAN /\ full \in BOOLEAN
    BY DEF CommandInit
  <2> QED BY <2>1, <2>2, <2>3 DEF CommandInit, CommandOK, InProgress
<1>2. CounterInv /\ BytesInv
  BY CommandParameters DEF CommandInit, CounterInv, BytesInv, Total, Streams, Held
<1>3. ReapedInv /\ ResultInv
  BY DEF CommandInit, ReapedInv, ResultInv
<1> QED BY <1>1, <1>2, <1>3 DEF CommandInv

(* A new command starts from zero.                                         *)
LEMMA SpawnKeeps == Spawn => CommandInv'
<1> SUFFICES ASSUME Spawn PROVE CommandInv'
  OBVIOUS
<1>1. CommandOK'
  <2>1. consumed' \in 0..MaxOutput /\ 0 \in 0..BufferSize /\ 0 \in 0..MaxOutput
    BY CommandParameters DEF Spawn
  <2>2. reader' \in [Streams -> {"none", "reading", "loading", "swapping", "done", "failed"}]
    BY DEF Spawn
  <2>3. heir' \in BOOLEAN /\ full' \in BOOLEAN
    BY DEF Spawn
  <2> QED BY <2>1, <2>2, <2>3 DEF Spawn, CommandOK, InProgress
<1>2. CounterInv' /\ BytesInv'
  BY CommandParameters DEF Spawn, CounterInv, BytesInv, Total, Streams, Held
<1>3. ReapedInv' /\ ResultInv'
  BY DEF Spawn, ReapedInv, ResultInv
<1> QED BY <1>1, <1>2, <1>3 DEF CommandInv

(* What the child and the processes it leaves do.                          *)
LEMMA EnvironmentKeeps ==
  ASSUME CommandInv, command \in InProgress, Environment
  PROVE  CommandInv'
<1> USE DEF CommandInv, streams, capture
<1>1. ASSUME ExitChild PROVE CommandInv'
  BY <1>1 DEF ExitChild, CommandOK, ReapedInv, CounterInv, BytesInv, ResultInv
<1>2. ASSUME ExitHeir PROVE CommandInv'
  BY <1>2 DEF ExitHeir, CommandOK, ReapedInv, CounterInv, BytesInv, ResultInv
<1>3. ASSUME NEW s \in Streams, Write(s) PROVE CommandInv'
  <2>1. CommandOK' /\ CounterInv' /\ ReapedInv' /\ ResultInv'
    BY <1>3 DEF Write, CommandOK, ReapedInv, CounterInv, ResultInv
  <2>2. BytesInv'
    BY <1>3, CommandParameters DEF Write, CommandOK, BytesInv, Total, Streams, Held
  <2> QED BY <2>1, <2>2
<1>4. ASSUME NEW s \in Streams, ReadFails(s) PROVE CommandInv'
  <2>1. CommandOK' /\ CounterInv' /\ ReapedInv' /\ ResultInv'
    BY <1>4 DEF ReadFails, Goes, CommandOK, ReapedInv, CounterInv, ResultInv, InProgress
  <2>2. BytesInv'
    BY <1>4 DEF ReadFails, Goes, CommandOK, BytesInv, Held
  <2> QED BY <2>1, <2>2
<1> QED BY <1>1, <1>2, <1>3, <1>4 DEF Environment

(* What a reader does; a swap that succeeds saw the counter as it is.      *)
LEMMA CaptureKeeps ==
  ASSUME CommandInv, command \in InProgress, NEW s \in Streams, Capture(s)
  PROVE  CommandInv'
<1> USE DEF CommandInv, streams, capture
<1>1. ASSUME Read(s) PROVE CommandInv'
  <2>1. count'[s] \in 0..BufferSize /\ count'[s] <= pending[s]
    BY <1>1, CommandParameters DEF Read, CommandOK, Lesser
  <2>2. CommandOK' /\ CounterInv' /\ ReapedInv' /\ ResultInv'
    BY <1>1, <2>1 DEF Read, Goes, CommandOK, ReapedInv, CounterInv, ResultInv, InProgress
  <2>3. BytesInv'
    BY <1>1, <2>1 DEF Read, Goes, CommandOK, BytesInv, Held
  <2> QED BY <2>2, <2>3
<1>2. ASSUME EndOfStream(s) PROVE CommandInv'
  <2>1. CommandOK' /\ CounterInv' /\ ReapedInv' /\ ResultInv'
    BY <1>2 DEF EndOfStream, Goes, CommandOK, ReapedInv, CounterInv, ResultInv, InProgress
  <2>2. BytesInv'
    BY <1>2 DEF EndOfStream, Goes, CommandOK, BytesInv, Held
  <2> QED BY <2>1, <2>2
<1>3. ASSUME LoadConsumed(s) PROVE CommandInv'
  <2>1. CommandOK' /\ CounterInv' /\ ReapedInv' /\ ResultInv'
    BY <1>3 DEF LoadConsumed, Goes, CommandOK, ReapedInv, CounterInv, ResultInv, InProgress
  <2>2. BytesInv'
    BY <1>3 DEF LoadConsumed, Goes, CommandOK, BytesInv, Held
  <2> QED BY <2>1, <2>2
<1>4. ASSUME SwapConsumed(s), consumed = loaded[s], Keep(s), consumed' = consumed + Accepted(s)
      PROVE  CommandInv'
  <2> DEFINE a == Accepted(s)
  <2>1. a \in Nat /\ a <= count[s] /\ consumed + a <= MaxOutput
    BY <1>4, CommandParameters DEF CommandOK, Accepted, Lesser
  <2>2. /\ captured' = [captured EXCEPT ![s] = @ + a]
        /\ full' = (full \/ a # count[s])
        /\ reader' = [reader EXCEPT ![s] = IF a = count[s] THEN "reading" ELSE "done"]
        /\ count' = [count EXCEPT ![s] = 0] /\ loaded' = [loaded EXCEPT ![s] = 0]
        /\ consumed' = consumed + a
        /\ UNCHANGED <<command, why, child, heir, written, pending>>
    BY <1>4 DEF SwapConsumed, Keep, Goes
  <2> HIDE DEF a
  <2>3. CommandOK'
    BY <2>1, <2>2, CommandParameters DEF CommandOK
  <2>4. CounterInv'
    BY <2>1, <2>2 DEF CommandOK, CounterInv, Total, Streams
  <2>5. BytesInv'
    <3>1. /\ captured[s] + a + 0 + pending[s] <= written[s]
          /\ ~(full \/ a # count[s]) => captured[s] + a + 0 + pending[s] = written[s]
      BY <2>1 DEF CommandOK, BytesInv
    <3>2. ~full' => a = count[s]
      BY <2>2 DEF CommandOK
    <3>3. captured'[s] = captured[s] + a /\ count'[s] = 0
      BY <2>2 DEF CommandOK
    <3>4. /\ captured'[s] + count'[s] + pending'[s] <= written'[s]
          /\ ~full' => captured'[s] + count'[s] + pending'[s] = written'[s]
          /\ reader'[s] \notin Held => count'[s] = 0
          /\ ~full' /\ reader'[s] = "done" => pending'[s] = 0
      BY <2>2, <3>1, <3>2, <3>3 DEF CommandOK
    <3>5. ASSUME NEW r \in Streams, r # s
          PROVE  /\ captured'[r] + count'[r] + pending'[r] <= written'[r]
                 /\ ~full' => captured'[r] + count'[r] + pending'[r] = written'[r]
                 /\ reader'[r] \notin Held => count'[r] = 0
                 /\ ~full' /\ reader'[r] = "done" => pending'[r] = 0
      <4>1. /\ captured'[r] = captured[r] /\ count'[r] = count[r] /\ reader'[r] = reader[r]
            /\ pending' = pending /\ written' = written /\ (~full' => ~full)
        BY <2>2, <3>5 DEF CommandOK
      <4> QED BY <4>1 DEF BytesInv
    <3>6. Total(written)' <= MaxWritten
      BY <2>2 DEF BytesInv, Total
    <3> QED BY <3>4, <3>5, <3>6 DEF BytesInv
  <2>6. ReapedInv' /\ ResultInv'
    BY <2>2 DEF ReapedInv, ResultInv, InProgress
  <2> QED BY <2>3, <2>4, <2>5, <2>6
<1>5. ASSUME SwapConsumed(s), Goes(s, "loading"),
             UNCHANGED <<count, loaded, captured, consumed, full>>
      PROVE  CommandInv'
  <2>1. CommandOK' /\ CounterInv' /\ ReapedInv' /\ ResultInv'
    BY <1>5 DEF SwapConsumed, Goes, CommandOK, ReapedInv, CounterInv, ResultInv, InProgress
  <2>2. BytesInv'
    BY <1>5 DEF SwapConsumed, Goes, CommandOK, BytesInv, Held
  <2> QED BY <2>1, <2>2
<1> QED BY <1>1, <1>2, <1>3, <1>4, <1>5 DEF Capture, SwapConsumed

(* What run_bounded_command does around its child and its readers.         *)
LEMMA SuperviseKeeps ==
  ASSUME CommandInv, command \in InProgress, NEW stop \in BOOLEAN, Supervise(stop) \/ Abandon
  PROVE  CommandInv'
<1> USE DEF CommandInv, streams, capture
<1>1. ASSUME SeeExit PROVE CommandInv'
  BY <1>1 DEF SeeExit, CommandOK, ReapedInv, CounterInv, BytesInv, ResultInv, InProgress
<1>2. ASSUME NEW flag \in Flags, Terminate(flag) PROVE CommandInv'
  BY <1>2 DEF Terminate, CommandOK, ReapedInv, CounterInv, BytesInv, ResultInv, InProgress
<1>3. TimeOut \/ SeeCaptureFailure \/ SeeCancellation(stop) => CommandInv'
  BY <1>2 DEF TimeOut, SeeCaptureFailure, SeeCancellation, Flags
<1>4. ASSUME KillChild PROVE CommandInv'
  BY <1>4 DEF KillChild, CommandOK, ReapedInv, CounterInv, BytesInv, ResultInv, InProgress
<1>5. ASSUME Join PROVE CommandInv'
  <2>1. CommandOK' /\ ReapedInv'
    BY <1>5 DEF Join, CommandOK, ReapedInv, InProgress, Flags
  <2>2. CounterInv' /\ BytesInv'
    BY <1>5 DEF Join, CounterInv, BytesInv
  <2>3. ResultInv'
    BY <1>5 DEF Join, ResultInv
  <2> QED BY <2>1, <2>2, <2>3
<1>6. ASSUME JoinFails \/ Abandon PROVE CommandInv'
  BY <1>6 DEF JoinFails, Abandon, CommandOK, ReapedInv, CounterInv, BytesInv, ResultInv,
              InProgress
<1> QED BY <1>1, <1>3, <1>4, <1>5, <1>6 DEF Supervise

-----------------------------------------------------------------------------
(***************************************************************************)
(* Both together                                                           *)
(***************************************************************************)

OwnerInv == owner \in Executions \cup {None}

IInv == RegistryInv /\ CommandInv /\ OwnerInv

(* Each step keeps the invariant of the part it belongs to.                *)
LEMMA InductiveStep == IInv /\ [Next]_hostVars => IInv'
<1> SUFFICES ASSUME IInv, [Next]_hostVars PROVE IInv'
  OBVIOUS
<1> USE DEF IInv
<1>1. ASSUME UNCHANGED registryVars PROVE RegistryInv'
  BY <1>1 DEF registryVars, RegistryInv, RegistryOK, FoundInv, HeldInv, PendingInv
<1>2. ASSUME UNCHANGED commandVars PROVE CommandInv'
  BY <1>2 DEF commandVars, streams, capture, CommandInv, CommandOK, ReapedInv, CounterInv,
              BytesInv, ResultInv, Total
<1>3. ASSUME NEW e \in Executions, RunCommand(e) PROVE IInv'
  BY <1>1, <1>3, SpawnKeeps DEF RunCommand, OwnerInv
<1>4. ASSUME NEW e \in Executions, EndExecution(e) PROVE IInv'
  BY <1>2, <1>4, DropKeeps DEF EndExecution, OwnerInv
<1>5. ASSUME RegistrySteps PROVE IInv'
  <2>1. RegistryInv'
    BY <1>5, HandleKeeps, RegisterKeeps, SwapKeeps, DropKeeps
       DEF RegistrySteps, RegisterCancellation
  <2> QED BY <1>2, <1>5, <2>1 DEF RegistrySteps, OwnerInv
<1>6. ASSUME CommandSteps PROVE IInv'
  <2>1. CASE Supervised
    <3>1. cancelled[owner] \in BOOLEAN
      BY <2>1 DEF Supervised, OwnerInv, RegistryInv, RegistryOK
    <3>2. CommandInv'
      BY <1>6, <2>1, <3>1, SuperviseKeeps DEF Supervised, CommandSteps
    <3> QED BY <1>1, <1>6, <3>2 DEF CommandSteps, OwnerInv
  <2>2. CASE Environment \/ Abandon \/ \E s \in Streams : Capture(s)
    <3>1. CommandInv'
      BY <1>6, <2>2, EnvironmentKeeps, CaptureKeeps, SuperviseKeeps DEF CommandSteps
    <3> QED BY <1>1, <1>6, <3>1 DEF CommandSteps, OwnerInv
  <2> QED BY <1>6, <2>1, <2>2 DEF CommandSteps
<1>7. ASSUME UNCHANGED hostVars PROVE IInv'
  BY <1>1, <1>2, <1>7 DEF hostVars, OwnerInv
<1> QED BY <1>3, <1>4, <1>5, <1>6, <1>7 DEF Next

(* The inductive invariant, for every instance.                            *)
THEOREM Invariant == Spec => []IInv
<1>1. Init => IInv
  BY RegistryStarts, CommandStarts DEF Init, IInv, OwnerInv
<1> QED BY <1>1, InductiveStep, PTL DEF Spec

(* The variables keep their types, and a command that returned has reaped  *)
(* its child.                                                              *)
THEOREM TypeCorrect == Spec => []TypeOK
<1>1. IInv => TypeOK
  <2> SUFFICES ASSUME IInv PROVE TypeOK
    OBVIOUS
  <2>1. ASSUME NEW s \in Streams
        PROVE  /\ written[s] \in 0..MaxWritten /\ pending[s] \in 0..MaxWritten
               /\ captured[s] \in 0..MaxOutput
    BY CommandParameters
       DEF IInv, CommandInv, CommandOK, CounterInv, BytesInv, Total, Streams
  <2>2. /\ written \in [Streams -> 0..MaxWritten] /\ pending \in [Streams -> 0..MaxWritten]
        /\ captured \in [Streams -> 0..MaxOutput]
    BY <2>1 DEF IInv, CommandInv, CommandOK
  <2> QED BY <2>2 DEF IInv, RegistryInv, RegistryOK, CommandInv, CommandOK, ReapedInv,
                      OwnerInv, TypeOK
<1> QED BY <1>1, Invariant, PTL

(* An interrupt that has been handled has cancelled the execution that is  *)
(* running, in every interleaving of handler, registration and drop.       *)
THEOREM InterruptsAreAlwaysHeard == Spec => []InterruptsAreHeard
<1>1. IInv => InterruptsAreHeard
  BY DEF IInv, RegistryInv, PendingInv, InterruptsAreHeard
<1> QED BY <1>1, Invariant, PTL

(* The two readers of a command never exceed its ceiling together.         *)
THEOREM CapturesAreBounded == Spec => []CaptureIsBounded
<1>1. IInv => CaptureIsBounded
  BY DEF IInv, CommandInv, CommandOK, CounterInv, CaptureIsBounded
<1> QED BY <1>1, Invariant, PTL

(* A command that returned without a flag returned all of its output.      *)
THEOREM UnflaggedOutputIsAll == Spec => []UnflaggedOutputIsWhole
<1>1. IInv => UnflaggedOutputIsWhole
  <2> SUFFICES ASSUME IInv, command = "returned", why = {} PROVE captured = written
    BY DEF UnflaggedOutputIsWhole
  <2>1. ~full /\ \A s \in Streams : reader[s] = "done"
    BY DEF IInv, CommandInv, ResultInv
  <2>2. \A s \in Streams : captured[s] = written[s]
    BY <2>1 DEF IInv, CommandInv, CommandOK, BytesInv, Held
  <2> QED BY <2>2 DEF IInv, CommandInv, CommandOK
<1> QED BY <1>1, Invariant, PTL
=============================================================================
