----------------------------- MODULE CallBudget -----------------------------
(***************************************************************************)
(* The call budget of one execution (src/src/execution/budget.rs): every   *)
(* call to a target is a permit that reserve_call hands out after passing  *)
(* a ledger behind a mutex, a semaphore, and a paced admission slot.       *)
(* Calls are reserved by asynchronous tasks on a multi-threaded runtime;   *)
(* each step below is one critical section or one resumption of an await.  *)
(* The clock is a bounded integer; whether a due timer may be noticed late *)
(* is the constant Prompt.                                                 *)
(***************************************************************************)
EXTENDS Integers, Sequences, FiniteSets

CONSTANTS
  Tasks,           (* the asynchronous tasks that reserve calls            *)
  MaxCalls,        (* limits.max_calls                                     *)
  CleanupCalls,    (* the planned number of cleanup calls                  *)
  MaxConcurrency,  (* limits.max_concurrency                               *)
  Interval,        (* admission_interval, in clock ticks                   *)
  NormalDeadline,  (* normal_deadline                                      *)
  RunDeadline,     (* run_deadline                                         *)
  Abortable,       (* the tasks that may be aborted at an await            *)
  Answers,         (* the dispositions callers finish a permit with        *)
  Horizon,         (* the model's clock stops here (a bound of the model)  *)
  Prompt           (* TRUE: time passes only when no task can run          *)

(* The checks CallBudget::new makes before it builds a budget.             *)
ASSUME PlanAccepted ==
  /\ MaxCalls \in Nat /\ CleanupCalls \in 0..MaxCalls
  /\ MaxConcurrency \in Nat \ {0}
  /\ Interval \in Nat \ {0}
  /\ NormalDeadline \in Nat /\ RunDeadline \in Nat
  /\ NormalDeadline < RunDeadline
  /\ NormalDeadline = 0 => CleanupCalls = MaxCalls
  /\ CleanupCalls > 0 => CleanupCalls * Interval < RunDeadline - NormalDeadline

Dispositions == {"Completed", "Failed", "Rejected", "Cancelled"}

ASSUME AnswersAreDispositions == Answers \subseteq Dispositions /\ Answers # {}
ASSUME AbortableAreTasks == Abortable \subseteq Tasks

ASSUME ModelBounds ==
  /\ IsFiniteSet(Tasks)
  /\ Horizon \in Nat /\ RunDeadline <= Horizon
  /\ Prompt \in BOOLEAN

VARIABLES
  now,              (* the monotonic clock                                 *)
  closed,           (* the admission_closed watch                          *)
  cancelled,        (* the cancelled watch                                 *)
  termination,      (* BudgetState.termination, None until set             *)
  available,        (* permits left in the semaphore                       *)
  normalConsumed,   (* BudgetState.normal_consumed                         *)
  cleanupConsumed,  (* BudgetState.cleanup_consumed                        *)
  inFlight,         (* BudgetState.in_flight                               *)
  peak,             (* BudgetState.peak_concurrency                        *)
  normalNext,       (* BudgetState.normal_next_admission                   *)
  cleanupNext,      (* BudgetState.cleanup_next_admission, 0 for None      *)
  calls,            (* BudgetState.calls, indexed by sequence number       *)
  lastAdmitted,     (* BudgetState.last_admitted_at, -Interval for None    *)
  lastNormal,       (* history: when the last normal call was admitted     *)
  pc,               (* where each task stands in reserve_call              *)
  kind,             (* the category a task is reserving                    *)
  seq,              (* the sequence number it was given, 0 for none        *)
  slot,             (* its admission slot                                  *)
  cause,            (* the termination it is about to record               *)
  holds,            (* the tasks that own a semaphore permit               *)
  canceller         (* where an external CallBudget::cancel stands         *)

clock == <<now>>
flags == <<closed, cancelled, termination>>
ledger == <<normalConsumed, cleanupConsumed, calls>>
flight == <<inFlight, peak, lastAdmitted, lastNormal>>
pacing == <<normalNext, cleanupNext>>
semaphore == <<available, holds>>
local == <<kind, seq, slot, cause>>
vars == <<clock, flags, ledger, flight, pacing, semaphore, local, pc, canceller>>

None == "None"
Kinds == {"normal", "cleanup"}
Causes == {"CallsExhausted", "CleanupExhausted", "DeadlineExhausted"}
Terminations == Causes \cup {"Cancelled"}

NormalLimit == MaxCalls - CleanupCalls
Later(a, b) == IF a >= b THEN a ELSE b
DeadlineOf(k) == IF k = "cleanup" THEN RunDeadline ELSE NormalDeadline
Go(t, place) == pc' = [pc EXCEPT ![t] = place]

Init ==
  /\ now = 0
  /\ closed = FALSE /\ cancelled = FALSE /\ termination = None
  /\ available = MaxConcurrency /\ holds = {}
  /\ normalConsumed = 0 /\ cleanupConsumed = 0 /\ calls = <<>>
  /\ inFlight = 0 /\ peak = 0
  /\ lastAdmitted = -Interval /\ lastNormal = -Interval
  /\ normalNext = 0 /\ cleanupNext = 0
  /\ pc = [t \in Tasks |-> "idle"]
  /\ kind = [t \in Tasks |-> "normal"]
  /\ seq = [t \in Tasks |-> 0]
  /\ slot = [t \in Tasks |-> 0]
  /\ cause = [t \in Tasks |-> None]
  /\ canceller = "idle"

-----------------------------------------------------------------------------
(* reserve_call and allocate_call                                          *)

(* The reservation leaves reserve_call without a permit.                   *)
Leave(t) ==
  /\ Go(t, "idle")
  /\ seq' = [seq EXCEPT ![t] = 0]
  /\ slot' = [slot EXCEPT ![t] = 0]
  /\ cause' = [cause EXCEPT ![t] = None]
  /\ kind' = [kind EXCEPT ![t] = "normal"]

Doom(t, why) ==
  /\ Go(t, "terminate")
  /\ cause' = [cause EXCEPT ![t] = why]

(* Mutant: the deadline is only looked at while waiting.                   *)
RequestAnyTime(t, k) ==
  /\ pc[t] = "idle"
  /\ kind' = [kind EXCEPT ![t] = k]
  /\ closed' = (closed \/ k = "cleanup")
  /\ Go(t, "allocate")
  /\ UNCHANGED <<clock, cancelled, termination, ledger, flight, pacing,
                 semaphore, seq, slot, cause, canceller>>

(* reserve_call up to the ledger's mutex: a cleanup call stops normal      *)
(* admission before anything else, and the deadline is read.               *)
Request(t, k) ==
  /\ pc[t] = "idle"
  /\ kind' = [kind EXCEPT ![t] = k]
  /\ closed' = (closed \/ k = "cleanup")
  /\ IF now >= DeadlineOf(k)
     THEN Doom(t, "DeadlineExhausted")
     ELSE Go(t, "allocate") /\ UNCHANGED cause
  /\ UNCHANGED <<clock, cancelled, termination, ledger, flight, pacing,
                 semaphore, seq, slot, canceller>>

Consumed(k) == IF k = "cleanup" THEN cleanupConsumed ELSE normalConsumed
(* Mutant: the cleanup allowance is not taken from the normal one.         *)
LimitUnreserved(k) == IF k = "cleanup" THEN CleanupCalls ELSE MaxCalls
Limit(k) == IF k = "cleanup" THEN CleanupCalls ELSE NormalLimit
NewCall(k) == [kind |-> k, disposition |-> None]

(* A normal reservation finds admission closed: no termination is recorded *)
RefuseClosed(t) ==
  /\ pc[t] = "allocate" /\ kind[t] = "normal" /\ closed
  /\ Leave(t)
  /\ UNCHANGED <<clock, flags, ledger, flight, pacing, semaphore, canceller>>

Exhaust(t) ==
  /\ pc[t] = "allocate"
  /\ kind[t] = "normal" => ~closed
  /\ Consumed(kind[t]) >= Limit(kind[t])
  /\ Doom(t, IF kind[t] = "cleanup" THEN "CleanupExhausted" ELSE "CallsExhausted")
  /\ UNCHANGED <<clock, flags, ledger, flight, pacing, semaphore, kind, seq, slot,
                 canceller>>

(* Mutant: the closing of admission is not looked at under the mutex.      *)
AllocateAfterClose(t) ==
  /\ pc[t] = "allocate"
  /\ Consumed(kind[t]) < Limit(kind[t])
  /\ IF kind[t] = "cleanup"
     THEN cleanupConsumed' = cleanupConsumed + 1 /\ UNCHANGED normalConsumed
     ELSE normalConsumed' = normalConsumed + 1 /\ UNCHANGED cleanupConsumed
  /\ calls' = Append(calls, NewCall(kind[t]))
  /\ seq' = [seq EXCEPT ![t] = Len(calls) + 1]
  /\ Go(t, "acquire")
  /\ UNCHANGED <<clock, flags, flight, pacing, semaphore, kind, slot, cause, canceller>>

(* The call is entered in the ledger; it is never taken out again.         *)
Allocate(t) ==
  /\ pc[t] = "allocate"
  /\ kind[t] = "normal" => ~closed
  /\ Consumed(kind[t]) < Limit(kind[t])
  /\ IF kind[t] = "cleanup"
     THEN cleanupConsumed' = cleanupConsumed + 1 /\ UNCHANGED normalConsumed
     ELSE normalConsumed' = normalConsumed + 1 /\ UNCHANGED cleanupConsumed
  /\ calls' = Append(calls, NewCall(kind[t]))
  /\ seq' = [seq EXCEPT ![t] = Len(calls) + 1]
  /\ Go(t, "acquire")
  /\ UNCHANGED <<clock, flags, flight, pacing, semaphore, kind, slot, cause, canceller>>

-----------------------------------------------------------------------------
(* wait_for_concurrency, schedule_admission, wait_for_admission            *)

(* Mutant: cleanup calls space themselves from the last admission only.    *)
NextSlotBurst(k) ==
  IF k = "cleanup" THEN Later(lastAdmitted + Interval, now) ELSE Later(normalNext, now)

(* Mutant: cleanup takes the next normal slot for the last one given.      *)
NextSlotBehind(k) ==
  IF k = "cleanup"
  THEN Later(cleanupNext, Later(normalNext + Interval, now))
  ELSE Later(normalNext, now)

NextSlot(k) ==
  IF k = "cleanup"
  THEN Later(cleanupNext, Later(lastAdmitted + Interval, now))
  ELSE Later(normalNext, now)

(* Mutant: the normal clock is not moved past the slot it gave.            *)
AcquireUnpaced(t) ==
  /\ pc[t] = "acquire" /\ available > 0
  /\ available' = available - 1
  /\ holds' = holds \cup {t}
  /\ slot' = [slot EXCEPT ![t] = NextSlot(kind[t])]
  /\ IF kind[t] = "cleanup"
     THEN cleanupNext' = NextSlot("cleanup") + Interval /\ UNCHANGED normalNext
     ELSE normalNext' = NextSlot("normal") /\ UNCHANGED cleanupNext
  /\ Go(t, IF kind[t] = "normal" /\ closed THEN "abandon" ELSE "slot")
  /\ UNCHANGED <<clock, flags, ledger, flight, kind, seq, cause, canceller>>

(* The semaphore yields a permit and the call takes the next slot of its   *)
(* own clock; wait_for_admission gives up at once if admission is closed.  *)
Acquire(t) ==
  /\ pc[t] = "acquire" /\ available > 0
  /\ available' = available - 1
  /\ holds' = holds \cup {t}
  /\ slot' = [slot EXCEPT ![t] = NextSlot(kind[t])]
  /\ IF kind[t] = "cleanup"
     THEN cleanupNext' = NextSlot("cleanup") + Interval /\ UNCHANGED normalNext
     ELSE normalNext' = NextSlot("normal") + Interval /\ UNCHANGED cleanupNext
  /\ Go(t, IF kind[t] = "normal" /\ closed THEN "abandon" ELSE "slot")
  /\ UNCHANGED <<clock, flags, ledger, flight, kind, seq, cause, canceller>>

(* The slot's timer fires.  The select has no order: when the deadline or  *)
(* the closing of admission is ready as well, the timer may still win.     *)
Admit(t) ==
  /\ pc[t] = "slot" /\ now >= slot[t]
  /\ inFlight' = inFlight + 1
  /\ peak' = Later(peak, inFlight + 1)
  /\ lastAdmitted' = now
  /\ lastNormal' = IF kind[t] = "normal" THEN now ELSE lastNormal
  /\ slot' = [slot EXCEPT ![t] = 0]
  /\ Go(t, "calling")
  /\ UNCHANGED <<clock, flags, ledger, pacing, semaphore, kind, seq, cause, canceller>>

(* Mutant: the admission slot is awaited without the deadline.             *)
TimeOutAcquiring(t) ==
  /\ pc[t] = "acquire" /\ now >= DeadlineOf(kind[t])
  /\ Doom(t, "DeadlineExhausted")
  /\ UNCHANGED <<clock, flags, ledger, flight, pacing, semaphore, kind, seq, slot,
                 canceller>>

TimeOut(t) ==
  /\ pc[t] \in {"acquire", "slot"} /\ now >= DeadlineOf(kind[t])
  /\ Doom(t, "DeadlineExhausted")
  /\ UNCHANGED <<clock, flags, ledger, flight, pacing, semaphore, kind, seq, slot,
                 canceller>>

ObserveClosed(t) ==
  /\ pc[t] \in {"acquire", "slot"} /\ kind[t] = "normal" /\ closed
  /\ Go(t, "abandon")
  /\ UNCHANGED <<clock, flags, ledger, flight, pacing, semaphore, local, canceller>>

-----------------------------------------------------------------------------
(* terminate, finish_call and the end of a permit                          *)

Record(why) == termination' = IF termination = None THEN why ELSE termination

(* terminate takes the mutex for the first cause only, then closes          *)
(* admission outside it.                                                   *)
Terminate(t) ==
  /\ pc[t] = "terminate"
  /\ Record(cause[t])
  /\ Go(t, "close")
  /\ UNCHANGED <<clock, closed, cancelled, ledger, flight, pacing, semaphore, local,
                 canceller>>

(* Mutant: a termination only closes admission when it is a cancellation.  *)
CloseNothing(t) ==
  /\ pc[t] = "close"
  /\ IF seq[t] = 0
     THEN Leave(t)
     ELSE Go(t, "abandon") /\ UNCHANGED local
  /\ UNCHANGED <<clock, flags, ledger, flight, pacing, semaphore, canceller>>

CloseAdmission(t) ==
  /\ pc[t] = "close"
  /\ closed' = TRUE
  /\ IF seq[t] = 0
     THEN Leave(t)
     ELSE Go(t, "abandon") /\ UNCHANGED local
  /\ UNCHANGED <<clock, cancelled, termination, ledger, flight, pacing, semaphore,
                 canceller>>

(* finish_call: get_or_insert keeps the first disposition.                 *)
Settled(i, disposition) ==
  [calls EXCEPT ![i] = [kind |-> @.kind,
                        disposition |-> IF @.disposition = None THEN disposition
                                        ELSE @.disposition]]

(* Mutant: a permit is given back whether or not it was obtained.          *)
DropAnyPermit(t) == Go(t, "release") /\ UNCHANGED local

(* Where a reservation ends: a permit it still owns is dropped last.       *)
DropPermit(t) == IF t \in holds THEN Go(t, "release") /\ UNCHANGED local ELSE Leave(t)

Abandon(t) ==
  /\ pc[t] = "abandon"
  /\ calls' = Settled(seq[t], "Cancelled")
  /\ DropPermit(t)
  /\ UNCHANGED <<clock, flags, normalConsumed, cleanupConsumed, flight, pacing,
                 semaphore, canceller>>

Decremented == IF inFlight = 0 THEN 0 ELSE inFlight - 1

(* CallPermit::finish: the ledger first, the semaphore after it.           *)
Finish(t, disposition) ==
  /\ pc[t] = "calling"
  /\ calls' = Settled(seq[t], disposition)
  /\ inFlight' = Decremented
  /\ Go(t, "release")
  /\ UNCHANGED <<clock, flags, normalConsumed, cleanupConsumed, peak, lastAdmitted,
                 lastNormal, pacing, semaphore, local, canceller>>

Release(t) ==
  /\ pc[t] = "release"
  /\ available' = available + 1
  /\ holds' = holds \ {t}
  /\ Leave(t)
  /\ UNCHANGED <<clock, flags, ledger, flight, pacing, canceller>>

(* Mutant: a permit dropped unfinished stays in flight.                    *)
AbortInFlight(t) ==
  \/ /\ pc[t] = "calling"
     /\ calls' = Settled(seq[t], IF cancelled THEN "Cancelled" ELSE "Failed")
     /\ Go(t, "release")
     /\ UNCHANGED <<clock, flags, normalConsumed, cleanupConsumed, flight, pacing,
                    semaphore, local, canceller>>
  \/ /\ pc[t] \in {"acquire", "slot"}
     /\ DropPermit(t)
     /\ UNCHANGED <<clock, flags, ledger, flight, pacing, semaphore, canceller>>

(* The task is aborted at an await: a permit is dropped unfinished, and a  *)
(* reservation still waiting leaves its ledger entry without disposition.  *)
Abort(t) ==
  \/ /\ pc[t] = "calling"
     /\ calls' = Settled(seq[t], IF cancelled THEN "Cancelled" ELSE "Failed")
     /\ inFlight' = Decremented
     /\ Go(t, "release")
     /\ UNCHANGED <<clock, flags, normalConsumed, cleanupConsumed, peak, lastAdmitted,
                    lastNormal, pacing, semaphore, local, canceller>>
  \/ /\ pc[t] \in {"acquire", "slot"}
     /\ DropPermit(t)
     /\ UNCHANGED <<clock, flags, ledger, flight, pacing, semaphore, canceller>>

-----------------------------------------------------------------------------
(* CallBudget::cancel, called by the interrupt handler, the proxy and the  *)
(* scheduler: three steps, the first one under the mutex.                  *)
Cancel ==
  /\ canceller = "idle"
  /\ Record("Cancelled")
  /\ canceller' = "announce"
  /\ UNCHANGED <<clock, closed, cancelled, ledger, flight, pacing, semaphore, local, pc>>

AnnounceCancel ==
  /\ canceller = "announce"
  /\ cancelled' = TRUE
  /\ canceller' = "close"
  /\ UNCHANGED <<clock, closed, termination, ledger, flight, pacing, semaphore, local, pc>>

CloseCancelled ==
  /\ canceller = "close"
  /\ closed' = TRUE
  /\ canceller' = "done"
  /\ UNCHANGED <<clock, cancelled, termination, ledger, flight, pacing, semaphore, local,
                 pc>>

(* A task that would run if it were polled.                                *)
Runnable(t) ==
  \/ pc[t] \in {"allocate", "terminate", "close", "abandon", "release"}
  \/ pc[t] = "acquire" /\ available > 0
  \/ pc[t] = "slot" /\ now >= slot[t]
  \/ /\ pc[t] \in {"acquire", "slot"}
     /\ now >= DeadlineOf(kind[t]) \/ (kind[t] = "normal" /\ closed)

Tick ==
  /\ now < Horizon
  /\ Prompt => /\ \A t \in Tasks : ~Runnable(t)
               /\ canceller \in {"idle", "done"}
  /\ now' = now + 1
  /\ UNCHANGED <<flags, ledger, flight, pacing, semaphore, local, pc, canceller>>

Reserve(t) ==
  \/ RefuseClosed(t) \/ Exhaust(t) \/ Allocate(t)
  \/ Acquire(t) \/ Admit(t) \/ TimeOut(t) \/ ObserveClosed(t)
  \/ Terminate(t) \/ CloseAdmission(t) \/ Abandon(t) \/ Release(t)
  \/ \E d \in Answers : Finish(t, d)

Next ==
  \/ \E t \in Tasks : \/ \E k \in Kinds : Request(t, k)
                      \/ Reserve(t)
  \/ \E t \in Abortable : Abort(t)
  \/ Cancel \/ AnnounceCancel \/ CloseCancelled
  \/ Tick

Spec == Init /\ [][Next]_vars

(* The runtime polls every task that can run, and the clock advances.      *)
(* Permits are always finished: their holders wait at most until the       *)
(* permit's own deadline or the cancellation.  Nobody has to ask for a     *)
(* call, to cancel or to abort.                                            *)
Fairness ==
  /\ \A t \in Tasks : WF_vars(Reserve(t))
  /\ WF_vars(AnnounceCancel) /\ WF_vars(CloseCancelled)
  /\ WF_vars(Tick)

FairSpec == Spec /\ Fairness
-----------------------------------------------------------------------------
(* Properties                                                              *)

Places == {"idle", "allocate", "acquire", "slot", "calling", "terminate", "close",
           "abandon", "release"}

(* The variables keep the types the code gives them.                       *)
TypeOK ==
  /\ now \in 0..Horizon
  /\ closed \in BOOLEAN /\ cancelled \in BOOLEAN
  /\ termination \in Terminations \cup {None}
  /\ available \in 0..MaxConcurrency /\ holds \subseteq Tasks
  /\ normalConsumed \in Nat /\ cleanupConsumed \in Nat
  /\ calls \in Seq([kind : Kinds, disposition : Dispositions \cup {None}])
  /\ inFlight \in Nat /\ peak \in Nat
  /\ lastAdmitted \in Int /\ lastNormal \in Int
  /\ normalNext \in Nat /\ cleanupNext \in Nat
  /\ pc \in [Tasks -> Places]
  /\ kind \in [Tasks -> Kinds]
  /\ seq \in [Tasks -> Nat]
  /\ slot \in [Tasks -> Nat]
  /\ cause \in [Tasks -> Causes \cup {None}]
  /\ canceller \in {"idle", "announce", "close", "done"}

Calling == {t \in Tasks : pc[t] = "calling"}

(* However tasks interleave, abort or time out, the semaphore and the      *)
(* in-flight count agree with the permits that really exist: none leaks    *)
(* with a finished reservation, none is given back twice, and no more than *)
(* max_concurrency calls are made at once.                                 *)
PermitsAccounted ==
  /\ available + Cardinality(holds) = MaxConcurrency
  /\ inFlight = Cardinality(Calling) /\ inFlight <= MaxConcurrency
  /\ Calling \subseteq holds
  /\ \A t \in holds : pc[t] # "idle"

(* Setup, cases and retries cannot spend the cleanup allowance, cleanup    *)
(* cannot spend more than it, and no refused, failed or cancelled call is  *)
(* refunded: the counters equal the calls on record and stay within the    *)
(* plan's whole-run maximum.                                               *)
AllowancesKept ==
  /\ normalConsumed <= MaxCalls - CleanupCalls
  /\ cleanupConsumed <= CleanupCalls
  /\ Len(calls) = normalConsumed + cleanupConsumed
  /\ Len(calls) <= MaxCalls

(* No two reservations of one kind that wait for their slot were given     *)
(* slots closer than the admission interval.                               *)
SlotsSpaced ==
  \A t, u \in Tasks :
    t # u /\ pc[t] = "slot" /\ pc[u] = "slot" /\ kind[t] = kind[u]
      => slot[t] >= slot[u] + Interval \/ slot[u] >= slot[t] + Interval

(* Task t's slot timer is obeyed in this step.                             *)
Admitted(t) == pc[t] = "slot" /\ pc'[t] = "calling"

(* While timers are noticed promptly, normal calls are admitted at the     *)
(* planned rate: each at least one interval after the one before it.       *)
NormalCallsPaced ==
  [][\A t \in Tasks :
       Admitted(t) /\ kind[t] = "normal" => now >= lastNormal + Interval]_vars

(* While timers are noticed promptly, the reserved cleanup time is never   *)
(* eaten by a normal call, and no call starts after the run's deadline.    *)
AdmittedInTime ==
  [][\A t \in Tasks : Admitted(t) => now <= DeadlineOf(kind[t])]_vars

(* The cleanup reservation CallBudget::new computes is enough: a cleanup   *)
(* call that obtains its concurrency permit before the normal deadline     *)
(* gets a slot before the run's deadline, whatever was admitted before.    *)
CleanupSlotsFit ==
  [][\A t \in Tasks :
       kind[t] = "cleanup" /\ pc[t] = "acquire" /\ pc'[t] = "slot"
         /\ now <= NormalDeadline
           => slot'[t] < RunDeadline]_vars

(* Budget evidence refines the abstract ledger: see CallLedger.            *)
Status(i) ==
  IF calls[i].disposition # None THEN calls[i].disposition
  ELSE IF \E t \in Tasks : seq[t] = i /\ pc[t] = "calling" THEN "active" ELSE "waiting"

Ledger == INSTANCE CallLedger WITH
  entries <- [i \in DOMAIN calls |-> [kind |-> calls[i].kind, status |-> Status(i)]],
  open <- ~closed

ImplementsLedger == Ledger!Spec

(* Every reservation that entered the ledger comes to an end.              *)
EveryReservationEnds ==
  \A t \in Tasks : pc[t] = "acquire" ~> pc[t] = "idle"

(* However the budget comes to its end - an exhausted allowance, a deadline,*)
(* a cancellation whose caller stops between the lock and the two watches,  *)
(* or a cleanup call that closes admission past a reservation which has     *)
(* just been checked - it comes to admit no normal call any more, and to    *)
(* have none that waits or is made.                                         *)
TerminationDrains ==
  closed \/ termination # None ~>
    [](/\ closed
       /\ \A t \in Tasks :
            kind[t] = "normal" => pc[t] \notin {"acquire", "slot", "calling"})

(* The design asks for one admission clock without a burst allowance: any  *)
(* call, normal or cleanup, at least one interval after the one before it. *)
OneAdmissionClock ==
  [][\A t \in Tasks : Admitted(t) => now >= lastAdmitted + Interval]_vars
=============================================================================
