-------------------------- MODULE CallBudgetProofs --------------------------
(***************************************************************************)
(* What holds of the call budget for every plan, every set of tasks and    *)
(* every interleaving.  The inductive invariant is TypeOK with what is     *)
(* true of the semaphore, of the numbers given out and of the slots.       *)
(***************************************************************************)
EXTENDS CallBudget, TLAPS, FiniteSetTheorems

(* A reservation that is past its semaphore owns a permit.                 *)
Granted == {"slot", "calling", "release"}

(* The only places at which a permit may be owned.                         *)
Owning == Granted \cup {"terminate", "close", "abandon"}

(* The only places that are reached with a call in the ledger.             *)
Numbered == {"acquire", "slot", "calling", "abandon", "release"}

NumberingInv ==
  /\ \A t \in Tasks : seq[t] <= Len(calls)
  /\ \A t \in Tasks : pc[t] \in Numbered \/ t \in holds => seq[t] # 0

PermitInv ==
  /\ available + Cardinality(holds) = MaxConcurrency
  /\ inFlight = Cardinality(Calling)
  /\ \A t \in Tasks : pc[t] \in Granted => t \in holds
  /\ \A t \in holds : pc[t] \in Owning

IInv == TypeOK /\ NumberingInv /\ PermitInv

(* Cardinalities of sets of tasks are numbers.                             *)
LEMMA TasksFinite == IsFiniteSet(Tasks)
BY ModelBounds

(* A new budget has given nothing out.                                     *)
LEMMA InitIInv == Init => IInv
<1> SUFFICES ASSUME Init PROVE IInv
  OBVIOUS
<1>1. TypeOK
  <2>1. now \in 0..Horizon /\ available \in 0..MaxConcurrency /\ holds \subseteq Tasks
    BY PlanAccepted, ModelBounds DEF Init
  <2>2. calls \in Seq([kind : Kinds, disposition : Dispositions \cup {None}])
    BY DEF Init
  <2>3. lastAdmitted \in Int /\ lastNormal \in Int
    BY PlanAccepted DEF Init
  <2>4. /\ pc \in [Tasks -> Places] /\ kind \in [Tasks -> Kinds]
        /\ seq \in [Tasks -> Nat] /\ slot \in [Tasks -> Nat]
        /\ cause \in [Tasks -> Causes \cup {None}]
    BY DEF Init, Places, Kinds
  <2> QED BY <2>1, <2>2, <2>3, <2>4 DEF Init, TypeOK
<1>2. NumberingInv
  BY DEF Init, NumberingInv, Numbered
<1>3. Calling = {}
  BY DEF Init, Calling
<1>4. PermitInv
  BY <1>3, FS_EmptySet, PlanAccepted DEF Init, PermitInv, Granted, Owning
<1> QED BY <1>1, <1>2, <1>4 DEF IInv
-----------------------------------------------------------------------------
(* What the helpers of the actions do to the types.                        *)

Records == [kind : Kinds, disposition : Dispositions \cup {None}]

LocalOK ==
  /\ kind \in [Tasks -> Kinds] /\ seq \in [Tasks -> Nat]
  /\ slot \in [Tasks -> Nat] /\ cause \in [Tasks -> Causes \cup {None}]

(* Going to a place keeps the places typed.                                *)
LEMMA GoType ==
  ASSUME NEW t \in Tasks, NEW place \in Places, pc \in [Tasks -> Places], Go(t, place)
  PROVE  pc' \in [Tasks -> Places]
BY DEF Go

(* A reservation that leaves keeps its variables typed.                    *)
LEMMA LeaveType ==
  ASSUME NEW t \in Tasks, pc \in [Tasks -> Places], LocalOK, Leave(t)
  PROVE  pc' \in [Tasks -> Places] /\ LocalOK'
BY DEF Leave, Go, LocalOK, Places, Kinds

(* A recorded cause is a cause.                                            *)
LEMMA DoomType ==
  ASSUME NEW t \in Tasks, NEW why \in Causes, pc \in [Tasks -> Places], LocalOK,
         Doom(t, why)
  PROVE  pc' \in [Tasks -> Places] /\ cause' \in [Tasks -> Causes \cup {None}]
BY DEF Doom, Go, LocalOK, Places

(* Dropping a permit, or leaving without one, keeps the types.             *)
LEMMA DropPermitType ==
  ASSUME NEW t \in Tasks, pc \in [Tasks -> Places], LocalOK, DropPermit(t)
  PROVE  pc' \in [Tasks -> Places] /\ LocalOK'
<1>1. CASE t \in holds
  BY <1>1 DEF DropPermit, Go, LocalOK, local, Places
<1>2. CASE t \notin holds
  BY <1>2, LeaveType DEF DropPermit
<1> QED BY <1>1, <1>2

(* Settling a call neither adds a call nor takes one out.                  *)
LEMMA SettledType ==
  ASSUME calls \in Seq(Records), NEW i \in 1..Len(calls), NEW d \in Dispositions
  PROVE  Settled(i, d) \in Seq(Records) /\ Len(Settled(i, d)) = Len(calls)
<1> DEFINE kept == IF calls[i].disposition = None THEN d ELSE calls[i].disposition
<1>1. calls[i] \in Records
  OBVIOUS
<1>2. calls[i].kind \in Kinds /\ kept \in Dispositions \cup {None}
  BY <1>1 DEF Records
<1> DEFINE r == [kind |-> calls[i].kind, disposition |-> kept]
<1>3. r \in Records
  BY <1>2 DEF Records
<1>4. Settled(i, d) = [calls EXCEPT ![i] = r]
  BY DEF Settled
<1> HIDE DEF r
<1> QED BY <1>3, <1>4

(* A slot and the clock after it are points in time.                       *)
LEMMA NextSlotType ==
  ASSUME TypeOK, NEW k \in Kinds
  PROVE  NextSlot(k) \in Nat /\ NextSlot(k) + Interval \in Nat
BY PlanAccepted, ModelBounds DEF TypeOK, NextSlot, Later

(* A termination is None until it is a termination.                        *)
LEMMA RecordType ==
  ASSUME NEW why \in Terminations \cup {None}, termination \in Terminations \cup {None},
         Record(why)
  PROVE  termination' \in Terminations \cup {None}
BY DEF Record

-----------------------------------------------------------------------------
(* Each step keeps the types; settling needs the call's number.            *)
LEMMA TypeStep ==
  ASSUME IInv, Next
  PROVE  TypeOK'
<1> USE DEF clock, flags, ledger, flight, pacing, semaphore, local
<1>0. /\ TypeOK /\ LocalOK /\ pc \in [Tasks -> Places]
      /\ calls \in Seq(Records)
  BY DEF IInv, TypeOK, LocalOK, Records
<1>1. ASSUME NEW t \in Tasks, NEW k \in Kinds, Request(t, k) PROVE TypeOK'
  <2>1. pc' \in [Tasks -> Places] /\ cause' \in [Tasks -> Causes \cup {None}]
    BY <1>0, <1>1, DoomType, GoType DEF Request, LocalOK, Causes, Places
  <2>2. kind' \in [Tasks -> Kinds] /\ closed' \in BOOLEAN
    BY <1>0, <1>1 DEF Request, LocalOK, TypeOK
  <2> QED BY <1>0, <1>1, <2>1, <2>2 DEF Request, TypeOK
<1>2. ASSUME NEW t \in Tasks, RefuseClosed(t) PROVE TypeOK'
  BY <1>0, <1>2, LeaveType DEF RefuseClosed, TypeOK, LocalOK
<1>3. ASSUME NEW t \in Tasks, Exhaust(t) PROVE TypeOK'
  BY <1>0, <1>3, DoomType DEF Exhaust, TypeOK, Causes
<1>4. ASSUME NEW t \in Tasks, Allocate(t) PROVE TypeOK'
  <2>1. pc' \in [Tasks -> Places]
    BY <1>0, <1>4, GoType DEF Allocate, Places
  <2>2. calls' \in Seq(Records) /\ Len(calls) + 1 \in Nat
    BY <1>0, <1>4 DEF Allocate, NewCall, Records, LocalOK
  <2>3. seq' \in [Tasks -> Nat]
    BY <1>0, <1>4, <2>2 DEF Allocate, LocalOK
  <2>4. normalConsumed' \in Nat /\ cleanupConsumed' \in Nat
    BY <1>0, <1>4 DEF Allocate, TypeOK
  <2>5. UNCHANGED <<clock, flags, flight, pacing, semaphore, kind, slot, cause, canceller>>
    BY <1>4 DEF Allocate
  <2> QED BY <1>0, <2>1, <2>2, <2>3, <2>4, <2>5 DEF TypeOK, Records
<1>5. ASSUME NEW t \in Tasks, Acquire(t) PROVE TypeOK'
  <2>1. pc' \in [Tasks -> Places]
    BY <1>0, <1>5, GoType DEF Acquire, Places
  <2>2. slot' \in [Tasks -> Nat] /\ normalNext' \in Nat /\ cleanupNext' \in Nat
    BY <1>0, <1>5, NextSlotType DEF Acquire, LocalOK, TypeOK, Kinds
  <2>3. available > 0 /\ available' = available - 1 /\ holds' = holds \cup {t}
    BY <1>5 DEF Acquire
  <2>4. available \in 0..MaxConcurrency /\ holds \subseteq Tasks
    BY <1>0 DEF TypeOK
  <2>5. available' \in 0..MaxConcurrency
    BY <2>3, <2>4, PlanAccepted
  <2>6. holds' \subseteq Tasks
    BY <2>3, <2>4
  <2>7. UNCHANGED <<clock, flags, ledger, flight, kind, seq, cause, canceller>>
    BY <1>5 DEF Acquire
  <2> QED BY <1>0, <2>1, <2>2, <2>5, <2>6, <2>7 DEF TypeOK
<1>6. ASSUME NEW t \in Tasks, Admit(t) PROVE TypeOK'
  <2>1. pc' \in [Tasks -> Places] /\ slot' \in [Tasks -> Nat]
    BY <1>0, <1>6, GoType DEF Admit, Places, LocalOK
  <2>2. /\ inFlight' \in Nat /\ peak' \in Nat
        /\ lastAdmitted' \in Int /\ lastNormal' \in Int
    BY <1>0, <1>6, ModelBounds DEF Admit, TypeOK, Later
  <2> QED BY <1>0, <1>6, <2>1, <2>2 DEF Admit, TypeOK
<1>7. ASSUME NEW t \in Tasks, TimeOut(t) PROVE TypeOK'
  BY <1>0, <1>7, DoomType DEF TimeOut, TypeOK, Causes
<1>8. ASSUME NEW t \in Tasks, ObserveClosed(t) PROVE TypeOK'
  BY <1>0, <1>8, GoType DEF ObserveClosed, TypeOK, Places
<1>9. ASSUME NEW t \in Tasks, Terminate(t) PROVE TypeOK'
  <2>1. termination' \in Terminations \cup {None}
    BY <1>0, <1>9, RecordType DEF Terminate, TypeOK, Terminations
  <2> QED BY <1>0, <1>9, <2>1, GoType DEF Terminate, TypeOK, Places
<1>10. ASSUME NEW t \in Tasks, CloseAdmission(t) PROVE TypeOK'
  <2>1. pc' \in [Tasks -> Places] /\ LocalOK'
    BY <1>0, <1>10, LeaveType, GoType DEF CloseAdmission, LocalOK, Places
  <2> QED BY <1>0, <1>10, <2>1 DEF CloseAdmission, TypeOK, LocalOK
<1>11. ASSUME NEW t \in Tasks, Abandon(t) PROVE TypeOK'
  <2>1. pc' \in [Tasks -> Places] /\ LocalOK'
    BY <1>0, <1>11, DropPermitType DEF Abandon
  <2>2. seq[t] \in 1..Len(calls)
    BY <1>0, <1>11 DEF Abandon, IInv, NumberingInv, Numbered, LocalOK
  <2>3. calls' \in Seq(Records)
    BY <1>0, <1>11, <2>2, SettledType DEF Abandon, Dispositions
  <2> QED BY <1>0, <1>11, <2>1, <2>3 DEF Abandon, TypeOK, LocalOK, Records
<1>12. ASSUME NEW t \in Tasks, Release(t) PROVE TypeOK'
  <2>1. pc' \in [Tasks -> Places] /\ LocalOK'
    BY <1>0, <1>12, LeaveType DEF Release
  <2>2. t \in holds /\ IsFiniteSet(holds)
    BY <1>0, <1>12, TasksFinite, FS_Subset
       DEF Release, IInv, PermitInv, Granted, TypeOK
  <2>3. Cardinality(holds) \in Nat /\ Cardinality(holds) # 0
    BY <2>2, FS_CardinalityType, FS_EmptySet
  <2>4. available' \in 0..MaxConcurrency
    BY <1>0, <1>12, <2>3, PlanAccepted DEF Release, IInv, PermitInv, TypeOK
  <2> QED BY <1>0, <1>12, <2>1, <2>4 DEF Release, TypeOK, LocalOK
<1>13. ASSUME NEW t \in Tasks, NEW d \in Answers, Finish(t, d) PROVE TypeOK'
  <2>1. seq[t] \in 1..Len(calls)
    BY <1>0, <1>13 DEF Finish, IInv, NumberingInv, Numbered, LocalOK
  <2>2. calls' \in Seq(Records)
    BY <1>0, <1>13, <2>1, SettledType, AnswersAreDispositions DEF Finish
  <2>3. inFlight' \in Nat
    BY <1>0, <1>13 DEF Finish, Decremented, TypeOK
  <2> QED BY <1>0, <1>13, <2>2, <2>3, GoType DEF Finish, TypeOK, Places, Records
<1>14. ASSUME NEW t \in Tasks, Abort(t) PROVE TypeOK'
  <2>1. CASE pc[t] = "calling"
    <3>1. seq[t] \in 1..Len(calls)
      BY <1>0, <2>1 DEF IInv, NumberingInv, Numbered, LocalOK
    <3>2. calls' \in Seq(Records)
      BY <1>0, <1>14, <2>1, <3>1, SettledType DEF Abort, Dispositions
    <3>3. inFlight' \in Nat
      BY <1>0, <1>14, <2>1 DEF Abort, Decremented, TypeOK
    <3> QED
      BY <1>0, <1>14, <2>1, <3>2, <3>3, GoType DEF Abort, TypeOK, Places, Records
  <2>2. CASE pc[t] # "calling"
    BY <1>0, <1>14, <2>2, DropPermitType DEF Abort, TypeOK, LocalOK
  <2> QED BY <2>1, <2>2
<1>15. ASSUME Cancel PROVE TypeOK'
  <2>1. termination' \in Terminations \cup {None}
    BY <1>0, <1>15, RecordType DEF Cancel, TypeOK, Terminations
  <2> QED BY <1>0, <1>15, <2>1 DEF Cancel, TypeOK
<1>16. ASSUME AnnounceCancel PROVE TypeOK'
  BY <1>0, <1>16 DEF AnnounceCancel, TypeOK
<1>17. ASSUME CloseCancelled PROVE TypeOK'
  BY <1>0, <1>17 DEF CloseCancelled, TypeOK
<1>18. ASSUME Tick PROVE TypeOK'
  BY <1>0, <1>18, ModelBounds DEF Tick, TypeOK
<1> QED
  BY <1>1, <1>2, <1>3, <1>4, <1>5, <1>6, <1>7, <1>8, <1>9, <1>10, <1>11, <1>12, <1>13,
     <1>14, <1>15, <1>16, <1>17, <1>18, AbortableAreTasks DEF Next, Reserve

-----------------------------------------------------------------------------
(* A number is never taken back from a reservation that still needs it.    *)
LEMMA NumberingStep ==
  ASSUME IInv, Next
  PROVE  NumberingInv'
<1> USE DEF clock, flags, ledger, flight, pacing, semaphore, local
<1>0. /\ TypeOK /\ LocalOK /\ pc \in [Tasks -> Places] /\ holds \subseteq Tasks
      /\ calls \in Seq(Records) /\ Len(calls) \in Nat
      /\ NumberingInv
  BY DEF IInv, TypeOK, LocalOK, Records
<1>a. ASSUME NEW t \in Tasks, Leave(t), Len(calls') = Len(calls),
             holds' \subseteq holds \ {t}
      PROVE  NumberingInv'
  BY <1>0, <1>a DEF Leave, Go, NumberingInv, Numbered, LocalOK
<1>b. ASSUME NEW t \in Tasks, NEW place \in Places, Go(t, place), seq' = seq,
             holds' = holds, Len(calls') = Len(calls),
             place \in Numbered => seq[t] # 0
      PROVE  NumberingInv'
  BY <1>0, <1>b DEF Go, NumberingInv, LocalOK
<1>1. ASSUME NEW t \in Tasks, NEW k \in Kinds, Request(t, k) PROVE NumberingInv'
  BY <1>0, <1>1, <1>b DEF Request, Doom, Places, Numbered
<1>2. ASSUME NEW t \in Tasks, RefuseClosed(t) PROVE NumberingInv'
  <2>1. t \notin holds
    BY <1>0, <1>2 DEF RefuseClosed, IInv, PermitInv, Owning, Granted
  <2> QED BY <1>0, <1>2, <1>a, <2>1 DEF RefuseClosed
<1>3. ASSUME NEW t \in Tasks, Exhaust(t) PROVE NumberingInv'
  BY <1>0, <1>3, <1>b DEF Exhaust, Doom, Places, Numbered
<1>4. ASSUME NEW t \in Tasks, Allocate(t) PROVE NumberingInv'
  <2>1. Len(calls') = Len(calls) + 1
    BY <1>0, <1>4 DEF Allocate, NewCall, Records
  <2>2. seq' = [seq EXCEPT ![t] = Len(calls) + 1] /\ holds' = holds
    BY <1>4 DEF Allocate
  <2>3. pc' = [pc EXCEPT ![t] = "acquire"]
    BY <1>4 DEF Allocate, Go
  <2> QED BY <1>0, <2>1, <2>2, <2>3 DEF NumberingInv, LocalOK
<1>5. ASSUME NEW t \in Tasks, Acquire(t) PROVE NumberingInv'
  <2>1. seq[t] # 0
    BY <1>0, <1>5 DEF Acquire, NumberingInv, Numbered
  <2> QED BY <1>0, <1>5, <2>1 DEF Acquire, Go, NumberingInv, LocalOK
<1>6. ASSUME NEW t \in Tasks, Admit(t) PROVE NumberingInv'
  BY <1>0, <1>6, <1>b DEF Admit, Places, NumberingInv, Numbered
<1>7. ASSUME NEW t \in Tasks, TimeOut(t) PROVE NumberingInv'
  BY <1>0, <1>7, <1>b DEF TimeOut, Doom, Places, NumberingInv, Numbered
<1>8. ASSUME NEW t \in Tasks, ObserveClosed(t) PROVE NumberingInv'
  BY <1>0, <1>8, <1>b DEF ObserveClosed, Places, NumberingInv, Numbered
<1>9. ASSUME NEW t \in Tasks, Terminate(t) PROVE NumberingInv'
  BY <1>0, <1>9, <1>b DEF Terminate, Places, Numbered
<1>10. ASSUME NEW t \in Tasks, CloseAdmission(t) PROVE NumberingInv'
  <2>1. CASE seq[t] = 0
    <3>1. t \notin holds
      BY <1>0, <2>1 DEF NumberingInv
    <3> QED BY <1>0, <1>10, <1>a, <2>1, <3>1 DEF CloseAdmission
  <2>2. CASE seq[t] # 0
    BY <1>0, <1>10, <1>b, <2>2 DEF CloseAdmission, Places
  <2> QED BY <2>1, <2>2
<1>c. ASSUME NEW t \in Tasks, DropPermit(t), holds' = holds, Len(calls') = Len(calls),
             pc[t] \in Numbered
      PROVE  NumberingInv'
  <2>1. CASE t \in holds
    <3>1. seq[t] # 0
      BY <1>0, <1>c DEF NumberingInv
    <3> QED BY <1>0, <1>b, <1>c, <2>1, <3>1 DEF DropPermit, Places
  <2>2. CASE t \notin holds
    BY <1>0, <1>a, <1>c, <2>2 DEF DropPermit
  <2> QED BY <2>1, <2>2
<1>11. ASSUME NEW t \in Tasks, Abandon(t) PROVE NumberingInv'
  <2>1. seq[t] \in 1..Len(calls)
    BY <1>0, <1>11 DEF Abandon, NumberingInv, Numbered, LocalOK
  <2>2. Len(calls') = Len(calls)
    BY <1>0, <1>11, <2>1, SettledType DEF Abandon, Dispositions
  <2> QED BY <1>0, <1>11, <1>c, <2>2 DEF Abandon, Numbered
<1>12. ASSUME NEW t \in Tasks, Release(t) PROVE NumberingInv'
  BY <1>0, <1>12, <1>a DEF Release
<1>13. ASSUME NEW t \in Tasks, NEW d \in Answers, Finish(t, d) PROVE NumberingInv'
  <2>1. seq[t] \in 1..Len(calls)
    BY <1>0, <1>13 DEF Finish, NumberingInv, Numbered, LocalOK
  <2>2. Len(calls') = Len(calls)
    BY <1>0, <1>13, <2>1, SettledType, AnswersAreDispositions DEF Finish
  <2> QED BY <1>0, <1>13, <1>b, <2>1, <2>2 DEF Finish, Places
<1>14. ASSUME NEW t \in Tasks, Abort(t) PROVE NumberingInv'
  <2>1. CASE pc[t] = "calling"
    <3>1. seq[t] \in 1..Len(calls)
      BY <1>0, <2>1 DEF NumberingInv, Numbered, LocalOK
    <3>2. Len(calls') = Len(calls)
      BY <1>0, <1>14, <2>1, <3>1, SettledType DEF Abort, Dispositions
    <3> QED BY <1>0, <1>14, <1>b, <2>1, <3>1, <3>2 DEF Abort, Places
  <2>2. CASE pc[t] # "calling"
    BY <1>0, <1>14, <1>c, <2>2 DEF Abort, Numbered
  <2> QED BY <2>1, <2>2
<1>15. ASSUME Cancel \/ AnnounceCancel \/ CloseCancelled \/ Tick PROVE NumberingInv'
  BY <1>0, <1>15 DEF Cancel, AnnounceCancel, CloseCancelled, Tick, NumberingInv
<1> QED
  BY <1>1, <1>2, <1>3, <1>4, <1>5, <1>6, <1>7, <1>8, <1>9, <1>10, <1>11, <1>12, <1>13,
     <1>14, <1>15, AbortableAreTasks DEF Next, Reserve

-----------------------------------------------------------------------------
(* Permits and calls in flight change one at a time, and together.         *)
LEMMA PermitStep ==
  ASSUME IInv, Next
  PROVE  PermitInv'
<1> USE DEF clock, flags, ledger, flight, pacing, semaphore, local
<1>0. /\ pc \in [Tasks -> Places] /\ holds \subseteq Tasks
      /\ available \in Nat /\ inFlight \in Nat
      /\ PermitInv /\ NumberingInv
  BY PlanAccepted DEF IInv, TypeOK
<1>f. /\ IsFiniteSet(holds) /\ Cardinality(holds) \in Nat
      /\ IsFiniteSet(Calling) /\ Cardinality(Calling) \in Nat
  BY <1>0, TasksFinite, FS_Subset, FS_CardinalityType DEF Calling
<1>a. ASSUME NEW t \in Tasks, NEW place \in Places, Go(t, place),
             UNCHANGED <<available, holds, inFlight>>,
             pc[t] # "calling", place # "calling",
             place \in Granted => t \in holds, t \in holds => place \in Owning
      PROVE  PermitInv'
  <2>1. Calling' = Calling
    BY <1>0, <1>a DEF Go, Calling
  <2> QED BY <1>0, <1>a, <2>1 DEF Go, PermitInv
<1>b. ASSUME NEW t \in Tasks, Leave(t), t \notin holds,
             UNCHANGED <<available, holds, inFlight>>, pc[t] # "calling"
      PROVE  PermitInv'
  BY <1>a, <1>b DEF Leave, Places, Granted
<1>c. ASSUME NEW t \in Tasks, Go(t, "release"), pc[t] = "calling", inFlight' = Decremented,
             UNCHANGED <<available, holds>>
      PROVE  PermitInv'
  <2>1. Calling' = Calling \ {t} /\ t \in Calling
    BY <1>0, <1>c DEF Go, Calling
  <2>2. Cardinality(Calling') = Cardinality(Calling) - 1 /\ Cardinality(Calling) # 0
    BY <1>f, <2>1, FS_RemoveElement, FS_EmptySet
  <2>3. inFlight' = Cardinality(Calling')
    BY <1>0, <1>c, <1>f, <2>2 DEF Decremented, PermitInv
  <2> QED BY <1>0, <1>c, <2>3 DEF Go, PermitInv, Granted, Owning
<1>d. ASSUME NEW t \in Tasks, DropPermit(t), UNCHANGED <<available, holds, inFlight>>,
             pc[t] # "calling"
      PROVE  PermitInv'
  BY <1>0, <1>a, <1>b, <1>d DEF DropPermit, Places, Granted, Owning
<1>1. ASSUME NEW t \in Tasks, NEW k \in Kinds, Request(t, k) PROVE PermitInv'
  BY <1>0, <1>1, <1>a DEF Request, Doom, Places, Granted, Owning, PermitInv
<1>2. ASSUME NEW t \in Tasks, RefuseClosed(t) PROVE PermitInv'
  BY <1>0, <1>2, <1>b DEF RefuseClosed, Granted, Owning, PermitInv
<1>3. ASSUME NEW t \in Tasks, Exhaust(t) PROVE PermitInv'
  BY <1>0, <1>3, <1>a DEF Exhaust, Doom, Places, Granted, Owning
<1>4. ASSUME NEW t \in Tasks, Allocate(t) PROVE PermitInv'
  BY <1>0, <1>4, <1>a DEF Allocate, Places, Granted, Owning, PermitInv
<1>5. ASSUME NEW t \in Tasks, Acquire(t) PROVE PermitInv'
  <2>1. t \notin holds
    BY <1>0, <1>5 DEF Acquire, PermitInv, Owning, Granted
  <2>2. Cardinality(holds') = Cardinality(holds) + 1
    BY <1>5, <1>f, <2>1, FS_AddElement DEF Acquire
  <2>3. Calling' = Calling
    BY <1>0, <1>5 DEF Acquire, Go, Calling
  <2>4. available' + Cardinality(holds') = MaxConcurrency
    BY <1>0, <1>5, <1>f, <2>2 DEF Acquire, PermitInv
  <2> QED BY <1>0, <1>5, <2>3, <2>4 DEF Acquire, Go, PermitInv, Granted, Owning
<1>6. ASSUME NEW t \in Tasks, Admit(t) PROVE PermitInv'
  <2>1. Calling' = Calling \cup {t} /\ t \notin Calling
    BY <1>0, <1>6 DEF Admit, Go, Calling
  <2>2. Cardinality(Calling') = Cardinality(Calling) + 1
    BY <1>f, <2>1, FS_AddElement
  <2>3. inFlight' = Cardinality(Calling')
    BY <1>0, <1>6, <2>2 DEF Admit, PermitInv
  <2> QED BY <1>0, <1>6, <2>3 DEF Admit, Go, PermitInv, Granted, Owning
<1>7. ASSUME NEW t \in Tasks, TimeOut(t) PROVE PermitInv'
  BY <1>0, <1>7, <1>a DEF TimeOut, Doom, Places, Granted, Owning
<1>8. ASSUME NEW t \in Tasks, ObserveClosed(t) PROVE PermitInv'
  BY <1>0, <1>8, <1>a DEF ObserveClosed, Places, Granted, Owning
<1>9. ASSUME NEW t \in Tasks, Terminate(t) PROVE PermitInv'
  BY <1>0, <1>9, <1>a DEF Terminate, Places, Granted, Owning
<1>10. ASSUME NEW t \in Tasks, CloseAdmission(t) PROVE PermitInv'
  <2>1. CASE seq[t] = 0
    BY <1>0, <1>10, <1>b, <2>1 DEF CloseAdmission, NumberingInv
  <2>2. CASE seq[t] # 0
    BY <1>0, <1>10, <1>a, <2>2 DEF CloseAdmission, Places, Granted, Owning
  <2> QED BY <2>1, <2>2
<1>11. ASSUME NEW t \in Tasks, Abandon(t) PROVE PermitInv'
  BY <1>11, <1>d DEF Abandon
<1>12. ASSUME NEW t \in Tasks, Release(t) PROVE PermitInv'
  <2>1. t \in holds
    BY <1>0, <1>12 DEF Release, PermitInv, Granted
  <2>2. Cardinality(holds') = Cardinality(holds) - 1
    BY <1>12, <1>f, <2>1, FS_RemoveElement DEF Release
  <2>3. Calling' = Calling
    BY <1>0, <1>12 DEF Release, Leave, Go, Calling
  <2>4. available' + Cardinality(holds') = MaxConcurrency
    BY <1>0, <1>12, <1>f, <2>2 DEF Release, PermitInv
  <2> QED
    BY <1>0, <1>12, <2>3, <2>4 DEF Release, Leave, Go, PermitInv, Granted
<1>13. ASSUME NEW t \in Tasks, NEW d \in Answers, Finish(t, d) PROVE PermitInv'
  BY <1>13, <1>c DEF Finish
<1>14. ASSUME NEW t \in Tasks, Abort(t) PROVE PermitInv'
  BY <1>14, <1>c, <1>d DEF Abort
<1>15. ASSUME Cancel \/ AnnounceCancel \/ CloseCancelled \/ Tick PROVE PermitInv'
  BY <1>0, <1>15 DEF Cancel, AnnounceCancel, CloseCancelled, Tick, PermitInv, Calling
<1> QED
  BY <1>1, <1>2, <1>3, <1>4, <1>5, <1>6, <1>7, <1>8, <1>9, <1>10, <1>11, <1>12, <1>13,
     <1>14, <1>15, AbortableAreTasks DEF Next, Reserve

(* Every reachable state satisfies the inductive invariant: types, and for *)
(* each place of reserve_call the number and the permit a task has there.  *)
THEOREM Invariant == Spec => []IInv
<1>1. ASSUME IInv, UNCHANGED vars PROVE IInv'
  BY <1>1 DEF IInv, TypeOK, NumberingInv, PermitInv, Calling, vars, clock, flags, ledger,
     flight, pacing, semaphore, local
<1>2. IInv /\ [Next]_vars => IInv'
  BY <1>1, TypeStep, NumberingStep, PermitStep DEF IInv
<1> QED BY InitIInv, <1>2, PTL DEF Spec

(* Every variable keeps the type the code gives it.                        *)
THEOREM TypeCorrect == Spec => []TypeOK
<1>1. IInv => TypeOK
  BY DEF IInv
<1> QED BY Invariant, <1>1, PTL

(* No permit leaks, none is given back twice, and at most max_concurrency  *)
(* calls are made at once, for any number of tasks.                        *)
THEOREM PermitsAreAccounted == Spec => []PermitsAccounted
<1>1. ASSUME IInv PROVE PermitsAccounted
  <2>1. /\ available + Cardinality(holds) = MaxConcurrency
        /\ inFlight = Cardinality(Calling)
        /\ available \in Nat
    BY <1>1, PlanAccepted DEF IInv, PermitInv, TypeOK
  <2>2. Calling \subseteq holds /\ IsFiniteSet(holds)
    BY <1>1, TasksFinite, FS_Subset DEF IInv, PermitInv, TypeOK, Granted, Calling
  <2>3. /\ Cardinality(Calling) <= Cardinality(holds)
        /\ Cardinality(Calling) \in Nat /\ Cardinality(holds) \in Nat
    BY <2>2, FS_Subset, FS_CardinalityType
  <2>4. inFlight <= MaxConcurrency
    BY <2>1, <2>3, PlanAccepted
  <2>5. \A t \in holds : pc[t] # "idle"
    BY <1>1 DEF IInv, PermitInv, Owning, Granted
  <2> QED BY <2>1, <2>2, <2>4, <2>5 DEF PermitsAccounted
<1> QED BY Invariant, <1>1, PTL

-----------------------------------------------------------------------------
(* The length of the ledger is only changed by an allocation.              *)
LEMMA LedgerLength ==
  ASSUME IInv, NEW t \in Tasks, NEW d \in Dispositions,
         pc[t] \in Numbered, calls' = Settled(seq[t], d)
  PROVE  Len(calls') = Len(calls)
<1>1. seq[t] \in 1..Len(calls) /\ calls \in Seq(Records)
  BY DEF IInv, NumberingInv, TypeOK, Records
<1> QED BY <1>1, SettledType

(* Only an allocation spends, one call of its own allowance.               *)
LEMMA AllowanceStep ==
  ASSUME IInv, AllowancesKept, Next
  PROVE  AllowancesKept'
<1> USE DEF clock, flags, ledger, flight, pacing, semaphore, local
<1>0. /\ normalConsumed \in Nat /\ cleanupConsumed \in Nat
      /\ kind \in [Tasks -> Kinds] /\ calls \in Seq(Records)
  BY DEF IInv, TypeOK, Records
<1>a. ASSUME UNCHANGED <<normalConsumed, cleanupConsumed>>, Len(calls') = Len(calls)
      PROVE  AllowancesKept'
  BY <1>a DEF AllowancesKept
<1>1. ASSUME NEW t \in Tasks, Allocate(t) PROVE AllowancesKept'
  <2>1. Len(calls') = Len(calls) + 1
    BY <1>0, <1>1 DEF Allocate, NewCall, Records
  <2>2. CASE kind[t] = "cleanup"
    BY <1>0, <1>1, <2>1, <2>2, PlanAccepted
       DEF Allocate, AllowancesKept, Consumed, Limit, NormalLimit
  <2>3. CASE kind[t] # "cleanup"
    BY <1>0, <1>1, <2>1, <2>3, PlanAccepted
       DEF Allocate, AllowancesKept, Consumed, Limit, NormalLimit
  <2> QED BY <2>2, <2>3
<1>2. ASSUME NEW t \in Tasks, Abandon(t) PROVE AllowancesKept'
  BY <1>2, <1>a, LedgerLength DEF Abandon, Dispositions, Numbered
<1>3. ASSUME NEW t \in Tasks, NEW d \in Answers, Finish(t, d) PROVE AllowancesKept'
  BY <1>3, <1>a, LedgerLength, AnswersAreDispositions DEF Finish, Numbered
<1>4. ASSUME NEW t \in Tasks, Abort(t) PROVE AllowancesKept'
  BY <1>4, <1>a, LedgerLength DEF Abort, Dispositions, Numbered
<1>5. ASSUME NEW t \in Tasks,
             \/ \E k \in Kinds : Request(t, k)
             \/ RefuseClosed(t) \/ Exhaust(t) \/ Acquire(t) \/ Admit(t) \/ TimeOut(t)
             \/ ObserveClosed(t) \/ Terminate(t) \/ CloseAdmission(t) \/ Release(t)
      PROVE  AllowancesKept'
  BY <1>5, <1>a DEF Request, RefuseClosed, Exhaust, Acquire, Admit, TimeOut, ObserveClosed,
     Terminate, CloseAdmission, Release
<1>6. ASSUME Cancel \/ AnnounceCancel \/ CloseCancelled \/ Tick PROVE AllowancesKept'
  BY <1>6, <1>a DEF Cancel, AnnounceCancel, CloseCancelled, Tick
<1> QED
  BY <1>1, <1>2, <1>3, <1>4, <1>5, <1>6, AbortableAreTasks DEF Next, Reserve

(* Normal calls never spend the cleanup allowance nor cleanup calls more   *)
(* than it, nothing is refunded, and the counters equal the calls on       *)
(* record, for every plan the budget accepts.                              *)
THEOREM AllowancesAreKept == Spec => []AllowancesKept
<1>1. Init => AllowancesKept
  BY PlanAccepted DEF Init, AllowancesKept
<1>2. ASSUME AllowancesKept, UNCHANGED vars PROVE AllowancesKept'
  BY <1>2 DEF AllowancesKept, vars, ledger
<1>3. IInv /\ AllowancesKept /\ [Next]_vars => AllowancesKept'
  BY <1>2, AllowanceStep
<1> QED BY Invariant, <1>1, <1>3, PTL DEF Spec

-----------------------------------------------------------------------------
(* The paced admission: the slots the budget hands out, what they mean for *)
(* the rate of calls while timers are noticed promptly, and why the time   *)
(* that CallBudget::new reserves for cleanup is enough.                    *)

(* The clock a waiting call took its slot from has moved past the slot.    *)
NextOf(k) == IF k = "cleanup" THEN cleanupNext ELSE normalNext

SlotInv ==
  /\ \A t \in Tasks : pc[t] = "slot" => slot[t] + Interval <= NextOf(kind[t])
  /\ SlotsSpaced

(* Only Acquire hands out slots.                                           *)
LEMMA SlotsAreHandedOutOnce ==
  ASSUME IInv, Next, \A t \in Tasks : ~Acquire(t)
  PROVE  /\ UNCHANGED pacing
         /\ \A u \in Tasks : pc'[u] = "slot" =>
              pc[u] = "slot" /\ slot'[u] = slot[u] /\ kind'[u] = kind[u]
<1> USE DEF clock, flags, ledger, flight, pacing, semaphore, local
<1> DEFINE Goal == /\ UNCHANGED pacing
                   /\ \A u \in Tasks : pc'[u] = "slot" =>
                        pc[u] = "slot" /\ slot'[u] = slot[u] /\ kind'[u] = kind[u]
<1>0. pc \in [Tasks -> Places] /\ LocalOK
  BY DEF IInv, TypeOK, LocalOK
<1>a. ASSUME NEW t \in Tasks, UNCHANGED pacing, Leave(t) PROVE Goal
  BY <1>0, <1>a DEF Leave, Go, LocalOK
<1>b. ASSUME NEW t \in Tasks, NEW place \in Places \ {"slot"}, UNCHANGED pacing,
             Go(t, place), \A u \in Tasks \ {t} : slot'[u] = slot[u] /\ kind'[u] = kind[u]
      PROVE  Goal
  BY <1>0, <1>b DEF Go
<1>c. ASSUME NEW t \in Tasks, UNCHANGED pacing, DropPermit(t) PROVE Goal
  BY <1>0, <1>a, <1>b, <1>c DEF DropPermit, Places
<1>1. ASSUME NEW t \in Tasks, NEW k \in Kinds, Request(t, k) PROVE Goal
  BY <1>0, <1>1, <1>b DEF Request, Doom, Places, LocalOK
<1>2. ASSUME NEW t \in Tasks,
             Exhaust(t) \/ Allocate(t) \/ TimeOut(t) \/ ObserveClosed(t) \/ Terminate(t)
      PROVE  Goal
  BY <1>0, <1>2, <1>b DEF Exhaust, Allocate, TimeOut, ObserveClosed, Terminate, Doom, Places
<1>3. ASSUME NEW t \in Tasks, Admit(t) PROVE Goal
  BY <1>0, <1>3, <1>b DEF Admit, Places, LocalOK
<1>4. ASSUME NEW t \in Tasks, RefuseClosed(t) \/ Release(t) PROVE Goal
  BY <1>4, <1>a DEF RefuseClosed, Release
<1>5. ASSUME NEW t \in Tasks, CloseAdmission(t) PROVE Goal
  BY <1>5, <1>a, <1>b DEF CloseAdmission, Places
<1>6. ASSUME NEW t \in Tasks, Abandon(t) \/ Abort(t) PROVE Goal
  BY <1>6, <1>b, <1>c DEF Abandon, Abort, Places
<1>7. ASSUME NEW t \in Tasks, NEW d \in Answers, Finish(t, d) PROVE Goal
  BY <1>7, <1>b DEF Finish, Places
<1>8. ASSUME Cancel \/ AnnounceCancel \/ CloseCancelled \/ Tick PROVE Goal
  BY <1>8 DEF Cancel, AnnounceCancel, CloseCancelled, Tick
<1> QED
  BY <1>1, <1>2, <1>3, <1>4, <1>5, <1>6, <1>7, <1>8, AbortableAreTasks DEF Next, Reserve

(* Acquire gives a slot its clock has reached and moves the clock past it. *)
LEMMA SlotStep ==
  ASSUME IInv, SlotInv, Next
  PROVE  SlotInv'
<1> USE DEF clock, flags, ledger, flight, pacing, semaphore, local
<1>0. /\ pc \in [Tasks -> Places] /\ LocalOK
      /\ normalNext \in Nat /\ cleanupNext \in Nat /\ Interval \in Nat
  BY PlanAccepted DEF IInv, TypeOK, LocalOK
<1>1. ASSUME NEW t \in Tasks, Acquire(t) PROVE SlotInv'
  <2>1. NextSlot(kind[t]) \in Nat /\ NextSlot(kind[t]) >= NextOf(kind[t])
    BY <1>0, NextSlotType, PlanAccepted, ModelBounds
       DEF IInv, TypeOK, NextSlot, NextOf, Later, LocalOK
  <2>2. /\ slot'[t] = NextSlot(kind[t])
        /\ \A u \in Tasks \ {t} : slot'[u] = slot[u] /\ pc'[u] = pc[u]
        /\ kind' = kind
    BY <1>0, <1>1 DEF Acquire, Go, LocalOK
  <2>3. /\ kind[t] = "cleanup" =>
             cleanupNext' = NextSlot(kind[t]) + Interval /\ normalNext' = normalNext
        /\ kind[t] # "cleanup" =>
             normalNext' = NextSlot(kind[t]) + Interval /\ cleanupNext' = cleanupNext
    BY <1>0, <1>1 DEF Acquire, Kinds, LocalOK
  <2>4. \A u \in Tasks : kind[u] \in Kinds /\ slot[u] \in Nat
    BY <1>0 DEF LocalOK
  <2>5. \A u \in Tasks : pc[u] = "slot" => slot[u] + Interval <= NextOf(kind[u])
    BY DEF SlotInv
  <2>6. ASSUME NEW u \in Tasks, pc'[u] = "slot"
        PROVE  (slot[u] + Interval <= NextOf(kind[u]))'
    <3>1. CASE u = t
      BY <1>0, <2>1, <2>2, <2>3, <3>1 DEF NextOf
    <3>2. CASE u # t
      <4>1. slot[u] + Interval <= NextOf(kind[u])
        BY <2>2, <2>5, <2>6, <3>2
      <4>2. /\ slot'[u] = slot[u] /\ kind'[u] = kind[u] /\ slot[u] \in Nat
            /\ NextOf(kind[t]) <= NextSlot(kind[t]) + Interval
        BY <1>0, <2>1, <2>2, <2>4, <3>2 DEF NextOf
      <4> QED BY <1>0, <2>1, <2>3, <4>1, <4>2 DEF NextOf
    <3> QED BY <3>1, <3>2
  <2>7. ASSUME NEW u \in Tasks \ {t}, pc[u] = "slot", kind[u] = kind[t]
        PROVE  slot'[t] >= slot'[u] + Interval
    <3>1. slot[u] + Interval <= NextOf(kind[t]) /\ slot'[u] = slot[u] /\ slot[u] \in Nat
      BY <2>2, <2>4, <2>5, <2>7
    <3>2. NextOf(kind[t]) \in Nat
      BY <1>0 DEF NextOf
    <3> QED BY <1>0, <2>1, <2>2, <3>1, <3>2
  <2>8. SlotsSpaced'
    <3> SUFFICES ASSUME NEW u \in Tasks, NEW w \in Tasks, u # w, pc'[u] = "slot",
                        pc'[w] = "slot", kind'[u] = kind'[w]
                 PROVE  slot'[u] >= slot'[w] + Interval \/ slot'[w] >= slot'[u] + Interval
      BY DEF SlotsSpaced
    <3>1. CASE u = t
      BY <2>2, <2>7, <3>1
    <3>2. CASE w = t
      BY <2>2, <2>7, <3>2
    <3>3. CASE u # t /\ w # t
      <4>1. pc[u] = "slot" /\ pc[w] = "slot" /\ kind[u] = kind[w]
        BY <2>2, <3>3
      <4>2. slot[u] >= slot[w] + Interval \/ slot[w] >= slot[u] + Interval
        BY <4>1 DEF SlotInv, SlotsSpaced
      <4> QED BY <2>2, <3>3, <4>2
    <3> QED BY <3>1, <3>2, <3>3
  <2> QED BY <2>6, <2>8 DEF SlotInv
<1>2. ASSUME \A t \in Tasks : ~Acquire(t) PROVE SlotInv'
  <2>1. /\ UNCHANGED pacing
        /\ \A u \in Tasks : pc'[u] = "slot" =>
             pc[u] = "slot" /\ slot'[u] = slot[u] /\ kind'[u] = kind[u]
    BY <1>2, SlotsAreHandedOutOnce
  <2> QED BY <2>1 DEF SlotInv, SlotsSpaced, NextOf
<1> QED BY <1>1, <1>2

(* No two reservations of one kind wait for slots closer together than the *)
(* admission interval, however many tasks ask and however late they run.   *)
THEOREM SlotsAreSpaced == Spec => []SlotsSpaced
<1>1. Init => SlotInv
  BY DEF Init, SlotInv, SlotsSpaced
<1>2. ASSUME SlotInv, UNCHANGED vars PROVE SlotInv'
  BY <1>2 DEF SlotInv, SlotsSpaced, NextOf, vars, pacing, local
<1>3. IInv /\ SlotInv /\ [Next]_vars => SlotInv'
  BY <1>2, SlotStep
<1>4. SlotInv => SlotsSpaced
  BY DEF SlotInv
<1> QED BY Invariant, <1>1, <1>3, <1>4, PTL DEF Spec
-----------------------------------------------------------------------------
(* Prompt timers: the clock does not pass a deadline that somebody waits   *)
(* for, nor a slot before it is obeyed.                                    *)
Reserving == {"allocate", "acquire", "slot"}

DueInv ==
  /\ \A t \in Tasks : pc[t] \in Reserving => now <= DeadlineOf(kind[t])
  /\ \A t \in Tasks : pc[t] = "slot" => now <= slot[t]

(* The clock does not pass a slot or a deadline that somebody waits for.   *)
LEMMA DueStep ==
  ASSUME Prompt, IInv, DueInv, Next
  PROVE  DueInv'
<1> USE DEF clock, flags, ledger, flight, pacing, semaphore, local
<1>0. /\ pc \in [Tasks -> Places] /\ LocalOK /\ now \in Nat
  BY ModelBounds DEF IInv, TypeOK, LocalOK
<1>d. \A k \in Kinds : DeadlineOf(k) \in Nat
  BY PlanAccepted DEF DeadlineOf
<1>a. ASSUME NEW t \in Tasks, now' = now, Leave(t) PROVE DueInv'
  BY <1>0, <1>a DEF Leave, Go, LocalOK, DueInv, Reserving
<1>b. ASSUME NEW t \in Tasks, NEW place \in Places \ Reserving, now' = now, Go(t, place),
             \A u \in Tasks \ {t} : slot'[u] = slot[u] /\ kind'[u] = kind[u]
      PROVE  DueInv'
  BY <1>0, <1>b DEF Go, DueInv, Reserving
<1>c. ASSUME NEW t \in Tasks, now' = now, DropPermit(t) PROVE DueInv'
  BY <1>0, <1>a, <1>b, <1>c DEF DropPermit, Places, Reserving
<1>1. ASSUME NEW t \in Tasks, NEW k \in Kinds, Request(t, k) PROVE DueInv'
  <2>1. CASE now >= DeadlineOf(k)
    BY <1>0, <1>1, <1>b, <2>1 DEF Request, Doom, Places, Reserving, LocalOK
  <2>2. CASE ~(now >= DeadlineOf(k))
    <3>1. now < DeadlineOf(k)
      BY <1>0, <1>d, <2>2
    <3>2. /\ pc'[t] = "allocate" /\ kind'[t] = k /\ now' = now
          /\ \A u \in Tasks \ {t} :
               pc'[u] = pc[u] /\ kind'[u] = kind[u] /\ slot'[u] = slot[u]
      BY <1>0, <1>1, <2>2 DEF Request, Go, LocalOK
    <3> QED BY <1>0, <1>d, <3>1, <3>2 DEF DueInv, DeadlineOf
  <2> QED BY <2>1, <2>2
<1>2. ASSUME NEW t \in Tasks, Allocate(t) PROVE DueInv'
  BY <1>0, <1>2 DEF Allocate, Go, DueInv, DeadlineOf, Reserving
<1>3. ASSUME NEW t \in Tasks, Acquire(t) PROVE DueInv'
  <2>1. NextSlot(kind[t]) >= now
    BY <1>0, PlanAccepted DEF IInv, TypeOK, NextSlot, Later
  <2> QED BY <1>0, <1>3, <2>1 DEF Acquire, Go, DueInv, DeadlineOf, Reserving, LocalOK
<1>4. ASSUME NEW t \in Tasks,
             Exhaust(t) \/ TimeOut(t) \/ ObserveClosed(t) \/ Terminate(t)
      PROVE  DueInv'
  BY <1>4, <1>b DEF Exhaust, TimeOut, ObserveClosed, Terminate, Doom, Places, Reserving
<1>5. ASSUME NEW t \in Tasks, Admit(t) PROVE DueInv'
  BY <1>0, <1>5, <1>b DEF Admit, Places, Reserving, LocalOK
<1>6. ASSUME NEW t \in Tasks, RefuseClosed(t) \/ Release(t) PROVE DueInv'
  BY <1>6, <1>a DEF RefuseClosed, Release
<1>7. ASSUME NEW t \in Tasks, CloseAdmission(t) PROVE DueInv'
  BY <1>7, <1>a, <1>b DEF CloseAdmission, Places, Reserving
<1>8. ASSUME NEW t \in Tasks, Abandon(t) \/ Abort(t) PROVE DueInv'
  BY <1>8, <1>b, <1>c DEF Abandon, Abort, Places, Reserving
<1>9. ASSUME NEW t \in Tasks, NEW d \in Answers, Finish(t, d) PROVE DueInv'
  BY <1>9, <1>b DEF Finish, Places, Reserving
<1>10. ASSUME Cancel \/ AnnounceCancel \/ CloseCancelled PROVE DueInv'
  BY <1>10 DEF Cancel, AnnounceCancel, CloseCancelled, DueInv, DeadlineOf
<1>11. ASSUME Tick PROVE DueInv'
  <2>1. \A t \in Tasks : ~Runnable(t)
    BY <1>11 DEF Tick
  <2>2. ASSUME NEW t \in Tasks, pc[t] \in Reserving PROVE now < DeadlineOf(kind[t])
    <3>1. pc[t] \in {"acquire", "slot"} /\ ~(now >= DeadlineOf(kind[t]))
      BY <2>1, <2>2 DEF Runnable, Reserving
    <3>2. DeadlineOf(kind[t]) \in Nat
      BY <1>0, <1>d DEF LocalOK
    <3> QED BY <1>0, <3>1, <3>2
  <2>3. ASSUME NEW t \in Tasks, pc[t] = "slot" PROVE now < slot[t]
    BY <1>0, <2>1, <2>3 DEF Runnable, LocalOK
  <2>4. now' = now + 1 /\ UNCHANGED <<pc, kind, slot>>
    BY <1>11 DEF Tick
  <2>5. \A t \in Tasks : slot[t] \in Nat /\ DeadlineOf(kind[t]) \in Nat
    BY <1>0, <1>d DEF LocalOK
  <2> QED BY <1>0, <2>2, <2>3, <2>4, <2>5 DEF DueInv, DeadlineOf
<1> QED
  BY <1>1, <1>2, <1>3, <1>4, <1>5, <1>6, <1>7, <1>8, <1>9, <1>10, <1>11, AbortableAreTasks
     DEF Next, Reserve

(* Nobody waits in a new budget.                                           *)
LEMMA InitDue == Init => DueInv
BY DEF Init, DueInv, Reserving

(* Stuttering changes nothing DueInv speaks about.                         *)
LEMMA StutterDue == DueInv /\ UNCHANGED vars => DueInv'
BY DEF DueInv, DeadlineOf, vars, clock, local

(* While timers are noticed promptly no call starts after its deadline.    *)
THEOREM CallsAreAdmittedInTime == ASSUME Prompt PROVE Spec => AdmittedInTime
<1>1. IInv /\ DueInv /\ [Next]_vars => DueInv'
  BY DueStep, StutterDue
<1>2. ASSUME DueInv, NEW t \in Tasks, Admitted(t) PROVE now <= DeadlineOf(kind[t])
  BY <1>2 DEF DueInv, Admitted, Reserving
<1>3. DueInv => [\A t \in Tasks : Admitted(t) => now <= DeadlineOf(kind[t])]_vars
  BY <1>2
<1> QED BY Invariant, InitDue, <1>1, <1>3, PTL DEF Spec, AdmittedInTime

-----------------------------------------------------------------------------
(* Every normal slot still to come is an interval after the last normal    *)
(* admission.                                                              *)
NormalInv ==
  /\ lastNormal + Interval <= normalNext
  /\ \A t \in Tasks :
       pc[t] = "slot" /\ kind[t] = "normal" => lastNormal + Interval <= slot[t]

(* Only Admit changes the time of the last admission.                      *)
LEMMA OnlyAdmitAdmits ==
  ASSUME IInv, Next, \A t \in Tasks : ~Admit(t)
  PROVE  UNCHANGED <<lastNormal, lastAdmitted>> /\ \A t \in Tasks : ~Admitted(t)
<1> USE DEF clock, flags, ledger, flight, pacing, semaphore, local
<1> DEFINE Goal == UNCHANGED <<lastNormal, lastAdmitted>> /\ \A t \in Tasks : ~Admitted(t)
<1>0. pc \in [Tasks -> Places]
  BY DEF IInv, TypeOK
<1>1. ASSUME NEW t \in Tasks,
             \/ \E k \in Kinds : Request(t, k)
             \/ RefuseClosed(t) \/ Exhaust(t) \/ Allocate(t) \/ Acquire(t) \/ TimeOut(t)
      PROVE  Goal
  BY <1>0, <1>1 DEF Request, RefuseClosed, Exhaust, Allocate, Acquire, TimeOut, Doom, Leave,
     Go, Admitted
<1>2. ASSUME NEW t \in Tasks,
             \/ ObserveClosed(t) \/ Terminate(t) \/ CloseAdmission(t)
             \/ Abandon(t) \/ Release(t) \/ Abort(t)
      PROVE  Goal
  BY <1>0, <1>2 DEF ObserveClosed, Terminate, CloseAdmission, Abandon, Release, Abort,
     DropPermit, Leave, Go, Admitted
<1>3. ASSUME NEW t \in Tasks, NEW d \in Answers, Finish(t, d) PROVE Goal
  BY <1>0, <1>3 DEF Finish, Go, Admitted
<1>4. ASSUME Cancel \/ AnnounceCancel \/ CloseCancelled \/ Tick PROVE Goal
  BY <1>4 DEF Cancel, AnnounceCancel, CloseCancelled, Tick, Admitted
<1> QED BY <1>1, <1>2, <1>3, <1>4, AbortableAreTasks DEF Next, Reserve

(* A normal call admitted at its slot is an interval behind every later    *)
(* slot.                                                                   *)
LEMMA NormalStep ==
  ASSUME IInv, SlotInv, DueInv, NormalInv, Next
  PROVE  NormalInv'
<1> USE DEF clock, flags, ledger, flight, pacing, semaphore, local
<1>0. /\ pc \in [Tasks -> Places] /\ LocalOK /\ now \in Nat
      /\ normalNext \in Nat /\ lastNormal \in Int /\ Interval \in Nat \ {0}
  BY PlanAccepted, ModelBounds DEF IInv, TypeOK, LocalOK
<1>1. ASSUME NEW t \in Tasks, Acquire(t) PROVE NormalInv'
  <2>1. /\ lastNormal' = lastNormal /\ kind' = kind
        /\ \A u \in Tasks \ {t} : slot'[u] = slot[u] /\ pc'[u] = pc[u]
    BY <1>0, <1>1 DEF Acquire, Go
  <2>2. lastNormal + Interval <= normalNext
    BY DEF NormalInv
  <2>3. CASE kind[t] = "normal"
    <3>1. NextSlot("normal") \in Nat /\ NextSlot("normal") >= normalNext
      BY <1>0, NextSlotType DEF IInv, NextSlot, Later, Kinds
    <3>2. /\ slot'[t] = NextSlot("normal")
          /\ normalNext' = NextSlot("normal") + Interval
      BY <1>0, <1>1, <2>3 DEF Acquire, LocalOK
    <3>3. lastNormal + Interval <= slot'[t] /\ lastNormal + Interval <= normalNext'
      BY <1>0, <2>2, <3>1, <3>2
    <3> QED BY <2>1, <3>3 DEF NormalInv
  <2>4. CASE kind[t] # "normal"
    BY <1>0, <1>1, <2>1, <2>2, <2>4 DEF Acquire, NormalInv, LocalOK, Kinds
  <2> QED BY <2>3, <2>4
<1>2. ASSUME NEW t \in Tasks, Admit(t) PROVE NormalInv'
  <2>1. /\ normalNext' = normalNext /\ kind' = kind /\ pc[t] = "slot" /\ pc'[t] = "calling"
        /\ \A u \in Tasks \ {t} : slot'[u] = slot[u] /\ pc'[u] = pc[u]
    BY <1>0, <1>2 DEF Admit, Go
  <2>2. CASE kind[t] = "normal"
    <3>1. lastNormal' = slot[t] /\ slot[t] \in Nat
      BY <1>0, <1>2, <2>2 DEF Admit, DueInv, LocalOK
    <3>2. slot[t] + Interval <= normalNext
      BY <1>2, <2>2 DEF Admit, SlotInv, NextOf
    <3>3. ASSUME NEW u \in Tasks \ {t}, pc[u] = "slot", kind[u] = "normal"
          PROVE  slot[t] + Interval <= slot[u]
      <4>1. slot[u] >= slot[t] /\ slot[u] \in Nat
        BY <1>0, <1>2, <3>3 DEF Admit, DueInv, LocalOK
      <4>2. slot[u] >= slot[t] + Interval \/ slot[t] >= slot[u] + Interval
        BY <1>2, <2>2, <3>3 DEF Admit, SlotInv, SlotsSpaced
      <4> QED BY <1>0, <3>1, <4>1, <4>2
    <3> QED BY <2>1, <3>1, <3>2, <3>3 DEF NormalInv
  <2>3. CASE kind[t] # "normal"
    <3>1. lastNormal' = lastNormal
      BY <1>2, <2>3 DEF Admit
    <3> QED BY <2>1, <3>1 DEF NormalInv
  <2> QED BY <2>2, <2>3
<1>3. ASSUME \A t \in Tasks : ~Acquire(t) /\ ~Admit(t) PROVE NormalInv'
  <2>1. /\ normalNext' = normalNext /\ lastNormal' = lastNormal
        /\ \A u \in Tasks : pc'[u] = "slot" =>
             pc[u] = "slot" /\ slot'[u] = slot[u] /\ kind'[u] = kind[u]
    BY <1>3, SlotsAreHandedOutOnce, OnlyAdmitAdmits
  <2> QED BY <2>1 DEF NormalInv
<1> QED BY <1>1, <1>2, <1>3

(* While timers are noticed promptly, normal calls are admitted at the     *)
(* planned rate, for every plan and any number of competing tasks.         *)
THEOREM NormalCallsArePaced == ASSUME Prompt PROVE Spec => NormalCallsPaced
<1> DEFINE Inv == IInv /\ SlotInv /\ DueInv /\ NormalInv
<1>1. Init => Inv
  BY InitIInv, InitDue, PlanAccepted DEF Init, SlotInv, SlotsSpaced, NormalInv
<1>2. ASSUME Inv, UNCHANGED vars PROVE Inv'
  <2>1. IInv'
    BY <1>2 DEF IInv, TypeOK, NumberingInv, PermitInv, Calling, vars, clock, flags, ledger,
       flight, pacing, semaphore, local
  <2>2. SlotInv' /\ DueInv' /\ NormalInv'
    BY <1>2, StutterDue DEF SlotInv, SlotsSpaced, NextOf, NormalInv, vars, pacing, flight, local
  <2> QED BY <2>1, <2>2
<1>3. Inv /\ [Next]_vars => Inv'
  BY <1>2, TypeStep, NumberingStep, PermitStep, SlotStep, DueStep, NormalStep DEF IInv
<1>4. ASSUME Inv, NEW t \in Tasks, Admitted(t), kind[t] = "normal", [Next]_vars
      PROVE  now >= lastNormal + Interval
  <2>1. Next /\ \E u \in Tasks : Admit(u)
    BY <1>4, OnlyAdmitAdmits DEF Admitted, vars
  <2>2. PICK u \in Tasks : Admit(u)
    BY <2>1
  <2>3. pc \in [Tasks -> Places] /\ now \in Nat /\ slot[t] \in Nat
    BY <1>4, ModelBounds DEF IInv, TypeOK
  <2>4. u = t
    BY <1>4, <2>2, <2>3 DEF Admit, Go, Admitted
  <2>5. lastNormal + Interval <= slot[t] /\ now >= slot[t]
    BY <1>4, <2>2, <2>4 DEF Admit, NormalInv
  <2>6. lastNormal \in Int /\ Interval \in Int
    BY <1>4, PlanAccepted DEF IInv, TypeOK
  <2> QED BY <2>3, <2>5, <2>6
<1>5. Inv /\ [Next]_vars =>
        [\A t \in Tasks :
           Admitted(t) /\ kind[t] = "normal" => now >= lastNormal + Interval]_vars
  BY <1>4
<1> HIDE DEF Inv
<1> QED BY <1>1, <1>3, <1>5, PTL DEF Spec, NormalCallsPaced

-----------------------------------------------------------------------------
(* The cleanup reservation.  Every cleanup call that waits for the         *)
(* semaphore is one of the allowance that has no slot yet; the slots       *)
(* already given reach one interval past the normal deadline at most, plus *)
(* one interval for each.                                                  *)
Waiting == {t \in Tasks : pc[t] = "acquire" /\ kind[t] = "cleanup"}

Slotted == cleanupConsumed - Cardinality(Waiting)

CleanupInv ==
  /\ lastAdmitted <= now
  /\ Cardinality(Waiting) <= cleanupConsumed
  /\ now <= NormalDeadline => cleanupNext <= NormalDeadline + (Slotted + 1) * Interval

(* Products with the interval are ordered like their factors.              *)
LEMMA TimesMonotonic ==
  ASSUME NEW a \in Int, NEW b \in Int, a <= b
  PROVE  /\ a * Interval <= b * Interval
         /\ a * Interval \in Int
         /\ (a + 1) * Interval = a * Interval + Interval
<1> Interval \in Nat
  BY PlanAccepted
<1> QED OBVIOUS

(* The tasks that wait for a permit can be counted.                        *)
LEMMA WaitingFinite ==
  ASSUME IInv PROVE IsFiniteSet(Waiting) /\ Cardinality(Waiting) \in Nat
BY TasksFinite, FS_Subset, FS_CardinalityType DEF Waiting

(* A cleanup call that takes its slot in time takes it within the reserve. *)
LEMMA SlotWithinReserve ==
  ASSUME IInv, AllowancesKept, CleanupInv, now <= NormalDeadline,
         NEW t \in Waiting
  PROVE  /\ NextSlot("cleanup") \in Nat
         /\ NextSlot("cleanup") <= NormalDeadline + (Slotted + 1) * Interval
         /\ NextSlot("cleanup") < RunDeadline
<1>0. /\ now \in Nat /\ lastAdmitted \in Int /\ cleanupNext \in Nat
      /\ cleanupConsumed \in Nat /\ cleanupConsumed <= CleanupCalls
      /\ Interval \in Nat \ {0} /\ NormalDeadline \in Nat /\ RunDeadline \in Nat
      /\ CleanupCalls \in Nat
  BY PlanAccepted, ModelBounds DEF IInv, TypeOK, AllowancesKept
<1>1. Cardinality(Waiting) \in Nat /\ Cardinality(Waiting) # 0
  BY WaitingFinite, FS_EmptySet
<1>2. /\ Slotted \in Nat /\ Slotted + 1 <= CleanupCalls /\ 0 < CleanupCalls
      /\ 1 <= Slotted + 1
  BY <1>0, <1>1 DEF Slotted, CleanupInv
<1>3. /\ (Slotted + 1) * Interval <= CleanupCalls * Interval
      /\ Interval <= (Slotted + 1) * Interval
      /\ (Slotted + 1) * Interval \in Int /\ CleanupCalls * Interval \in Int
  <2>1. (Slotted + 1) * Interval <= CleanupCalls * Interval
    BY <1>0, <1>2, TimesMonotonic
  <2>2. 1 * Interval <= (Slotted + 1) * Interval
    BY <1>2, TimesMonotonic
  <2> QED BY <1>0, <1>2, <2>1, <2>2, TimesMonotonic
<1>4. CleanupCalls * Interval < RunDeadline - NormalDeadline
  BY <1>2, PlanAccepted
<1>5. /\ cleanupNext <= NormalDeadline + (Slotted + 1) * Interval
      /\ lastAdmitted + Interval <= NormalDeadline + Interval
  BY <1>0 DEF CleanupInv
<1>6. NextSlot("cleanup") \in Nat
  BY NextSlotType DEF IInv, Kinds
<1>7. NextSlot("cleanup") \in {cleanupNext, lastAdmitted + Interval, now}
  BY DEF NextSlot, Later
<1> DEFINE reach == (Slotted + 1) * Interval
           all == CleanupCalls * Interval
<1>8. reach \in Int /\ all \in Int /\ reach <= all /\ Interval <= reach
      /\ all < RunDeadline - NormalDeadline /\ cleanupNext <= NormalDeadline + reach
  BY <1>3, <1>4, <1>5
<1> HIDE DEF reach, all
<1>9. NextSlot("cleanup") <= NormalDeadline + reach /\ NextSlot("cleanup") < RunDeadline
  BY <1>0, <1>5, <1>6, <1>7, <1>8
<1> QED BY <1>6, <1>9 DEF reach

(* Each cleanup call that is given a slot moves the cleanup clock's bound  *)
(* by one interval.                                                        *)
LEMMA CleanupStep ==
  ASSUME IInv, AllowancesKept, CleanupInv, Next
  PROVE  CleanupInv'
<1> USE DEF clock, flags, ledger, flight, pacing, semaphore, local
<1>0. /\ pc \in [Tasks -> Places] /\ LocalOK /\ now \in Nat
      /\ cleanupNext \in Nat /\ cleanupConsumed \in Nat /\ lastAdmitted \in Int
      /\ Interval \in Nat \ {0} /\ NormalDeadline \in Nat
      /\ IsFiniteSet(Waiting) /\ Cardinality(Waiting) \in Nat
  BY PlanAccepted, ModelBounds, WaitingFinite DEF IInv, TypeOK, LocalOK
(* Fewer calls wait, and nothing else that matters changes.                *)
<1>a. ASSUME Waiting' \subseteq Waiting, cleanupConsumed' = cleanupConsumed,
             cleanupNext' = cleanupNext, now' \in Nat, now <= now',
             lastAdmitted' \in {lastAdmitted, now'}
      PROVE  CleanupInv'
  <2>1. Cardinality(Waiting') \in Nat /\ Cardinality(Waiting') <= Cardinality(Waiting)
    BY <1>0, <1>a, FS_Subset, FS_CardinalityType
  <2> DEFINE m == Slotted + 1
             n == Slotted' + 1
  <2>2. m \in Int /\ n \in Int /\ m <= n
    BY <1>0, <1>a, <2>1 DEF Slotted
  <2> HIDE DEF m, n
  <2>3. m * Interval <= n * Interval /\ m * Interval \in Int /\ n * Interval \in Int
    BY <2>2, TimesMonotonic
  <2>4. now' <= NormalDeadline => cleanupNext' <= NormalDeadline + (Slotted' + 1) * Interval
    <3> DEFINE a == m * Interval
               b == n * Interval
    <3>1. now <= NormalDeadline => cleanupNext <= NormalDeadline + a
      BY DEF CleanupInv, m
    <3>2. a <= b /\ a \in Int /\ b \in Int
      BY <2>3
    <3> HIDE DEF a, b
    <3>3. now' <= NormalDeadline => cleanupNext' <= NormalDeadline + b
      BY <1>0, <1>a, <3>1, <3>2
    <3> QED BY <3>3 DEF b, n
  <2> QED BY <1>0, <1>a, <2>1, <2>4 DEF CleanupInv
<1>1. ASSUME NEW t \in Tasks, Allocate(t) PROVE CleanupInv'
  <2>1. CASE kind[t] = "cleanup"
    <3>1. Waiting' = Waiting \cup {t} /\ t \notin Waiting
      BY <1>0, <1>1, <2>1 DEF Allocate, Go, Waiting
    <3>2. Cardinality(Waiting') = Cardinality(Waiting) + 1
      BY <1>0, <3>1, FS_AddElement
    <3>3. cleanupConsumed' = cleanupConsumed + 1
          /\ UNCHANGED <<cleanupNext, now, lastAdmitted>>
      BY <1>1, <2>1 DEF Allocate
    <3>4. Slotted' = Slotted
      BY <1>0, <3>2, <3>3 DEF Slotted
    <3> QED BY <1>0, <3>2, <3>3, <3>4 DEF CleanupInv
  <2>2. CASE kind[t] # "cleanup"
    <3>1. Waiting' = Waiting
      BY <1>0, <1>1, <2>2 DEF Allocate, Go, Waiting
    <3> QED BY <1>0, <1>1, <1>a, <2>2, <3>1 DEF Allocate
  <2> QED BY <2>1, <2>2
<1>2. ASSUME NEW t \in Tasks, Acquire(t) PROVE CleanupInv'
  <2>1. CASE kind[t] = "cleanup"
    <3>1. Waiting' = Waiting \ {t} /\ t \in Waiting
      BY <1>0, <1>2, <2>1 DEF Acquire, Go, Waiting
    <3>2. Cardinality(Waiting') = Cardinality(Waiting) - 1
      BY <1>0, <3>1, FS_RemoveElement
    <3>3. cleanupNext' = NextSlot("cleanup") + Interval
          /\ UNCHANGED <<cleanupConsumed, now, lastAdmitted>>
      BY <1>2, <2>1 DEF Acquire
    <3>4. Slotted' = Slotted + 1 /\ Slotted \in Int
      BY <1>0, <3>2, <3>3 DEF Slotted
    <3>5. now <= NormalDeadline =>
            cleanupNext' <= NormalDeadline + (Slotted' + 1) * Interval
      <4> SUFFICES ASSUME now <= NormalDeadline
                   PROVE  cleanupNext' <= NormalDeadline + (Slotted' + 1) * Interval
        OBVIOUS
      <4>1. NextSlot("cleanup") \in Nat
            /\ NextSlot("cleanup") <= NormalDeadline + (Slotted + 1) * Interval
        BY <3>1, SlotWithinReserve
      <4>2. (Slotted' + 1) * Interval = (Slotted + 1) * Interval + Interval
            /\ (Slotted + 1) * Interval \in Int
        BY <3>4, TimesMonotonic
      <4> DEFINE a == (Slotted + 1) * Interval
      <4>3. /\ a \in Int /\ NextSlot("cleanup") <= NormalDeadline + a
            /\ (Slotted' + 1) * Interval = a + Interval
        BY <4>1, <4>2
      <4> HIDE DEF a
      <4> QED BY <1>0, <3>3, <4>1, <4>3
    <3> QED BY <1>0, <3>2, <3>3, <3>5 DEF CleanupInv
  <2>2. CASE kind[t] # "cleanup"
    <3>1. Waiting' = Waiting
      BY <1>0, <1>2, <2>2 DEF Acquire, Go, Waiting
    <3> QED BY <1>0, <1>2, <1>a, <2>2, <3>1 DEF Acquire
  <2> QED BY <2>1, <2>2
<1>3. ASSUME NEW t \in Tasks, NEW k \in Kinds, Request(t, k) PROVE CleanupInv'
  <2>1. Waiting' = Waiting
    BY <1>0, <1>3 DEF Request, Doom, Go, Waiting, LocalOK
  <2> QED BY <1>0, <1>3, <1>a, <2>1 DEF Request
<1>4. ASSUME NEW t \in Tasks, Admit(t) PROVE CleanupInv'
  <2>1. Waiting' \subseteq Waiting
    BY <1>0, <1>4 DEF Admit, Go, Waiting
  <2> QED BY <1>0, <1>4, <1>a, <2>1 DEF Admit
<1>5. ASSUME NEW t \in Tasks,
             RefuseClosed(t) \/ Release(t) \/ CloseAdmission(t) \/ Abandon(t) \/ Abort(t)
      PROVE  CleanupInv'
  <2>1. Waiting' \subseteq Waiting
    BY <1>0, <1>5 DEF RefuseClosed, Release, CloseAdmission, Abandon, Abort, DropPermit,
       Leave, Go, Waiting, LocalOK
  <2> QED
    BY <1>0, <1>5, <1>a, <2>1 DEF RefuseClosed, Release, CloseAdmission, Abandon, Abort
<1>6. ASSUME NEW t \in Tasks, Exhaust(t) \/ TimeOut(t) \/ ObserveClosed(t) \/ Terminate(t)
      PROVE  CleanupInv'
  <2>1. Waiting' \subseteq Waiting
    BY <1>0, <1>6 DEF Exhaust, TimeOut, ObserveClosed, Terminate, Doom, Go, Waiting
  <2> QED BY <1>0, <1>6, <1>a, <2>1 DEF Exhaust, TimeOut, ObserveClosed, Terminate
<1>7. ASSUME NEW t \in Tasks, NEW d \in Answers, Finish(t, d) PROVE CleanupInv'
  <2>1. Waiting' \subseteq Waiting
    BY <1>0, <1>7 DEF Finish, Go, Waiting
  <2> QED BY <1>0, <1>7, <1>a, <2>1 DEF Finish
<1>8. ASSUME Cancel \/ AnnounceCancel \/ CloseCancelled \/ Tick PROVE CleanupInv'
  BY <1>0, <1>8, <1>a DEF Cancel, AnnounceCancel, CloseCancelled, Tick, Waiting
<1> QED
  BY <1>1, <1>2, <1>3, <1>4, <1>5, <1>6, <1>7, <1>8, AbortableAreTasks DEF Next, Reserve

(* The cleanup time that CallBudget::new reserves is enough: for every plan *)
(* it accepts, a cleanup call that obtains its permit before the normal     *)
(* deadline gets its slot before the deadline of the run.                   *)
THEOREM CleanupSlotsAlwaysFit == Spec => CleanupSlotsFit
<1> DEFINE Inv == IInv /\ AllowancesKept /\ CleanupInv
<1>1. Init => Inv
  <2>1. ASSUME Init PROVE CleanupInv
    <3>1. Waiting = {}
      BY <2>1 DEF Init, Waiting
    <3>2. Cardinality(Waiting) = 0 /\ Slotted = 0
      BY <2>1, <3>1, FS_EmptySet DEF Init, Slotted
    <3> QED BY <2>1, <3>2, PlanAccepted DEF Init, CleanupInv
  <2>2. Init => AllowancesKept
    BY PlanAccepted DEF Init, AllowancesKept
  <2> QED BY <2>1, <2>2, InitIInv
<1>2. ASSUME Inv, UNCHANGED vars PROVE Inv'
  <2>1. IInv'
    BY <1>2 DEF IInv, TypeOK, NumberingInv, PermitInv, Calling, vars, clock, flags, ledger,
       flight, pacing, semaphore, local
  <2>2. AllowancesKept' /\ CleanupInv'
    BY <1>2 DEF AllowancesKept, CleanupInv, Slotted, Waiting, vars, clock, ledger, flight,
       pacing, local
  <2> QED BY <2>1, <2>2
<1>3. Inv /\ [Next]_vars => Inv'
  BY <1>2, TypeStep, NumberingStep, PermitStep, AllowanceStep, CleanupStep DEF IInv
<1>4. ASSUME Inv, [Next]_vars, NEW t \in Tasks, kind[t] = "cleanup", pc[t] = "acquire",
             pc'[t] = "slot", now <= NormalDeadline
      PROVE  slot'[t] < RunDeadline
  <2>1. pc'[t] # pc[t]
    BY <1>4
  <2>2. Next
    BY <1>4, <2>1 DEF vars
  <2>3. PICK u \in Tasks : Acquire(u)
    BY <1>4, <2>2, SlotsAreHandedOutOnce
  <2>4. pc \in [Tasks -> Places] /\ slot \in [Tasks -> Nat]
    BY <1>4 DEF IInv, TypeOK
  <2>5. u = t
    BY <1>4, <2>3, <2>4 DEF Acquire, Go
  <2>6. slot'[t] = NextSlot("cleanup")
    BY <1>4, <2>3, <2>4, <2>5 DEF Acquire
  <2> QED BY <1>4, <2>6, SlotWithinReserve DEF Waiting
<1>5. Inv /\ [Next]_vars =>
        [\A t \in Tasks :
           kind[t] = "cleanup" /\ pc[t] = "acquire" /\ pc'[t] = "slot"
             /\ now <= NormalDeadline
               => slot'[t] < RunDeadline]_vars
  BY <1>4
<1> HIDE DEF Inv
<1> QED BY <1>1, <1>3, <1>5, PTL DEF Spec, CleanupSlotsFit

=============================================================================
