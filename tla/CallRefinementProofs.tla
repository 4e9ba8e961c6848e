------------------------ MODULE CallRefinementProofs ------------------------
(***************************************************************************)
(* Every call budget implements the call ledger: the mapping of CallBudget *)
(* (a call is active while a task owns its permit) takes each step of the  *)
(* budget to a step of the ledger or to a stutter.                         *)
(***************************************************************************)
EXTENDS CallBudgetProofs, FunctionTheorems

Entries == [i \in DOMAIN calls |-> [kind |-> calls[i].kind, status |-> Status(i)]]
EnteredCalls(k) == {i \in DOMAIN calls : calls[i].kind = k}
ActiveCalls == {i \in DOMAIN calls : Status(i) = "active"}

(* A call belongs to one reservation, of its own kind, and is not settled  *)
(* before that reservation is; cleanup is only reserved after closing.     *)
OwnerInv ==
  /\ \A t, u \in Tasks : t # u /\ seq[t] = seq[u] => seq[t] = 0
  /\ \A t \in Tasks : seq[t] # 0 => calls[seq[t]].kind = kind[t]
  /\ \A t \in Tasks : seq[t] # 0 /\ pc[t] # "release" => calls[seq[t]].disposition = None
  /\ \A t \in Tasks : pc[t] \in {"idle", "allocate"} => seq[t] = 0
  /\ \A t \in Tasks : kind[t] = "cleanup" => closed

(* The counters count the calls on record.                                 *)
CountInv == \A k \in Kinds : Cardinality(EnteredCalls(k)) = Consumed(k)

(* Only the reservation's own call is settled, and it keeps its kind.      *)
LEMMA SettledEntry ==
  ASSUME calls \in Seq(Records), NEW i \in 1..Len(calls), NEW d \in Dispositions
  PROVE  /\ DOMAIN Settled(i, d) = DOMAIN calls
         /\ \A j \in DOMAIN calls : Settled(i, d)[j].kind = calls[j].kind
         /\ \A j \in DOMAIN calls \ {i} : Settled(i, d)[j] = calls[j]
         /\ calls[i].disposition = None => Settled(i, d)[i].disposition = d
BY DEF Settled, Records

(* A call is entered for one task, and settled where that task gives it    *)
(* up.                                                                     *)
LEMMA OwnerStep ==
  ASSUME IInv, OwnerInv, Next
  PROVE  OwnerInv'
<1> USE DEF clock, flags, ledger, flight, pacing, semaphore, local
<1>0. /\ pc \in [Tasks -> Places] /\ LocalOK /\ calls \in Seq(Records)
      /\ Len(calls) \in Nat /\ closed \in BOOLEAN /\ OwnerInv /\ NumberingInv
  BY DEF IInv, TypeOK, LocalOK, Records
<1>a. ASSUME NEW t \in Tasks, Leave(t), calls' = calls, closed => closed', closed' \in BOOLEAN
      PROVE  OwnerInv'
  BY <1>0, <1>a DEF Leave, Go, OwnerInv, LocalOK
<1>b. ASSUME NEW t \in Tasks, NEW place \in Places \ {"idle", "allocate"}, Go(t, place),
             UNCHANGED <<seq, kind, calls>>, closed => closed', closed' \in BOOLEAN,
             pc[t] # "release"
      PROVE  OwnerInv'
  BY <1>0, <1>b DEF Go, OwnerInv, LocalOK
<1>c. ASSUME NEW t \in Tasks, NEW d \in Dispositions, seq[t] # 0, pc[t] # "release",
             calls' = Settled(seq[t], d), Go(t, "release"), UNCHANGED <<seq, kind, closed>>
      PROVE  OwnerInv'
  <2>1. seq[t] \in 1..Len(calls)
    BY <1>0, <1>c DEF NumberingInv, LocalOK
  <2>2. \A u \in Tasks \ {t} : seq[u] # 0 => seq[u] \in DOMAIN calls \ {seq[t]}
    BY <1>0, <1>c DEF NumberingInv, LocalOK, OwnerInv
  <2>3. /\ \A j \in DOMAIN calls : calls'[j].kind = calls[j].kind
        /\ \A j \in DOMAIN calls \ {seq[t]} : calls'[j] = calls[j]
    BY <1>0, <1>c, <2>1, SettledEntry
  <2>4. pc'[t] = "release" /\ \A u \in Tasks \ {t} : pc'[u] = pc[u]
    BY <1>0, <1>c DEF Go
  <2>5. \A u \in Tasks : seq[u] # 0 => calls'[seq[u]].kind = kind[u]
    BY <1>0, <2>1, <2>2, <2>3 DEF OwnerInv
  <2>6. \A u \in Tasks : seq[u] # 0 /\ pc'[u] # "release" => calls'[seq[u]].disposition = None
    BY <1>0, <2>2, <2>3, <2>4 DEF OwnerInv
  <2> QED BY <1>0, <1>c, <2>4, <2>5, <2>6 DEF OwnerInv
<1>d. ASSUME NEW t \in Tasks, NEW d \in Dispositions, seq[t] # 0, pc[t] # "release",
             calls' = Settled(seq[t], d), Leave(t), UNCHANGED closed
      PROVE  OwnerInv'
  <2>1. seq[t] \in 1..Len(calls)
    BY <1>0, <1>d DEF NumberingInv, LocalOK
  <2>2. \A u \in Tasks : seq[u] # 0 => seq[u] \in DOMAIN calls
    BY <1>0 DEF NumberingInv, LocalOK
  <2> QED BY <1>0, <1>d, <2>1, <2>2, SettledEntry DEF Leave, Go, OwnerInv, LocalOK
<1>1. ASSUME NEW t \in Tasks, NEW k \in Kinds, Request(t, k) PROVE OwnerInv'
  <2>1. seq[t] = 0
    BY <1>0, <1>1 DEF Request, OwnerInv
  <2> QED BY <1>0, <1>1, <2>1 DEF Request, Doom, Go, OwnerInv, LocalOK
<1>2. ASSUME NEW t \in Tasks, RefuseClosed(t) PROVE OwnerInv'
  BY <1>0, <1>2, <1>a DEF RefuseClosed
<1>3. ASSUME NEW t \in Tasks, Exhaust(t) PROVE OwnerInv'
  BY <1>0, <1>3, <1>b DEF Exhaust, Doom, Places
<1>4. ASSUME NEW t \in Tasks, Allocate(t) PROVE OwnerInv'
  <2>1. calls' = Append(calls, NewCall(kind[t])) /\ NewCall(kind[t]) \in Records
    BY <1>0, <1>4 DEF Allocate, NewCall, Records, LocalOK
  <2>2. /\ \A i \in 1..Len(calls) : calls'[i] = calls[i]
        /\ calls'[Len(calls) + 1] = NewCall(kind[t])
    BY <1>0, <2>1
  <2>3. \A u \in Tasks : seq[u] # Len(calls) + 1 /\ (seq[u] # 0 => seq[u] \in 1..Len(calls))
    BY <1>0 DEF NumberingInv, LocalOK
  <2> QED BY <1>0, <1>4, <2>2, <2>3 DEF Allocate, Go, NewCall, OwnerInv, LocalOK
<1>5. ASSUME NEW t \in Tasks, Acquire(t) PROVE OwnerInv'
  BY <1>0, <1>5, <1>b DEF Acquire, Places
<1>6. ASSUME NEW t \in Tasks, Admit(t) PROVE OwnerInv'
  BY <1>0, <1>6, <1>b DEF Admit, Places
<1>7. ASSUME NEW t \in Tasks, TimeOut(t) PROVE OwnerInv'
  BY <1>0, <1>7, <1>b DEF TimeOut, Doom, Places
<1>8. ASSUME NEW t \in Tasks, ObserveClosed(t) PROVE OwnerInv'
  BY <1>0, <1>8, <1>b DEF ObserveClosed, Places
<1>9. ASSUME NEW t \in Tasks, Terminate(t) PROVE OwnerInv'
  BY <1>0, <1>9, <1>b DEF Terminate, Places
<1>10. ASSUME NEW t \in Tasks, CloseAdmission(t) PROVE OwnerInv'
  BY <1>0, <1>10, <1>a, <1>b DEF CloseAdmission, Places
<1>11. ASSUME NEW t \in Tasks, Abandon(t) PROVE OwnerInv'
  BY <1>0, <1>11, <1>c, <1>d DEF Abandon, DropPermit, NumberingInv, Numbered, Dispositions
<1>12. ASSUME NEW t \in Tasks, Release(t) PROVE OwnerInv'
  BY <1>0, <1>12, <1>a DEF Release
<1>13. ASSUME NEW t \in Tasks, NEW d \in Answers, Finish(t, d) PROVE OwnerInv'
  BY <1>0, <1>13, <1>c, AnswersAreDispositions DEF Finish, NumberingInv, Numbered
<1>14. ASSUME NEW t \in Tasks, Abort(t) PROVE OwnerInv'
  <2>1. CASE pc[t] = "calling"
    BY <1>0, <1>14, <1>c, <2>1 DEF Abort, NumberingInv, Numbered, Dispositions
  <2>2. CASE pc[t] # "calling"
    BY <1>0, <1>14, <1>a, <1>b, <2>2 DEF Abort, DropPermit, Places
  <2> QED BY <2>1, <2>2
<1>15. ASSUME Cancel \/ AnnounceCancel \/ CloseCancelled \/ Tick PROVE OwnerInv'
  BY <1>0, <1>15 DEF Cancel, AnnounceCancel, CloseCancelled, Tick, OwnerInv
<1> QED
  BY <1>1, <1>2, <1>3, <1>4, <1>5, <1>6, <1>7, <1>8, <1>9, <1>10, <1>11, <1>12, <1>13,
     <1>14, <1>15, AbortableAreTasks DEF Next, Reserve

(* Only an allocation adds a call, to the set its counter counts.          *)
LEMMA CountStep ==
  ASSUME IInv, CountInv, Next
  PROVE  CountInv'
<1> USE DEF clock, flags, ledger, flight, pacing, semaphore, local
<1>0. /\ normalConsumed \in Nat /\ cleanupConsumed \in Nat /\ LocalOK
      /\ calls \in Seq(Records) /\ Len(calls) \in Nat /\ NumberingInv
  BY DEF IInv, TypeOK, LocalOK, Records
<1>a. ASSUME UNCHANGED <<normalConsumed, cleanupConsumed>>, DOMAIN calls' = DOMAIN calls,
             \A j \in DOMAIN calls : calls'[j].kind = calls[j].kind
      PROVE  CountInv'
  <2>1. ASSUME NEW k \in Kinds PROVE EnteredCalls(k)' = EnteredCalls(k)
    BY <1>a DEF EnteredCalls
  <2> QED BY <1>a, <2>1 DEF CountInv, Consumed
<1>b. ASSUME NEW t \in Tasks, NEW d \in Dispositions, pc[t] \in Numbered,
             calls' = Settled(seq[t], d), UNCHANGED <<normalConsumed, cleanupConsumed>>
      PROVE  CountInv'
  <2>1. seq[t] \in 1..Len(calls)
    BY <1>0, <1>b DEF NumberingInv, LocalOK
  <2> QED BY <1>0, <1>a, <1>b, <2>1, SettledEntry
<1>1. ASSUME NEW t \in Tasks, Allocate(t) PROVE CountInv'
  <2> DEFINE n == Len(calls) + 1
  <2>1. calls' = Append(calls, NewCall(kind[t])) /\ NewCall(kind[t]) \in Records
    BY <1>0, <1>1 DEF Allocate, NewCall, Records, LocalOK
  <2>2. /\ DOMAIN calls = 1..Len(calls) /\ DOMAIN calls' = 1..n
        /\ \A i \in 1..Len(calls) : calls'[i] = calls[i]
        /\ calls'[n] = NewCall(kind[t])
    BY <1>0, <2>1
  <2>3. NewCall(kind[t]).kind = kind[t]
    BY DEF NewCall
  <2>4. n \notin DOMAIN calls /\ IsFiniteSet(DOMAIN calls)
    BY <1>0, <2>2, FS_Interval
  <2>5. ASSUME NEW k \in Kinds, k = kind[t]
        PROVE  Cardinality(EnteredCalls(k)') = Cardinality(EnteredCalls(k)) + 1
    <3>1. EnteredCalls(k)' = EnteredCalls(k) \cup {n}
      BY <1>0, <2>2, <2>3, <2>5 DEF EnteredCalls
    <3>2. n \notin EnteredCalls(k) /\ IsFiniteSet(EnteredCalls(k))
      BY <2>4, FS_Subset DEF EnteredCalls
    <3> QED BY <3>1, <3>2, FS_AddElement
  <2>7. ASSUME NEW k \in Kinds, k # kind[t] PROVE EnteredCalls(k)' = EnteredCalls(k)
    BY <1>0, <2>2, <2>3, <2>7 DEF EnteredCalls
  <2>8. ASSUME NEW k \in Kinds PROVE Cardinality(EnteredCalls(k)') = Consumed(k)'
    <3>1. CASE k = kind[t]
      BY <1>0, <1>1, <2>5, <3>1 DEF CountInv, Consumed, Allocate, Kinds
    <3>2. CASE k # kind[t]
      BY <1>0, <1>1, <2>7, <3>2 DEF CountInv, Consumed, Allocate, Kinds, LocalOK
    <3> QED BY <3>1, <3>2
  <2> QED BY <2>8 DEF CountInv
<1>2. ASSUME NEW t \in Tasks, Abandon(t) PROVE CountInv'
  BY <1>2, <1>b DEF Abandon, Dispositions, Numbered
<1>3. ASSUME NEW t \in Tasks, NEW d \in Answers, Finish(t, d) PROVE CountInv'
  BY <1>3, <1>b, AnswersAreDispositions DEF Finish, Numbered
<1>4. ASSUME NEW t \in Tasks, Abort(t) PROVE CountInv'
  BY <1>4, <1>a, <1>b DEF Abort, Dispositions, Numbered
<1>5. ASSUME NEW t \in Tasks,
             \/ \E k \in Kinds : Request(t, k)
             \/ RefuseClosed(t) \/ Exhaust(t) \/ Acquire(t) \/ Admit(t) \/ TimeOut(t)
             \/ ObserveClosed(t) \/ Terminate(t) \/ CloseAdmission(t) \/ Release(t)
      PROVE  CountInv'
  BY <1>5, <1>a DEF Request, RefuseClosed, Exhaust, Acquire, Admit, TimeOut, ObserveClosed,
     Terminate, CloseAdmission, Release
<1>6. ASSUME Cancel \/ AnnounceCancel \/ CloseCancelled \/ Tick PROVE CountInv'
  BY <1>6, <1>a DEF Cancel, AnnounceCancel, CloseCancelled, Tick
<1> QED
  BY <1>1, <1>2, <1>3, <1>4, <1>5, <1>6, AbortableAreTasks DEF Next, Reserve

(* OwnerInv and CountInv hold of every reachable state.                    *)
LEMMA CallsAreOwned == Spec => [](IInv /\ OwnerInv /\ CountInv)
<1>1. ASSUME Init PROVE OwnerInv /\ CountInv
  <2>1. \A k \in Kinds : EnteredCalls(k) = {}
    BY <1>1 DEF Init, EnteredCalls
  <2>2. CountInv
    BY <1>1, <2>1, FS_EmptySet DEF Init, CountInv, Consumed
  <2> QED BY <1>1, <2>2 DEF Init, OwnerInv
<1>2. ASSUME OwnerInv, CountInv, UNCHANGED vars PROVE OwnerInv' /\ CountInv'
  <2>1. UNCHANGED <<calls, seq, kind, pc, closed, normalConsumed, cleanupConsumed>>
    BY <1>2 DEF vars, flags, ledger, local
  <2>2. OwnerInv'
    BY <1>2, <2>1 DEF OwnerInv
  <2>3. CountInv'
    BY <1>2, <2>1 DEF CountInv, EnteredCalls, Consumed
  <2> QED BY <2>2, <2>3
<1>3. IInv /\ OwnerInv /\ CountInv /\ [Next]_vars => OwnerInv' /\ CountInv'
  BY <1>2, OwnerStep, CountStep
<1> QED BY Invariant, <1>1, <1>3, PTL DEF Spec

-----------------------------------------------------------------------------
(* The ledger's view of a state, and what changes it.                      *)

Statuses == Dispositions \cup {"active", "waiting"}
LedgerStep == [Ledger!Next]_(Ledger!ledgerVars)

(* The ledger counts with the same Cardinality.                            *)
LEMMA SameCardinality ==
  ASSUME NEW S
  PROVE  Ledger!Cardinality(S) = Cardinality(S)
BY DEF Ledger!Cardinality, Cardinality

(* A function on 1..n is a sequence.                                       *)
LEMMA FunctionIsSequence ==
  ASSUME NEW S, NEW n \in Nat, NEW f \in [1..n -> S]
  PROVE  f \in Seq(S) /\ Len(f) = n /\ DOMAIN f = 1..n
OBVIOUS

(* The mapped ledger is a sequence as long as the budget's.                *)
LEMMA EntriesAreEntries ==
  ASSUME calls \in Seq(Records)
  PROVE  /\ Entries \in Seq([kind : Kinds, status : Statuses])
         /\ Len(Entries) = Len(calls) /\ DOMAIN Entries = 1..Len(calls)
<1>1. Len(calls) \in Nat /\ DOMAIN calls = 1..Len(calls)
  OBVIOUS
<1>2. ASSUME NEW i \in 1..Len(calls)
      PROVE  [kind |-> calls[i].kind, status |-> Status(i)] \in [kind : Kinds, status : Statuses]
  <2>1. calls[i] \in Records
    BY <1>2
  <2> QED BY <2>1 DEF Records, Status, Statuses
<1>3. Entries \in [1..Len(calls) -> [kind : Kinds, status : Statuses]]
  BY <1>1, <1>2 DEF Entries
<1> HIDE DEF Entries
<1> QED BY <1>1, <1>3, FunctionIsSequence

(* The calls in flight are the tasks that own an admitted permit.          *)
LEMMA ActiveCallsAreCalling ==
  ASSUME IInv, OwnerInv
  PROVE  /\ Cardinality(Ledger!Active) = Cardinality(Calling)
         /\ IsFiniteSet(Calling)
<1>0. /\ calls \in Seq(Records) /\ LocalOK /\ NumberingInv /\ OwnerInv
      /\ DOMAIN calls = 1..Len(calls) /\ Len(calls) \in Nat
  BY DEF IInv, TypeOK, LocalOK, Records
<1>1. IsFiniteSet(Calling)
  BY TasksFinite, FS_Subset DEF Calling
<1>2. Ledger!Active = ActiveCalls
  BY DEF Ledger!Active, ActiveCalls
<1> DEFINE owner == [t \in Calling |-> seq[t]]
<1>3. ASSUME NEW t \in Calling PROVE seq[t] \in ActiveCalls
  <2>1. t \in Tasks /\ pc[t] = "calling"
    BY <1>3 DEF Calling
  <2>2. seq[t] # 0 /\ seq[t] \in DOMAIN calls
    BY <1>0, <2>1 DEF NumberingInv, Numbered, LocalOK
  <2>3. calls[seq[t]].disposition = None
    BY <1>0, <2>1, <2>2 DEF OwnerInv
  <2> QED BY <2>1, <2>2, <2>3 DEF ActiveCalls, Status
<1>4. owner \in [Calling -> ActiveCalls]
  BY <1>3
<1>5. \A a, b \in Calling : owner[a] = owner[b] => a = b
  BY <1>0 DEF Calling, OwnerInv, NumberingInv, Numbered
<1>6. ASSUME NEW i \in ActiveCalls PROVE \E t \in Calling : owner[t] = i
  <2>1. i \in 1..Len(calls) /\ Status(i) = "active" /\ calls[i] \in Records
    BY <1>0, <1>6 DEF ActiveCalls
  <2>2. calls[i].disposition = None
    BY <2>1 DEF Status, Records, Dispositions
  <2>3. \E t \in Tasks : seq[t] = i /\ pc[t] = "calling"
    BY <2>1, <2>2 DEF Status
  <2> QED BY <2>3 DEF Calling
<1>7. owner \in Bijection(Calling, ActiveCalls)
  BY <1>4, <1>5, <1>6, Fun_IsBij
<1>8. ExistsBijection(Calling, ActiveCalls)
  BY <1>7 DEF ExistsBijection
<1> QED BY <1>1, <1>2, <1>8, FS_Bijection

(* A step that leaves the ledger and the tasks that call alone.            *)
LEMMA QuietStep ==
  ASSUME calls' = calls, closed' = closed \/ closed' = TRUE,
         \A i \in DOMAIN calls :
           (\E t \in Tasks : seq'[t] = i /\ pc'[t] = "calling")
             <=> (\E t \in Tasks : seq[t] = i /\ pc[t] = "calling")
  PROVE  LedgerStep
<1>1. ASSUME NEW i \in DOMAIN calls PROVE Status(i)' = Status(i)
  BY DEF Status
<1>2. Entries' = Entries
  BY <1>1 DEF Entries
<1> QED
  BY <1>2 DEF LedgerStep, Ledger!Next, Ledger!Close, Ledger!ledgerVars, Entries

(* The same for the step of one task that does not call.                   *)
LEMMA QuietTask ==
  ASSUME NEW t \in Tasks, calls' = calls, closed' = closed \/ closed' = TRUE,
         pc[t] # "calling", pc'[t] # "calling",
         \A u \in Tasks \ {t} : pc'[u] = pc[u] /\ seq'[u] = seq[u]
  PROVE  LedgerStep
BY QuietStep

(* An allocated call is entered: the ledger still had room for its kind.   *)
LEMMA EnterStep ==
  ASSUME IInv, OwnerInv, CountInv, NEW t \in Tasks, Allocate(t)
  PROVE  LedgerStep
<1> PICK n, k : n = Len(calls) + 1 /\ k = kind[t]
  OBVIOUS
<1> DEFINE waiting == [kind |-> k, status |-> "waiting"]
<1>0. /\ calls \in Seq(Records) /\ LocalOK /\ NumberingInv /\ OwnerInv
      /\ DOMAIN calls = 1..Len(calls) /\ Len(calls) \in Nat /\ k \in Kinds
      /\ pc \in [Tasks -> Places]
  BY DEF IInv, TypeOK, LocalOK, Records
<1>1. calls' = Append(calls, NewCall(k)) /\ NewCall(k) \in Records
  BY <1>0 DEF Allocate, NewCall, Records
<1>2. /\ calls' \in Seq(Records) /\ Len(calls') = n /\ DOMAIN calls' = 1..n
      /\ \A i \in 1..Len(calls) : calls'[i] = calls[i]
      /\ calls'[n] = NewCall(k)
  BY <1>0, <1>1
<1>3. \A u \in Tasks \ {t} : seq'[u] = seq[u] /\ pc'[u] = pc[u]
  BY <1>0 DEF Allocate, Go, LocalOK
<1>4. seq'[t] = n /\ pc'[t] = "acquire" /\ pc[t] = "allocate"
  BY <1>0 DEF Allocate, Go, LocalOK
<1>5. ASSUME NEW i \in 1..Len(calls) PROVE Entries'[i] = Entries[i]
  <2>1. Status(i)' = Status(i)
    BY <1>2, <1>3, <1>4, <1>5 DEF Status
  <2> QED BY <1>0, <1>2, <2>1 DEF Entries
<1>6. Entries'[n] = waiting
  <2>1. \A u \in Tasks : seq'[u] = n => pc'[u] # "calling"
    <3>1. \A u \in Tasks : seq[u] # n
      BY <1>0 DEF NumberingInv, LocalOK
    <3> QED BY <1>3, <1>4, <3>1
  <2>2. Status(n)' = "waiting"
    BY <1>2, <2>1 DEF Status, NewCall
  <2> QED BY <1>0, <1>2, <2>2 DEF Entries, NewCall
<1>7. Entries' = Append(Entries, waiting)
  <2>1. Entries \in Seq([kind : Kinds, status : Statuses]) /\ Len(Entries) = Len(calls)
    BY <1>0, EntriesAreEntries
  <2>2. waiting \in [kind : Kinds, status : Statuses]
    BY <1>0 DEF Statuses
  <2>3. Entries' = [i \in 1..n |-> Entries'[i]]
    BY <1>2 DEF Entries
  <2> HIDE DEF waiting, Entries
  <2> QED BY <1>0, <1>5, <1>6, <2>1, <2>2, <2>3
<1>8. Cardinality(EnteredCalls(k)) < Limit(k)
  BY <1>0 DEF Allocate, CountInv
<1>9. Ledger!Entered(k) = EnteredCalls(k)
  BY DEF Ledger!Entered, EnteredCalls
<1>10. Ledger!Enter(k)
  <2>1. IF k = "normal" THEN ~closed ELSE closed
    BY <1>0 DEF Allocate, OwnerInv, Kinds
  <2>2. UNCHANGED closed
    BY DEF Allocate, flags
  <2>3. IF k = "normal"
        THEN ~closed /\ Cardinality(Ledger!Entered(k)) < MaxCalls - CleanupCalls
        ELSE ~(~closed) /\ Cardinality(Ledger!Entered(k)) < CleanupCalls
    BY <1>0, <1>8, <1>9, <2>1 DEF Limit, NormalLimit, Kinds
  <2> QED BY <1>7, <2>2, <2>3, SameCardinality DEF Ledger!Enter, Entries
<1> QED BY <1>0, <1>10 DEF LedgerStep, Ledger!Next, Ledger!Kinds, Kinds

(* The status of one call changes, and nothing else.                       *)
LEMMA OneEntryChanges ==
  ASSUME calls \in Seq(Records), NEW i \in DOMAIN calls, DOMAIN calls' = DOMAIN calls,
         \A j \in DOMAIN calls : calls'[j].kind = calls[j].kind,
         \A j \in DOMAIN calls \ {i} : Status(j)' = Status(j)
  PROVE  Entries' = [Entries EXCEPT ![i].status = Status(i)']
BY DEF Entries

(* A slot's timer fires: the call becomes active, and a permit was free.   *)
LEMMA ActivateStep ==
  ASSUME IInv, OwnerInv, NEW t \in Tasks, Admit(t)
  PROVE  LedgerStep
<1> PICK i : i = seq[t]
  OBVIOUS
<1>0. /\ calls \in Seq(Records) /\ LocalOK /\ NumberingInv /\ OwnerInv /\ PermitInv
      /\ DOMAIN calls = 1..Len(calls) /\ Len(calls) \in Nat
      /\ pc \in [Tasks -> Places] /\ available \in Nat /\ holds \subseteq Tasks
  BY PlanAccepted DEF IInv, TypeOK, LocalOK, Records
<1>1. /\ UNCHANGED <<calls, seq, closed>>
      /\ pc[t] = "slot" /\ pc'[t] = "calling"
      /\ \A u \in Tasks \ {t} : pc'[u] = pc[u]
  BY <1>0 DEF Admit, Go, ledger, flags
<1>2. i \in DOMAIN calls /\ calls[i].disposition = None
  BY <1>0, <1>1 DEF NumberingInv, Numbered, LocalOK, OwnerInv
<1>3. \A u \in Tasks \ {t} : seq[u] # i
  BY <1>0, <1>2 DEF OwnerInv
<1>4. Status(i) = "waiting" /\ Status(i)' = "active"
  BY <1>1, <1>2, <1>3 DEF Status
<1>5. ASSUME NEW j \in DOMAIN calls \ {i} PROVE Status(j)' = Status(j)
  BY <1>1, <1>5 DEF Status
<1>6. Entries' = [Entries EXCEPT ![i].status = "active"]
  BY <1>0, <1>1, <1>2, <1>4, <1>5, OneEntryChanges
<1>7. Cardinality(Calling) < MaxConcurrency
  <2>1. Calling \subseteq holds \ {t} /\ t \in holds
    BY <1>0, <1>1 DEF Calling, PermitInv, Granted
  <2>2. IsFiniteSet(holds) /\ Cardinality(holds) \in Nat
    BY <1>0, TasksFinite, FS_Subset, FS_CardinalityType
  <2>3. /\ IsFiniteSet(holds \ {t})
        /\ Cardinality(holds \ {t}) = Cardinality(holds) - 1
    BY <2>1, <2>2, FS_RemoveElement
  <2>4. Cardinality(Calling) <= Cardinality(holds \ {t}) /\ Cardinality(Calling) \in Nat
    BY <2>1, <2>3, FS_Subset, FS_CardinalityType
  <2> QED BY <1>0, <2>2, <2>3, <2>4, PlanAccepted DEF PermitInv
<1>8. Cardinality(Ledger!Active) < MaxConcurrency
  BY <1>7, ActiveCallsAreCalling
<1>9. Ledger!Activate(i)
  BY <1>1, <1>2, <1>4, <1>6, <1>8, SameCardinality DEF Ledger!Activate, Entries
<1> QED BY <1>2, <1>9 DEF LedgerStep, Ledger!Next

(* A disposition is recorded for a call that has none.                     *)
LEMMA SettleStep ==
  ASSUME IInv, OwnerInv, NEW t \in Tasks, NEW d \in Dispositions,
         pc[t] \in Numbered \ {"release"}, pc[t] = "calling" \/ d = "Cancelled",
         calls' = Settled(seq[t], d), UNCHANGED closed,
         pc'[t] # "calling",
         \A u \in Tasks \ {t} : pc'[u] = pc[u] /\ seq'[u] = seq[u]
  PROVE  LedgerStep
<1> PICK i : i = seq[t]
  OBVIOUS
<1>0. /\ calls \in Seq(Records) /\ LocalOK /\ NumberingInv /\ OwnerInv
      /\ DOMAIN calls = 1..Len(calls) /\ Len(calls) \in Nat
  BY DEF IInv, TypeOK, LocalOK, Records
<1>1. i \in 1..Len(calls) /\ i # 0 /\ calls[i].disposition = None
  BY <1>0 DEF NumberingInv, Numbered, LocalOK, OwnerInv
<1>2. /\ DOMAIN calls' = DOMAIN calls
      /\ \A j \in DOMAIN calls : calls'[j].kind = calls[j].kind
      /\ \A j \in DOMAIN calls \ {i} : calls'[j] = calls[j]
      /\ calls'[i].disposition = d
  BY <1>0, <1>1, SettledEntry
<1>3. \A u \in Tasks \ {t} : seq[u] # i
  BY <1>0, <1>1 DEF OwnerInv
<1>4. Status(i)' = d
  BY <1>2 DEF Status, Dispositions, None
<1>5. Status(i) = IF pc[t] = "calling" THEN "active" ELSE "waiting"
  BY <1>1, <1>3 DEF Status
<1>6. ASSUME NEW j \in DOMAIN calls \ {i} PROVE Status(j)' = Status(j)
  <2>1. (\E u \in Tasks : seq'[u] = j /\ pc'[u] = "calling")
          <=> (\E u \in Tasks : seq[u] = j /\ pc[u] = "calling")
    BY <1>6
  <2> QED BY <1>2, <1>6, <2>1 DEF Status
<1>7. Entries' = [Entries EXCEPT ![i].status = d]
  BY <1>0, <1>1, <1>2, <1>4, <1>6, OneEntryChanges
<1>8. Ledger!Settle(i, d)
  BY <1>0, <1>1, <1>5, <1>7 DEF Ledger!Settle, Entries
<1> QED
  BY <1>0, <1>1, <1>8 DEF LedgerStep, Ledger!Next, Ledger!Dispositions, Dispositions

-----------------------------------------------------------------------------
(* Each step of the budget is a step of the ledger or a stutter.           *)
LEMMA StepSimulated ==
  ASSUME IInv, OwnerInv, CountInv, Next
  PROVE  LedgerStep
<1> USE DEF clock, flags, ledger, flight, pacing, semaphore, local
<1>0. pc \in [Tasks -> Places] /\ LocalOK /\ closed \in BOOLEAN
  BY DEF IInv, TypeOK, LocalOK
<1>a. ASSUME NEW t \in Tasks, Leave(t), pc[t] # "calling", UNCHANGED calls,
             closed' = closed \/ closed' = TRUE
      PROVE  LedgerStep
  BY <1>0, <1>a, QuietTask DEF Leave, Go, LocalOK
<1>b. ASSUME NEW t \in Tasks, NEW place \in Places \ {"calling"}, Go(t, place),
             pc[t] # "calling", UNCHANGED <<seq, calls>>, closed' = closed \/ closed' = TRUE
      PROVE  LedgerStep
  BY <1>0, <1>b, QuietTask DEF Go
<1>c. ASSUME NEW t \in Tasks, NEW d \in Dispositions, pc[t] = "calling", Go(t, "release"),
             calls' = Settled(seq[t], d), UNCHANGED <<seq, closed>>
      PROVE  LedgerStep
  BY <1>0, <1>c, SettleStep DEF Go, Numbered
<1>1. ASSUME NEW t \in Tasks, NEW k \in Kinds, Request(t, k) PROVE LedgerStep
  <2>1. closed' = closed \/ closed' = TRUE
    BY <1>0, <1>1 DEF Request
  <2> QED BY <1>1, <1>b, <2>1 DEF Request, Doom, Places
<1>2. ASSUME NEW t \in Tasks, RefuseClosed(t) PROVE LedgerStep
  BY <1>2, <1>a DEF RefuseClosed
<1>3. ASSUME NEW t \in Tasks,
             Exhaust(t) \/ TimeOut(t) \/ ObserveClosed(t) \/ Terminate(t) \/ Acquire(t)
      PROVE  LedgerStep
  BY <1>3, <1>b DEF Exhaust, TimeOut, ObserveClosed, Terminate, Acquire, Doom, Places
<1>4. ASSUME NEW t \in Tasks, Allocate(t) PROVE LedgerStep
  BY <1>4, EnterStep
<1>5. ASSUME NEW t \in Tasks, Admit(t) PROVE LedgerStep
  BY <1>5, ActivateStep
<1>6. ASSUME NEW t \in Tasks, CloseAdmission(t) PROVE LedgerStep
  BY <1>6, <1>a, <1>b DEF CloseAdmission, Places
<1>7. ASSUME NEW t \in Tasks, Abandon(t) PROVE LedgerStep
  <2>1. pc'[t] # "calling" /\ \A u \in Tasks \ {t} : pc'[u] = pc[u] /\ seq'[u] = seq[u]
    BY <1>0, <1>7 DEF Abandon, DropPermit, Leave, Go, LocalOK
  <2> QED BY <1>7, <2>1, SettleStep DEF Abandon, Numbered, Dispositions
<1>8. ASSUME NEW t \in Tasks, Release(t) PROVE LedgerStep
  BY <1>8, <1>a DEF Release
<1>9. ASSUME NEW t \in Tasks, NEW d \in Answers, Finish(t, d) PROVE LedgerStep
  BY <1>9, <1>c, AnswersAreDispositions DEF Finish
<1>10. ASSUME NEW t \in Tasks, Abort(t) PROVE LedgerStep
  <2>1. CASE pc[t] = "calling"
    BY <1>10, <1>c, <2>1 DEF Abort, Dispositions
  <2>2. CASE pc[t] # "calling"
    BY <1>10, <1>a, <1>b, <2>2 DEF Abort, DropPermit, Places
  <2> QED BY <2>1, <2>2
<1>11. ASSUME Cancel \/ AnnounceCancel \/ CloseCancelled \/ Tick PROVE LedgerStep
  BY <1>11, QuietStep DEF Cancel, AnnounceCancel, CloseCancelled, Tick
<1> QED
  BY <1>1, <1>2, <1>3, <1>4, <1>5, <1>6, <1>7, <1>8, <1>9, <1>10, <1>11, AbortableAreTasks
     DEF Next, Reserve

(* The call budget implements the ledger for every plan and every set of   *)
(* tasks: calls are only ever added, within the allowance of their kind    *)
(* and, for normal calls, before admission closes; at most max_concurrency *)
(* of them are made at once; and a recorded disposition is final.          *)
THEOREM BudgetImplementsLedger == Spec => ImplementsLedger
<1>1. Init => Ledger!Init
  BY DEF Init, Ledger!Init
<1>2. ASSUME UNCHANGED vars PROVE LedgerStep
  BY <1>2, QuietStep DEF vars, flags, ledger, local
<1>3. IInv /\ OwnerInv /\ CountInv /\ [Next]_vars => [Ledger!Next]_(Ledger!ledgerVars)
  BY <1>2, StepSimulated DEF LedgerStep
<1> QED BY CallsAreOwned, <1>1, <1>3, PTL DEF Spec, ImplementsLedger, Ledger!Spec
=============================================================================
