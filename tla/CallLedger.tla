----------------------------- MODULE CallLedger -----------------------------
(***************************************************************************)
(* What the call budget of an execution promises to everything that sits   *)
(* above it, without clocks, locks, semaphores or tasks: a ledger of       *)
(* numbered calls that only grows, whose two allowances are never mixed,   *)
(* that never admits more calls at once than the plan allows, and whose    *)
(* settled entries are final.  CallBudget implements it.                   *)
(***************************************************************************)
EXTENDS Integers, Sequences, FiniteSets

CONSTANTS
  MaxCalls,        (* max_calls of the plan                                *)
  CleanupCalls,    (* the part of MaxCalls only cleanup calls may spend    *)
  MaxConcurrency   (* max_concurrency of the plan                          *)

VARIABLES
  entries,   (* the calls in sequence order: [kind, status]                *)
  open       (* normal calls may still be entered                          *)

ledgerVars == <<entries, open>>

Kinds == {"normal", "cleanup"}
Dispositions == {"Completed", "Failed", "Rejected", "Cancelled"}

Entered(kind) == {i \in DOMAIN entries : entries[i].kind = kind}
Active == {i \in DOMAIN entries : entries[i].status = "active"}

Init ==
  /\ entries = <<>>
  /\ open = TRUE

(* A call is entered before it is made, and stays entered.                 *)
Enter(kind) ==
  /\ IF kind = "normal"
     THEN open /\ Cardinality(Entered(kind)) < MaxCalls - CleanupCalls
     ELSE ~open /\ Cardinality(Entered(kind)) < CleanupCalls
  /\ entries' = Append(entries, [kind |-> kind, status |-> "waiting"])
  /\ UNCHANGED open

Activate(i) ==
  /\ entries[i].status = "waiting"
  /\ Cardinality(Active) < MaxConcurrency
  /\ entries' = [entries EXCEPT ![i].status = "active"]
  /\ UNCHANGED open

(* A call that was never made can only be recorded as cancelled.           *)
Settle(i, disposition) ==
  /\ \/ entries[i].status = "active"
     \/ entries[i].status = "waiting" /\ disposition = "Cancelled"
  /\ entries' = [entries EXCEPT ![i].status = disposition]
  /\ UNCHANGED open

Close ==
  /\ open' = FALSE
  /\ UNCHANGED entries

Next ==
  \/ \E kind \in Kinds : Enter(kind)
  \/ \E i \in DOMAIN entries : Activate(i)
  \/ \E i \in DOMAIN entries, d \in Dispositions : Settle(i, d)
  \/ Close

Spec == Init /\ [][Next]_ledgerVars
=============================================================================
