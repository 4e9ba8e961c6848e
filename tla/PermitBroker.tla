---------------------------- MODULE PermitBroker ----------------------------
(***************************************************************************)
(* The call-permit broker (src/src/execution/call_permit.rs): fuzz         *)
(* harnesses inside a container connect to a socket, ask for one call per  *)
(* connection, are granted or denied, make the call and report how it      *)
(* went.  The budget behind it is the CallLedger that CallBudget           *)
(* implements.  Handlers are tasks on a runtime with few worker threads: a *)
(* handler that has answered keeps its connection until its poll ends,     *)
(* and the accepting task needs a worker of its own.                       *)
(***************************************************************************)
EXTENDS Integers, Sequences, FiniteSets

CONSTANTS
  Clients,          (* harness threads, each with one connection at a time *)
  MaxCalls,         (* limits.max_calls                                    *)
  CleanupCalls,     (* the calls a harness cannot have                     *)
  MaxConcurrency,   (* limits.max_concurrency                              *)
  MaxOpenFiles,     (* limits.max_open_files                               *)
  HostParallelism,  (* available_parallelism of the host                   *)
  Answers           (* the dispositions that clients report                *)

Reserved == 2
Lesser(a, b) == IF a <= b THEN a ELSE b

ConnectionLimit == Lesser(MaxOpenFiles - Reserved, MaxConcurrency)
Workers == Lesser(MaxConcurrency, HostParallelism)

(* What resolve_connection_limit and the plan's limits require.            *)
ASSUME LimitsAccepted ==
  /\ MaxConcurrency \in Nat \ {0} /\ HostParallelism \in Nat \ {0}
  /\ MaxOpenFiles \in Nat /\ MaxOpenFiles > Reserved
  /\ MaxCalls \in Nat /\ CleanupCalls \in 0..MaxCalls
  /\ Answers \subseteq {"Completed", "Failed", "Rejected", "Cancelled"}

ASSUME FiniteClients == IsFiniteSet(Clients) /\ "None" \notin Clients

Slots == 1..ConnectionLimit

VARIABLES
  entries,    (* the ledger of calls                                       *)
  open,       (* normal calls are still admitted                           *)
  cancelled,  (* the budget's cancelled watch                              *)
  expired,    (* the normal deadline has passed                            *)
  broker,     (* where serve_permits stands                                *)
  stopping,   (* the shutdown watch                                        *)
  errors,     (* a handler that failed has not been joined yet             *)
  backlog,    (* connections the listener has not accepted                 *)
  killed,     (* the harness process is gone                               *)
  place,      (* where each client stands                                  *)
  reported,   (* what it reports for its call                              *)
  handler     (* the task behind each connection permit                    *)

Ledger == INSTANCE CallLedger

calls == <<entries, open>>
budget == <<cancelled, expired>>
loop == <<broker, stopping, errors>>
harness == <<killed, place, reported>>
vars == <<calls, budget, loop, backlog, harness, handler>>

None == "None"
Free == [place |-> "free", client |-> None, call |-> 0]

(* A handler between two awaits occupies a worker; everything else that    *)
(* wakes up needs one that is left.                                        *)
Running == {h \in Slots : handler[h].place \in {"granting", "acking", "returning", "failing"}}
Resumes == Cardinality(Running) < Workers

Listening == broker \in {"serving", "draining"}
Serves(h, c) == handler[h].client = c /\ handler[h].place \notin {"returning", "failing"}
Connected(c) == c \in backlog \/ \E h \in Slots : Serves(h, c)

Move(h, to) == handler' = [handler EXCEPT ![h].place = to]
Drop(h) == handler' = [handler EXCEPT ![h] = Free]
Stands(c, to) == place' = [place EXCEPT ![c] = to]

Init ==
  /\ Ledger!Init
  /\ cancelled = FALSE /\ expired = FALSE
  /\ broker = "serving" /\ stopping = FALSE /\ errors = FALSE
  /\ backlog = {}
  /\ killed = FALSE
  /\ place = [c \in Clients |-> "idle"]
  /\ reported = [c \in Clients |-> None]
  /\ handler = [h \in Slots |-> Free]

-----------------------------------------------------------------------------
(* The harness                                                             *)

(* A client connects and writes its request; a listener that is gone, or   *)
(* whose socket file is, refuses it.                                       *)
Ask(c) ==
  /\ ~killed /\ place[c] = "idle"
  /\ \/ Listening /\ Stands(c, "asked") /\ backlog' = backlog \cup {c}
     \/ (~Listening \/ stopping) /\ Stands(c, "gone") /\ UNCHANGED backlog
  /\ UNCHANGED <<calls, budget, loop, killed, reported, handler>>

(* The call was made, and its disposition is written.                      *)
Report(c, disposition) ==
  /\ ~killed /\ place[c] = "calling" /\ Connected(c)
  /\ Stands(c, "completing")
  /\ reported' = [reported EXCEPT ![c] = disposition]
  /\ UNCHANGED <<calls, budget, loop, backlog, killed, handler>>

(* The client finds its connection closed, at a read or at a write.        *)
LoseConnection(c) ==
  /\ ~killed /\ place[c] \in {"asked", "calling", "completing"} /\ ~Connected(c)
  /\ Stands(c, "gone")
  /\ UNCHANGED <<calls, budget, loop, backlog, killed, reported, handler>>

(* The container is stopped: what was written can still be read.           *)
Kill ==
  /\ ~killed
  /\ killed' = TRUE
  /\ UNCHANGED <<calls, budget, loop, backlog, place, reported, handler>>

-----------------------------------------------------------------------------
(* The accepting task, serve_permits                                       *)

Serving == broker = "serving" /\ Resumes

(* serve_permits returns an error: the listener closes, and the task set   *)
(* is dropped, which aborts the handlers without waiting for them.         *)
FailBroker == broker' = "failed" /\ backlog' = {}

Accept(c) ==
  /\ Serving /\ c \in backlog
  /\ LET idle == {h \in Slots : handler[h] = Free} IN
     IF idle # {}
     THEN /\ handler' = [handler EXCEPT ![CHOOSE h \in idle : TRUE] =
                           [place |-> "request", client |-> c, call |-> 0]]
          /\ backlog' = backlog \ {c}
          /\ UNCHANGED broker
     ELSE FailBroker /\ UNCHANGED handler
  /\ UNCHANGED <<calls, budget, stopping, errors, harness>>

JoinError ==
  /\ Serving /\ errors
  /\ FailBroker
  /\ UNCHANGED <<calls, budget, stopping, errors, harness, handler>>

(* Mutant: the loop ends with the execution only.                          *)
BreakOnCancel ==
  /\ Serving /\ cancelled
  /\ broker' = "draining"
  /\ UNCHANGED <<calls, budget, stopping, errors, backlog, harness, handler>>

BreakLoop ==
  /\ Serving /\ (stopping \/ cancelled)
  /\ broker' = "draining"
  /\ UNCHANGED <<calls, budget, stopping, errors, backlog, harness, handler>>

(* Mutant: the listener outlives the task that accepts.                    *)
DrainedListening ==
  /\ broker = "draining" /\ \A h \in Slots : handler[h] = Free
  /\ broker' = "stopped"
  /\ UNCHANGED <<calls, budget, stopping, errors, backlog, harness, handler>>

(* All handlers were joined: serve_permits returns and closes its listener. *)
Drained ==
  /\ broker = "draining" /\ \A h \in Slots : handler[h] = Free
  /\ broker' = "stopped" /\ backlog' = {}
  /\ UNCHANGED <<calls, budget, stopping, errors, harness, handler>>

-----------------------------------------------------------------------------
(* A connection, handle_connection                                         *)

(* Mutant: a permit that is dropped unfinished is not settled.             *)
ForgetPermit(h) == UNCHANGED <<entries, open>>

(* A permit dropped unfinished settles its call.                           *)
DropPermit(h) ==
  IF handler[h].place \in {"granting", "completion"}
  THEN Ledger!Settle(handler[h].call, IF cancelled THEN "Cancelled" ELSE "Failed")
  ELSE UNCHANGED <<entries, open>>

(* The request is read, also from a client that is gone by now.            *)
ReadRequest(h) ==
  /\ handler[h].place = "request" /\ Resumes
  /\ Move(h, "reserving")
  /\ UNCHANGED <<calls, budget, loop, backlog, harness>>

(* reserve_call, seen through the ledger.                                  *)
Enter(h) ==
  /\ handler[h].place = "reserving" /\ handler[h].call = 0 /\ Resumes
  /\ Ledger!Enter("normal")
  /\ handler' = [handler EXCEPT ![h].call = Len(entries) + 1]
  /\ UNCHANGED <<budget, loop, backlog, harness>>

Activate(h) ==
  /\ handler[h].place = "reserving" /\ handler[h].call # 0 /\ Resumes
  /\ Ledger!Activate(handler[h].call)
  /\ Move(h, "granting")
  /\ UNCHANGED <<budget, loop, backlog, harness>>

Exhausted == Cardinality(Ledger!Entered("normal")) >= MaxCalls - CleanupCalls

Terminate(h) ==
  /\ handler[h].place = "reserving" /\ open /\ Resumes
  /\ expired \/ (handler[h].call = 0 /\ Exhausted)
  /\ Ledger!Close
  /\ UNCHANGED <<budget, loop, backlog, harness, handler>>

(* What an answer does to the client and to the handler: a client that is  *)
(* gone cannot be written to.                                              *)
Answer(h, client, next) ==
  IF killed
  THEN Move(h, "failing") /\ UNCHANGED place
  ELSE Stands(handler[h].client, client) /\ Move(h, next)

(* Mutant: a denial is an error of the connection.                         *)
DenyFails(h) ==
  /\ handler[h].place = "reserving" /\ ~open /\ Resumes
  /\ IF handler[h].call = 0
     THEN UNCHANGED <<entries, open>>
     ELSE Ledger!Settle(handler[h].call, "Cancelled")
  /\ Answer(h, "done", "failing")
  /\ UNCHANGED <<budget, loop, backlog, killed, reported>>

(* A denied harness asks no more.                                          *)
Deny(h) ==
  /\ handler[h].place = "reserving" /\ ~open /\ Resumes
  /\ IF handler[h].call = 0
     THEN UNCHANGED <<entries, open>>
     ELSE Ledger!Settle(handler[h].call, "Cancelled")
  /\ Answer(h, "done", "returning")
  /\ UNCHANGED <<budget, loop, backlog, killed, reported>>

(* Mutant: the grant is written before the call is admitted.               *)
GrantEarly(h) ==
  /\ handler[h].place \in {"reserving", "granting"} /\ handler[h].call # 0
  /\ IF killed THEN DropPermit(h) ELSE UNCHANGED <<entries, open>>
  /\ Answer(h, "calling", "completion")
  /\ UNCHANGED <<budget, loop, backlog, killed, reported>>

Grant(h) ==
  /\ handler[h].place = "granting"
  /\ IF killed THEN DropPermit(h) ELSE UNCHANGED <<entries, open>>
  /\ Answer(h, "calling", "completion")
  /\ UNCHANGED <<budget, loop, backlog, killed, reported>>

(* Mutant: a completion is recorded before it was read.                    *)
CompleteUnread(h) ==
  /\ handler[h].place = "completion" /\ Resumes
  /\ Ledger!Settle(handler[h].call, reported[handler[h].client])
  /\ Move(h, "acking")
  /\ UNCHANGED <<budget, loop, backlog, harness>>

(* Mutant: a completion is always recorded as completed.                   *)
CompleteAlways(h) ==
  /\ handler[h].place = "completion" /\ place[handler[h].client] = "completing" /\ Resumes
  /\ Ledger!Settle(handler[h].call, "Completed")
  /\ Move(h, "acking")
  /\ UNCHANGED <<budget, loop, backlog, harness>>

Complete(h) ==
  /\ handler[h].place = "completion" /\ place[handler[h].client] = "completing" /\ Resumes
  /\ Ledger!Settle(handler[h].call, reported[handler[h].client])
  /\ Move(h, "acking")
  /\ UNCHANGED <<budget, loop, backlog, harness>>

Acknowledge(h) ==
  /\ handler[h].place = "acking"
  /\ Answer(h, "idle", "returning")
  /\ UNCHANGED <<calls, budget, loop, backlog, killed, reported>>

(* The connection ends in an error, with the permit it may own.            *)
Break(h) ==
  /\ Resumes
  /\ \/ handler[h].place = "request" /\ (cancelled \/ stopping \/ killed)
     \/ /\ handler[h].place = "completion"
        /\ \/ cancelled \/ stopping \/ expired
           \/ killed /\ place[handler[h].client] = "calling"
  /\ DropPermit(h)
  /\ Move(h, "failing")
  /\ UNCHANGED <<budget, loop, backlog, harness>>

Return(h) ==
  /\ handler[h].place \in {"returning", "failing"}
  /\ errors' = (errors \/ handler[h].place = "failing")
  /\ Drop(h)
  /\ UNCHANGED <<calls, budget, broker, stopping, backlog, harness>>

(* An aborted handler ends at its next await; a call that still waits to   *)
(* be admitted stays in the ledger without a disposition.                  *)
AbortHandler(h) ==
  /\ broker \in {"draining", "failed"} /\ Resumes
  /\ handler[h].place \in {"request", "reserving", "completion"}
  /\ DropPermit(h)
  /\ Drop(h)
  /\ UNCHANGED <<budget, loop, backlog, harness>>

-----------------------------------------------------------------------------
(* The rest of the execution                                               *)

(* CallPermitBroker::shutdown, its cleanup lease, or its drop.             *)
Shutdown ==
  /\ ~stopping
  /\ stopping' = TRUE
  /\ UNCHANGED <<calls, budget, broker, errors, backlog, harness, handler>>

Cancel ==
  /\ ~cancelled
  /\ cancelled' = TRUE
  /\ UNCHANGED <<calls, expired, loop, backlog, harness, handler>>

Expire ==
  /\ ~expired
  /\ expired' = TRUE
  /\ UNCHANGED <<calls, cancelled, loop, backlog, harness, handler>>

(* A cancellation or somebody's cleanup call closes normal admission.      *)
CloseAdmission ==
  /\ open
  /\ Ledger!Close
  /\ UNCHANGED <<budget, loop, backlog, harness, handler>>

Handle(h) ==
  \/ ReadRequest(h) \/ Enter(h) \/ Activate(h) \/ Terminate(h) \/ Deny(h) \/ Grant(h)
  \/ Complete(h) \/ Acknowledge(h) \/ Break(h) \/ Return(h) \/ AbortHandler(h)

Next ==
  \/ \E c \in Clients : \/ Ask(c) \/ LoseConnection(c) \/ Accept(c)
                        \/ \E d \in Answers : Report(c, d)
  \/ \E h \in Slots : Handle(h)
  \/ JoinError \/ BreakLoop \/ Drained
  \/ Kill \/ Shutdown \/ Cancel \/ Expire \/ CloseAdmission

Spec == Init /\ [][Next]_vars

(* The runtime polls every task that can run, deadlines pass, a            *)
(* cancellation goes on to close admission, and a client that waits looks  *)
(* at its connection.  Nobody has to ask, report, cancel or shut down.     *)
Fairness ==
  /\ \A h \in Slots : WF_vars(Handle(h))
  /\ \A c \in Clients : WF_vars(Accept(c)) /\ WF_vars(LoseConnection(c))
  /\ WF_vars(JoinError) /\ WF_vars(BreakLoop) /\ WF_vars(Drained)
  /\ WF_vars(Expire) /\ WF_vars(cancelled /\ CloseAdmission)

FairSpec == Spec /\ Fairness
-----------------------------------------------------------------------------
(* Properties                                                              *)

Places == {"free", "request", "reserving", "granting", "completion", "acking", "returning",
           "failing"}

(* The variables keep the types the code gives them.                       *)
TypeOK ==
  /\ entries \in Seq([kind : Ledger!Kinds,
                      status : Ledger!Dispositions \cup {"active", "waiting"}])
  /\ {open, cancelled, expired, stopping, errors, killed} \subseteq BOOLEAN
  /\ broker \in {"serving", "draining", "stopped", "failed"}
  /\ backlog \subseteq Clients
  /\ place \in [Clients -> {"idle", "asked", "calling", "completing", "done", "gone"}]
  /\ reported \in [Clients -> Answers \cup {None}]
  /\ handler \in [Slots -> [place : Places, client : Clients \cup {None}, call : Nat]]

(* Whatever breaks a connection - a client that dies, the deadline, a      *)
(* cancellation, a shutdown, an abort, the end of the whole broker - the   *)
(* permit it owned is settled: a call is in flight exactly while one       *)
(* handler owns it, and a broker that was stopped has left none behind.    *)
GrantsAreHeld ==
  /\ \A i \in Ledger!Active :
       \E h \in Slots : handler[h].call = i /\ handler[h].place \in {"granting", "completion"}
  /\ \A g, h \in Slots : g # h /\ handler[g].call # 0 => handler[g].call # handler[h].call
  /\ broker = "stopped" => Ledger!Active = {} /\ \A c \in Clients : ~Connected(c)

(* While its connection is open, a client that makes a call makes it under *)
(* a call of its own that the ledger has in flight.                        *)
CallsAreGranted ==
  \A c \in Clients :
    place[c] = "calling" /\ Connected(c) =>
      \E h \in Slots : Serves(h, c) /\ handler[h].call \in Ledger!Active

(* A client that reads the acknowledgement finds its own report in the     *)
(* ledger, whatever ended the budget meanwhile.                            *)
RecordedAsReported ==
  [][\A c \in Clients :
       place[c] = "completing" /\ place'[c] = "idle" =>
         \E h \in Slots : Serves(h, c) /\ entries[handler[h].call].status = reported[c]]_vars

(* Clients that take turns never bring the broker down.  A handler that is *)
(* slow to return still counts against the connections, but there are no   *)
(* more such handlers than workers besides the one that accepts.           *)
OrderlyClientsAreServed ==
  broker = "failed" /\ Cardinality(Clients) + Workers - 1 <= ConnectionLimit =>
    killed \/ cancelled \/ expired \/ stopping

(* A client that asked is granted, denied, or finds its connection closed. *)
RequestsAreAnswered ==
  \A c \in Clients : place[c] = "asked" ~> place[c] # "asked" \/ killed

(* The broker can be stopped: its tasks end, whatever their clients do.    *)
ShutdownEnds ==
  stopping ~> /\ broker \in {"stopped", "failed"}
              /\ \A h \in Slots : handler[h] = Free
=============================================================================
