--------------------------- MODULE EnforcingProxy ---------------------------
(***************************************************************************)
(* The enforcing proxy (src/src/execution/proxy.rs) between the clients in *)
(* a container and a managed server: connections under a permit, requests  *)
(* that become calls of the budget, their timeouts, and the shutdown.  The *)
(* budget is the CallLedger that CallBudget implements.  A request over    *)
(* HTTP/1 runs inside its connection's task and is dropped with it; over   *)
(* HTTP/2 it is a task of its own that outlives the connection until it    *)
(* notices.  Timers may fire at any time.                                  *)
(***************************************************************************)
EXTENDS Integers, Sequences, FiniteSets

CONSTANTS
  MaxClients,      (* a bound of the model: connections that are made      *)
  MaxRequests,     (* a bound of the model: requests that are sent         *)
  Servers,         (* a bound of the model: processes that listen on the   *)
                   (* upstream socket, one after the other                 *)
  MaxCalls,        (* limits.max_calls                                     *)
  CleanupCalls,    (* the calls a client cannot have                       *)
  MaxConcurrency,  (* limits.max_concurrency                               *)
  MaxOpenFiles,    (* limits.max_open_files                                *)
  None

(* Numbered in the order in which they connect and are sent.               *)
Clients == 1..MaxClients
Requests == 1..MaxRequests

Reserved == 4
MaxDownstream == 64
ConnectionLimit ==
  LET share == (MaxOpenFiles - Reserved) \div 2
  IN IF share <= MaxDownstream THEN share ELSE MaxDownstream
MaxStreams == MaxConcurrency

(* What resolve_proxy_connection_limit and the plan's limits require.      *)
ASSUME LimitsAccepted ==
  /\ MaxConcurrency \in Nat \ {0} /\ MaxOpenFiles \in Nat
  /\ MaxOpenFiles >= Reserved /\ ConnectionLimit >= MaxConcurrency
  /\ MaxCalls \in Nat /\ CleanupCalls \in 0..MaxCalls
  /\ MaxClients \in Nat /\ MaxRequests \in Nat /\ Servers \in Nat \ {0}
  /\ None \notin Nat

VARIABLES
  entries,    (* the ledger of calls                                       *)
  open,       (* normal calls are still admitted                           *)
  cancelled,  (* the budget's cancelled watch                              *)
  terminated, (* BudgetState.termination is set, whatever its first cause  *)
  outside,    (* where somebody else who ends the budget stands; a bound   *)
              (* of the model: one, besides the requests                   *)
  owner,      (* where run_workload stands with the proxy                  *)
  shutdown,   (* the shutdown watch                                        *)
  server,     (* where serve_proxy stands                                  *)
  conn,       (* where each connection stands                              *)
  pc,         (* where each request stands                                 *)
  via,        (* the connection it came by                                 *)
  call,       (* its number in the ledger, 0 for none                      *)
  answer,     (* what the proxy answers it                                 *)
  expected,   (* expected_peer_pid, None for 0                             *)
  listening,  (* the process behind the upstream socket                    *)
  reached,    (* history: the processes a call was sent to                 *)
  made,       (* history: the calls that held a permit                     *)
  receipt     (* the dispositions of the budget's snapshot, None before    *)

Ledger == INSTANCE CallLedger

calls == <<entries, open, made>>
budget == <<cancelled, terminated, outside>>
proxy == <<shutdown, server>>
request == <<pc, via, call, answer>>
peer == <<expected, listening, reached>>
vars == <<calls, budget, owner, proxy, conn, request, peer, receipt>>

Alive == {"tls", "http1", "http2"}
Connections == {c \in Clients : conn[c] \in Alive}
PermitsHeld == Cardinality(Connections) + (IF server = "accepting" THEN 1 ELSE 0)

(* A request between two awaits cannot be dropped: it ends the budget, for *)
(* a call it cannot make or because its own call timed out.                *)
Refusing == {"closing", "lapsed"}
Cancelling == {"cancelling", "announced", "expiring"}
Permitted == {"forwarding", "sent"} \cup Cancelling
Running == {"spawned", "reserving"} \cup Refusing \cup Permitted
Droppable == Running \ (Refusing \cup Cancelling)
RunningOn(c) == {r \in Requests : pc[r] \in Running /\ via[r] = c}

-----------------------------------------------------------------------------
Init ==
  /\ Ledger!Init
  /\ cancelled = FALSE /\ terminated = FALSE /\ outside = "none"
  /\ owner = "running" /\ shutdown = FALSE /\ server = "seeking"
  /\ conn = [c \in Clients |-> "away"]
  /\ pc = [r \in Requests |-> "unsent"]
  /\ via = [r \in Requests |-> None]
  /\ call = [r \in Requests |-> 0]
  /\ answer = [r \in Requests |-> None]
  /\ expected = None /\ reached = {}
  /\ listening = 1
  /\ made = {}
  /\ receipt = None

(* The call of a permit ends; a dropped permit looks at the watch.         *)
Settle(r, disposition) == Ledger!Settle(call[r], disposition) /\ UNCHANGED made
OnDrop == IF cancelled THEN "Cancelled" ELSE "Failed"
DropPermit(r) ==
  IF pc[r] \in Permitted THEN Settle(r, OnDrop) ELSE UNCHANGED calls

Answered(r, what) ==
  /\ pc' = [pc EXCEPT ![r] = "answered"]
  /\ answer' = [answer EXCEPT ![r] = what]
  /\ UNCHANGED <<via, call>>
Go(r, place) ==
  /\ pc' = [pc EXCEPT ![r] = place]
  /\ UNCHANGED <<via, call, answer>>

-----------------------------------------------------------------------------
(* serve_proxy                                                             *)

(* Mutant: a connection takes its permit when it has been accepted.        *)
AcquireLate ==
  /\ server = "seeking"
  /\ server' = "accepting"
  /\ UNCHANGED <<calls, budget, owner, shutdown, conn, request, peer, receipt>>

(* Finished connections have been joined; a permit comes before a client.  *)
AcquireConnection ==
  /\ server = "seeking" /\ PermitsHeld < ConnectionLimit
  /\ server' = "accepting"
  /\ UNCHANGED <<calls, budget, owner, shutdown, conn, request, peer, receipt>>

Accept(c) ==
  /\ server = "accepting" /\ conn[c] = "queued"
  /\ server' = "seeking"
  /\ conn' = [conn EXCEPT ![c] = "tls"]
  /\ UNCHANGED <<calls, budget, owner, shutdown, request, peer, receipt>>

(* The listener is gone, and with it what it had not accepted.             *)
Unlisten == conn' = [c \in Clients |-> IF conn[c] = "queued" THEN "over" ELSE conn[c]]

(* An error of accept ends the task and drops its JoinSet: the connections *)
(* are aborted and nobody waits for them.                                  *)
FailAccept ==
  /\ server = "accepting"
  /\ server' = "failed"
  /\ Unlisten
  /\ UNCHANGED <<calls, budget, owner, shutdown, request, peer, receipt>>

(* Mutant: the shutdown is only looked at while waiting for a permit.      *)
BreakSeeking ==
  /\ shutdown /\ server = "seeking"
  /\ server' = "draining"
  /\ UNCHANGED <<calls, budget, owner, shutdown, conn, request, peer, receipt>>

(* Both selects watch the shutdown; abort_all follows.                     *)
Break ==
  /\ shutdown /\ server \in {"seeking", "accepting"}
  /\ server' = "draining"
  /\ UNCHANGED <<calls, budget, owner, shutdown, conn, request, peer, receipt>>

(* Mutant: the aborted connections are not waited for.                     *)
EndUndrained ==
  /\ server = "draining"
  /\ server' = "ended"
  /\ Unlisten
  /\ UNCHANGED <<calls, budget, owner, shutdown, request, peer, receipt>>

(* join_next until every connection is over.                               *)
EndServing ==
  /\ server = "draining" /\ Connections = {}
  /\ server' = "ended"
  /\ Unlisten
  /\ UNCHANGED <<calls, budget, owner, shutdown, request, peer, receipt>>

-----------------------------------------------------------------------------
(* A connection's task                                                     *)

Connect(c) ==
  /\ conn[c] = "away" /\ \A d \in 1..(c - 1) : conn[d] # "away"
  /\ server \in {"seeking", "accepting", "draining"}
  /\ conn' = [conn EXCEPT ![c] = "queued"]
  /\ UNCHANGED <<calls, budget, owner, proxy, request, peer, receipt>>

Handshake(c) ==
  /\ conn[c] = "tls"
  /\ \E protocol \in {"http1", "http2"} : conn' = [conn EXCEPT ![c] = protocol]
  /\ UNCHANGED <<calls, budget, owner, proxy, request, peer, receipt>>

(* Mutant: a connection is over only when it is aborted.                   *)
EndOnAbort(c) ==
  /\ conn[c] \in Alive /\ server \in {"draining", "failed"}
  /\ conn' = [conn EXCEPT ![c] = "over"]
  /\ IF conn[c] = "http1" /\ RunningOn(c) # {}
     THEN \E r \in RunningOn(c) : pc[r] \in Droppable /\ DropPermit(r) /\ Go(r, "dropped")
     ELSE UNCHANGED <<calls, request>>
  /\ UNCHANGED <<budget, owner, proxy, peer, receipt>>

(* The task ends: its client left, a timeout passed, the handshake failed, *)
(* or it was aborted.  An HTTP/1 request is dropped where it waits - not   *)
(* in the middle of a poll - and an entry without a permit stays open.     *)
EndConnection(c) ==
  /\ conn[c] \in Alive
  /\ conn' = [conn EXCEPT ![c] = "over"]
  /\ IF conn[c] = "http1" /\ RunningOn(c) # {}
     THEN \E r \in RunningOn(c) :
            /\ pc[r] \in Droppable
            /\ DropPermit(r)
            /\ Go(r, "dropped")
     ELSE UNCHANGED <<calls, request>>
  /\ UNCHANGED <<budget, owner, proxy, peer, receipt>>

(* HTTP/1 takes one request at a time, HTTP/2 up to max_concurrent_streams.*)
Send(r, c) ==
  /\ pc[r] = "unsent" /\ \A q \in 1..(r - 1) : pc[q] # "unsent"
  /\ conn[c] \in {"http1", "http2"}
  /\ Cardinality(RunningOn(c)) < (IF conn[c] = "http1" THEN 1 ELSE MaxStreams)
  /\ pc' = [pc EXCEPT ![r] = "spawned"]
  /\ via' = [via EXCEPT ![r] = c]
  /\ UNCHANGED <<calls, budget, owner, proxy, conn, call, answer, peer, receipt>>

-----------------------------------------------------------------------------
(* handle_request                                                          *)

(* reserve_call up to the ledger.  The categories a client can claim       *)
(* exclude cleanup.                                                        *)
Enter(r) ==
  /\ pc[r] = "spawned"
  /\ \/ /\ Ledger!Enter("normal")
        /\ call' = [call EXCEPT ![r] = Len(entries) + 1]
        /\ pc' = [pc EXCEPT ![r] = "reserving"]
        /\ UNCHANGED <<via, answer>>
     \/ ~open /\ UNCHANGED <<entries, open>> /\ Answered(r, "refused")
  /\ UNCHANGED <<made, budget, owner, proxy, conn, peer, receipt>>

Reserve(r) ==
  /\ pc[r] = "reserving"
  /\ Ledger!Activate(call[r])
  /\ made' = made \cup {call[r]}
  /\ Go(r, "forwarding")
  /\ UNCHANGED <<budget, owner, proxy, conn, peer, receipt>>

(* The call cannot be entered because the allowance is spent, or the       *)
(* deadline has passed, now or while it waits: terminate records that ...  *)
Doom(r) ==
  /\ pc[r] \in {"spawned", "reserving"}
  /\ terminated' = TRUE
  /\ Go(r, "closing")
  /\ UNCHANGED <<calls, cancelled, outside, owner, proxy, conn, peer, receipt>>

(* ... and closes admission.                                               *)
CloseDoomed(r) ==
  /\ pc[r] = "closing"
  /\ Ledger!Close
  /\ IF call[r] = 0 THEN Answered(r, "refused") ELSE Go(r, "lapsed")
  /\ UNCHANGED <<made, budget, owner, proxy, conn, peer, receipt>>

(* Admission closed while it waited, or its deadline has passed.           *)
Refuse(r) ==
  /\ \/ pc[r] = "reserving" /\ ~open
     \/ pc[r] = "lapsed"
  /\ Settle(r, "Cancelled")
  /\ Answered(r, "refused")
  /\ UNCHANGED <<budget, owner, proxy, conn, peer, receipt>>

(* The peer behind the socket is the expected one: the request is sent.    *)
Forward(r) ==
  /\ pc[r] = "forwarding"
  /\ expected # None /\ listening = expected
  /\ reached' = reached \cup {listening}
  /\ Go(r, "sent")
  /\ UNCHANGED <<calls, budget, owner, proxy, conn, expected, listening, receipt>>

Conclude(r, disposition, what) ==
  /\ Settle(r, disposition)
  /\ Answered(r, what)
  /\ UNCHANGED <<budget, owner, proxy, conn, peer, receipt>>

(* An origin, a path or a body that is not allowed, or no expected peer.   *)
Reject(r) == pc[r] \in {"forwarding", "sent"} /\ Conclude(r, "Rejected", "bad gateway")

(* The upstream refuses, breaks off or answers too much.                   *)
FailForward(r) == pc[r] \in {"forwarding", "sent"} /\ Conclude(r, "Failed", "bad gateway")

Complete(r) == pc[r] = "sent" /\ Conclude(r, "Completed", "response")

(* wait_for_cancellation.                                                  *)
SeeCancellation(r) ==
  /\ pc[r] \in {"forwarding", "sent"} /\ cancelled
  /\ Conclude(r, "Cancelled", "timeout")

(* Mutant: a timeout ends its own call only.                               *)
TimeOutAlone(r) ==
  /\ pc[r] \in {"forwarding", "sent"}
  /\ Go(r, "expiring")
  /\ UNCHANGED <<calls, budget, owner, proxy, conn, peer, receipt>>

(* The call's deadline: CallBudget::cancel records its cause ...           *)
TimeOut(r) ==
  /\ pc[r] \in {"forwarding", "sent"}
  /\ terminated' = TRUE
  /\ Go(r, "cancelling")
  /\ UNCHANGED <<calls, cancelled, outside, owner, proxy, conn, peer, receipt>>

(* ... sets the watch all other calls wait for ...                         *)
Announce(r) ==
  /\ pc[r] = "cancelling"
  /\ cancelled' = TRUE
  /\ Go(r, "announced")
  /\ UNCHANGED <<calls, terminated, outside, owner, proxy, conn, peer, receipt>>

(* Mutant: a cancellation stops the calls that are made, and no others.    *)
CloseNothing(r) ==
  /\ pc[r] = "announced"
  /\ Go(r, "expiring")
  /\ UNCHANGED <<calls, budget, owner, proxy, conn, peer, receipt>>

(* ... and closes admission;                                               *)
CloseAdmission(r) ==
  /\ pc[r] = "announced"
  /\ Ledger!Close
  /\ Go(r, "expiring")
  /\ UNCHANGED <<made, budget, owner, proxy, conn, peer, receipt>>

(* then the call ends.                                                     *)
Expire(r) == pc[r] = "expiring" /\ Conclude(r, "Cancelled", "timeout")

(* The answer is written while there is a connection.                      *)
Deliver(r) ==
  /\ pc[r] = "answered" /\ conn[via[r]] \in Alive
  /\ Go(r, "told")
  /\ UNCHANGED <<calls, budget, owner, proxy, conn, peer, receipt>>

(* A stream of HTTP/2 notices that its connection is gone, or a reset.     *)
DropStream(r) ==
  /\ pc[r] \in Droppable /\ conn[via[r]] \in {"http2", "over"}
  /\ DropPermit(r)
  /\ Go(r, "dropped")
  /\ UNCHANGED <<budget, owner, proxy, conn, peer, receipt>>

-----------------------------------------------------------------------------
(* What happens around the proxy                                           *)

(* An interrupt cancels the budget, in the same three steps.               *)
Interrupt ==
  /\ outside = "none"
  /\ outside' = "cancelling" /\ terminated' = TRUE
  /\ UNCHANGED <<calls, cancelled, owner, proxy, conn, request, peer, receipt>>

AnnounceInterrupt ==
  /\ outside = "cancelling"
  /\ outside' = "announced" /\ cancelled' = TRUE
  /\ UNCHANGED <<calls, terminated, owner, proxy, conn, request, peer, receipt>>

(* A deadline or an allowance ends the budget for a call that did not come *)
(* through the proxy.                                                      *)
EndElsewhere ==
  /\ outside = "none"
  /\ outside' = "ending" /\ terminated' = TRUE
  /\ UNCHANGED <<calls, cancelled, owner, proxy, conn, request, peer, receipt>>

(* A cleanup call closes normal admission before anything else.            *)
CleanupElsewhere ==
  /\ outside = "none"
  /\ outside' = "closed" /\ Ledger!Close
  /\ UNCHANGED <<made, cancelled, terminated, owner, proxy, conn, request, peer, receipt>>

CloseOutside ==
  /\ outside \in {"announced", "ending"}
  /\ outside' = "closed" /\ Ledger!Close
  /\ UNCHANGED <<made, cancelled, terminated, owner, proxy, conn, request, peer, receipt>>

(* Mutant: a later peer replaces the first.                                *)
CorroborateLatest ==
  /\ owner = "running"
  /\ \E pid \in 1..Servers : expected' = pid
  /\ UNCHANGED <<calls, budget, owner, proxy, conn, request, listening, reached, receipt>>

(* corroborate_managed_server_peer: the inspection of the container names  *)
(* a process, and compare_exchange fixes the first one.                    *)
Corroborate ==
  /\ owner = "running" /\ expected = None
  /\ \E pid \in 1..Servers : expected' = pid
  /\ UNCHANGED <<calls, budget, owner, proxy, conn, request, listening, reached, receipt>>

(* Another process takes the socket over.                                  *)
Rebind ==
  /\ listening < Servers
  /\ listening' = listening + 1
  /\ UNCHANGED <<calls, budget, owner, proxy, conn, request, expected, reached, receipt>>

(* EnforcingProxy::shutdown, when the case is over; it also ends by Drop.  *)
Shutdown ==
  /\ owner = "running"
  /\ owner' = "stopping" /\ shutdown' = TRUE
  /\ UNCHANGED <<calls, budget, server, conn, request, peer, receipt>>

Joined ==
  /\ owner = "stopping" /\ server \in {"ended", "failed"}
  /\ owner' = "stopped"
  /\ UNCHANGED <<calls, budget, proxy, conn, request, peer, receipt>>

(* The runner takes the budget's snapshot; the runtime still lives.        *)
Snapshot ==
  /\ owner = "stopped" /\ receipt = None
  /\ receipt' = [i \in DOMAIN entries |->
                   IF entries[i].status \in Ledger!Dispositions THEN entries[i].status
                   ELSE "Cancelled"]
  /\ UNCHANGED <<calls, budget, owner, proxy, conn, request, peer>>

Serve ==
  \/ AcquireConnection \/ Break \/ EndServing
  \/ \E c \in Clients : Accept(c)

Handle(r) ==
  \/ Enter(r) \/ Reserve(r) \/ Refuse(r) \/ Forward(r) \/ Complete(r)
  \/ Doom(r) \/ CloseDoomed(r) \/ SeeCancellation(r)
  \/ TimeOut(r) \/ Announce(r) \/ CloseAdmission(r) \/ Expire(r)
  \/ (pc[r] \in Running /\ conn[via[r]] = "over" /\ DropStream(r))

Next ==
  \/ Serve \/ FailAccept
  \/ \E c \in Clients : Connect(c) \/ Handshake(c) \/ EndConnection(c)
  \/ \E r \in Requests, c \in Clients : Send(r, c)
  \/ \E r \in Requests :
       Handle(r) \/ Reject(r) \/ FailForward(r) \/ Deliver(r) \/ DropStream(r)
  \/ Interrupt \/ AnnounceInterrupt \/ EndElsewhere \/ CleanupElsewhere \/ CloseOutside
  \/ Corroborate \/ Rebind
  \/ Shutdown \/ Joined \/ Snapshot

Spec == Init /\ [][Next]_vars

(* Every connection has a timeout, every call a deadline; the tasks run,   *)
(* and a cancel that has begun goes on.                                    *)
Fairness ==
  /\ WF_vars(Serve) /\ WF_vars(Joined)
  /\ WF_vars(AnnounceInterrupt \/ CloseOutside)
  /\ \A c \in Clients : WF_vars(EndConnection(c))
  /\ \A r \in Requests : WF_vars(Handle(r))

-----------------------------------------------------------------------------
(* Properties                                                              *)

(* Types, and the connection permits: the listener and the connections     *)
(* never hold more than resolve_proxy_connection_limit allows.             *)
TypeOK ==
  /\ entries \in Seq([kind : Ledger!Kinds,
                      status : {"waiting", "active"} \cup Ledger!Dispositions])
  /\ open \in BOOLEAN /\ cancelled \in BOOLEAN /\ terminated \in BOOLEAN
  /\ outside \in {"none", "cancelling", "announced", "ending", "closed"}
  /\ shutdown \in BOOLEAN
  /\ owner \in {"running", "stopping", "stopped"}
  /\ server \in {"seeking", "accepting", "draining", "ended", "failed"}
  /\ conn \in [Clients -> {"away", "queued", "over"} \cup Alive]
  /\ pc \in [Requests -> {"unsent", "answered", "told", "dropped"} \cup Running]
  /\ via \in [Requests -> Clients \cup {None}]
  /\ call \in [Requests -> 0..Len(entries)]
  /\ answer \in [Requests -> {None, "refused", "response", "bad gateway", "timeout"}]
  /\ expected \in (1..Servers) \cup {None} /\ listening \in 1..Servers
  /\ reached \subseteq 1..Servers /\ made \subseteq DOMAIN entries
  /\ PermitsHeld <= ConnectionLimit

(* What a client was answered is what the ledger says of its call, and, if *)
(* the proxy stopped without an error, what the receipt says: connections  *)
(* are joined before the snapshot, so none can be answered after it.       *)
RecordedAs(what) ==
  CASE what = "response" -> {"Completed"}
    [] what = "bad gateway" -> {"Failed", "Rejected"}
    [] what = "timeout" -> {"Cancelled"}
ToldIsRecorded ==
  \A r \in Requests :
    pc[r] = "told" /\ answer[r] # "refused" =>
      /\ entries[call[r]].status \in RecordedAs(answer[r])
      /\ receipt # None /\ server = "ended" =>
           call[r] \in DOMAIN receipt /\ receipt[call[r]] \in RecordedAs(answer[r])

(* A call that was being made and is recorded as cancelled stands for an   *)
(* execution that is cancelled as a whole: a call's timeout is never only  *)
(* its own, and a permit dropped by a client that left is a failure.  The  *)
(* budget has a termination to report and its watch is set; admission may  *)
(* still be open, because terminate sets the watch first, but only while   *)
(* somebody stands between the two.                                        *)
Announced == outside = "announced" \/ \E r \in Requests : pc[r] = "announced"
CancelledCallsStopTheRun ==
  \A i \in made : entries[i].status = "Cancelled" =>
    terminated /\ cancelled /\ (open => Announced)

(* A cancellation, whoever it comes from, ends all calls in flight and     *)
(* lets no other begin: the streams whose connection is gone included, and *)
(* the calls that were admitted while the cancel was on its way.           *)
CancelledRunsDrain == cancelled ~> [](~open /\ Ledger!Active = {})

(* Whatever takes over the upstream socket, and however often a peer is    *)
(* corroborated, all calls of a run reach one process.                     *)
OnePeer == Cardinality(reached) <= 1

(* shutdown returns: no select of the accepting loop misses the watch, and *)
(* every connection can be aborted.                                        *)
ShutdownEnds == owner = "stopping" ~> owner = "stopped"

(* A client that connected is accepted or finds the listener gone, however *)
(* long the clients before it keep their connections.                      *)
ClientsAreServed == \A c \in Clients : conn[c] = "queued" ~> conn[c] # "queued"
=============================================================================
