------------------------- MODULE EnforcingProxyProofs -------------------------
(***************************************************************************)
(* What holds of the enforcing proxy for any number of clients, requests   *)
(* and servers and for any limits: who was answered is recorded, a call    *)
(* that is cut off stops the run, one process is reached, and no more      *)
(* connections are held than there are permits.                            *)
(***************************************************************************)
EXTENDS EnforcingProxy, FiniteSetTheorems, TLAPS

Entry == [kind : Ledger!Kinds, status : {"waiting", "active"} \cup Ledger!Dispositions]
Answers == {"response", "bad gateway", "timeout"}

(* Types, without the count of permits.                                    *)
TypeInv ==
  /\ entries \in Seq(Entry)
  /\ open \in BOOLEAN /\ cancelled \in BOOLEAN /\ terminated \in BOOLEAN
  /\ outside \in {"none", "cancelling", "announced", "ending", "closed"}
  /\ shutdown \in BOOLEAN
  /\ owner \in {"running", "stopping", "stopped"}
  /\ server \in {"seeking", "accepting", "draining", "ended", "failed"}
  /\ conn \in [Clients -> {"away", "queued", "over"} \cup Alive]
  /\ pc \in [Requests -> {"unsent", "answered", "told", "dropped"} \cup Running]
  /\ via \in [Requests -> Clients \cup {None}]
  /\ call \in [Requests -> 0..Len(entries)]
  /\ answer \in [Requests -> {None, "refused"} \cup Answers]
  /\ expected \in (1..Servers) \cup {None} /\ listening \in 1..Servers
  /\ reached \subseteq 1..Servers /\ made \subseteq DOMAIN entries

PermitInv == PermitsHeld <= ConnectionLimit

(* The place of a request says where its call stands in the ledger.        *)
RequestInv(r) ==
  /\ pc[r] # "unsent" => via[r] \in Clients
  /\ pc[r] \in {"unsent", "spawned"} => call[r] = 0
  /\ pc[r] \in {"reserving", "lapsed"} \/ (pc[r] = "closing" /\ call[r] # 0) =>
       /\ call[r] \in DOMAIN entries /\ call[r] \notin made
       /\ entries[call[r]].status = "waiting"
  /\ pc[r] \in Permitted => call[r] \in DOMAIN entries /\ entries[call[r]].status = "active"
  /\ pc[r] \in Cancelling => terminated
  /\ pc[r] \in {"announced", "expiring"} => cancelled
  /\ pc[r] \in {"answered", "told"} /\ answer[r] # "refused" =>
       /\ answer[r] \in Answers /\ call[r] \in DOMAIN entries
       /\ entries[call[r]].status \in RecordedAs(answer[r])
  /\ pc[r] = "told" /\ answer[r] # "refused" /\ receipt # None /\ server = "ended" =>
       call[r] \in DOMAIN receipt /\ receipt[call[r]] \in RecordedAs(answer[r])

(* No two requests share a call.                                           *)
OwnInv == \A r, q \in Requests : r # q /\ call[r] # 0 => call[r] # call[q]

(* The three steps of a cancellation: the cause comes before the watch,    *)
(* and whoever set the watch is still there until admission is closed.     *)
StopInv ==
  /\ cancelled => terminated /\ (open => Announced)
  /\ outside = "cancelling" => terminated
  /\ \A i \in made : entries[i].status = "Cancelled" => cancelled

(* A receipt is written when the proxy has stopped, and a proxy that       *)
(* stopped in good order has no connections.                               *)
EndInv ==
  /\ receipt # None => owner = "stopped"
  /\ owner = "stopped" => server \in {"ended", "failed"}
  /\ server = "ended" => \A c \in Clients : conn[c] \notin Alive

PeerInv == reached \subseteq {expected} /\ (reached # {} => expected # None)

IInv ==
  /\ TypeInv /\ PermitInv /\ OwnInv /\ StopInv /\ EndInv /\ PeerInv
  /\ \A r \in Requests : RequestInv(r)

-----------------------------------------------------------------------------
(* Connections and permits                                                 *)

LEMMA LimitType == ConnectionLimit \in Int /\ MaxConcurrency \in Nat
BY LimitsAccepted DEF ConnectionLimit, Reserved, MaxDownstream

LEMMA ConnectionsFinite ==
  IsFiniteSet(Connections) /\ Cardinality(Connections) \in Nat
<1>1. IsFiniteSet(Clients)
  BY LimitsAccepted, FS_Interval DEF Clients
<1>2. Connections \in SUBSET Clients
  BY DEF Connections
<1>3. IsFiniteSet(Connections)
  BY <1>1, <1>2, FS_Subset
<1> QED BY <1>3, FS_CardinalityType

(* A permit that moves from the listener to a connection, or back.         *)
LEMMA PermitsAccept ==
  ASSUME IInv, NEW c \in Clients, Accept(c)
  PROVE  PermitInv'
<1>1. Connections' = Connections \cup {c} /\ c \notin Connections
  BY DEF Accept, IInv, TypeInv, Connections, Alive
<1>2. Cardinality(Connections') = Cardinality(Connections) + 1
  BY <1>1, ConnectionsFinite, FS_AddElement
<1> QED BY <1>2, ConnectionsFinite, LimitType DEF Accept, IInv, PermitInv, PermitsHeld, ConnectionLimit

LEMMA PermitsEnd ==
  ASSUME IInv, NEW c \in Clients, conn[c] \in Alive, conn' = [conn EXCEPT ![c] = "over"],
         UNCHANGED server
  PROVE  PermitInv'
<1>1. Connections' = Connections \ {c} /\ c \in Connections
  BY DEF IInv, TypeInv, Connections, Alive
<1>2. Cardinality(Connections') = Cardinality(Connections) - 1
  BY <1>1, ConnectionsFinite, FS_RemoveElement
<1> QED BY <1>2, ConnectionsFinite, LimitType DEF IInv, PermitInv, PermitsHeld, ConnectionLimit

LEMMA PermitsKept ==
  ASSUME IInv, Connections' = Connections,
         server' = "accepting" => server = "accepting" \/ PermitsHeld < ConnectionLimit
  PROVE  PermitInv'
BY ConnectionsFinite, LimitType DEF IInv, PermitInv, PermitsHeld, ConnectionLimit

-----------------------------------------------------------------------------
(* The ledger                                                              *)

LEMMA EnteredEntry ==
  ASSUME entries \in Seq(Entry), Ledger!Enter("normal")
  PROVE  /\ entries' \in Seq(Entry) /\ Len(entries') = Len(entries) + 1
         /\ DOMAIN entries \subseteq DOMAIN entries' /\ Len(entries) + 1 \in DOMAIN entries'
         /\ \A i \in DOMAIN entries : entries'[i] = entries[i]
         /\ entries'[Len(entries) + 1].status = "waiting"
         /\ open' = open /\ open
<1>1. entries' = Append(entries, [kind |-> "normal", status |-> "waiting"])
  BY DEF Ledger!Enter
<1>2. [kind |-> "normal", status |-> "waiting"] \in Entry
  BY DEF Entry, Ledger!Kinds
<1> QED BY <1>1, <1>2 DEF Ledger!Enter

LEMMA ChangedEntry ==
  ASSUME entries \in Seq(Entry), NEW i \in DOMAIN entries,
         NEW s \in {"waiting", "active"} \cup Ledger!Dispositions,
         entries' = [entries EXCEPT ![i].status = s]
  PROVE  /\ entries' \in Seq(Entry) /\ Len(entries') = Len(entries)
         /\ DOMAIN entries' = DOMAIN entries
         /\ \A j \in DOMAIN entries : j # i => entries'[j] = entries[j]
         /\ entries'[i].status = s
<1>1. \A j \in DOMAIN entries : entries[j] \in Entry
  OBVIOUS
<1>2. entries' \in [1..Len(entries) -> Entry]
  BY <1>1 DEF Entry
<1> QED BY <1>1, <1>2 DEF Entry

-----------------------------------------------------------------------------
(* Steps of one request                                                    *)

(* What it does to the others: nothing, as far as they can tell.           *)
Aside(r) ==
  /\ \A q \in Requests \ {r} : /\ pc'[q] = pc[q] /\ via'[q] = via[q]
                              /\ call'[q] = call[q] /\ answer'[q] = answer[q]
  /\ \A i \in DOMAIN entries : /\ i \in DOMAIN entries'
                               /\ i # call[r] => entries'[i] = entries[i]
  /\ made' \subseteq made \cup {call[r]}
  /\ (cancelled => cancelled') /\ (terminated => terminated')
  /\ UNCHANGED <<receipt, server>>

LEMMA OthersKeep ==
  ASSUME IInv, NEW r \in Requests, Aside(r), NEW q \in Requests, q # r
  PROVE  RequestInv(q)'
<1>1. /\ RequestInv(q) /\ pc'[q] = pc[q] /\ via'[q] = via[q]
      /\ call'[q] = call[q] /\ answer'[q] = answer[q]
  BY DEF IInv, Aside
<1>2. ASSUME call[q] \in DOMAIN entries
      PROVE  /\ call'[q] \in DOMAIN entries' /\ entries'[call'[q]] = entries[call[q]]
             /\ call[q] \notin made => call'[q] \notin made'
  <2>1. call[q] # 0
    BY <1>2 DEF IInv, TypeInv
  <2>2. call[q] # call[r]
    BY <2>1 DEF IInv, OwnInv
  <2> QED BY <1>1, <1>2, <2>2 DEF Aside
<1>3. \A what : RecordedAs(what)' = RecordedAs(what)
  BY DEF RecordedAs
<1>4. /\ receipt' = receipt /\ server' = server
      /\ (cancelled => cancelled') /\ (terminated => terminated')
  BY DEF Aside
<1> QED BY <1>1, <1>2, <1>3, <1>4 DEF RequestInv

LEMMA RequestStep ==
  ASSUME IInv, NEW r \in Requests, Aside(r), RequestInv(r)', TypeInv', PermitInv', OwnInv',
         StopInv', EndInv', PeerInv'
  PROVE  IInv'
<1>1. \A q \in Requests : RequestInv(q)'
  BY OthersKeep
<1> QED BY <1>1 DEF IInv

(* A step of a request between the three steps of a cancellation: it is    *)
(* one of them, or it leaves the budget alone.                             *)
LEMMA StopKept ==
  ASSUME IInv, NEW r \in Requests, NEW place, pc' = [pc EXCEPT ![r] = place],
         pc[r] = "announced" => ~open', open' => open, outside' = outside,
         cancelled' => cancelled \/ (place = "announced" /\ pc[r] \in Cancelling),
         terminated => terminated', \A i \in made' : entries'[i].status = "Cancelled" => cancelled'
  PROVE  StopInv'
<1>1. cancelled' => terminated'
  BY DEF IInv, StopInv, RequestInv
<1>2. cancelled' /\ open' => Announced'
  <2> SUFFICES ASSUME cancelled', open' PROVE Announced'
    OBVIOUS
  <2>1. CASE ~cancelled
    <3>1. pc'[r] = "announced"
      BY <2>1 DEF IInv, TypeInv
    <3> QED BY <3>1 DEF Announced
  <2>2. CASE cancelled /\ outside = "announced"
    BY <2>2 DEF Announced
  <2>3. CASE cancelled /\ outside # "announced"
    <3>1. PICK q \in Requests : pc[q] = "announced"
      BY <2>3 DEF IInv, StopInv, Announced
    <3>2. q # r
      BY <3>1
    <3>3. pc'[q] = "announced"
      BY <3>1, <3>2 DEF IInv, TypeInv
    <3> QED BY <3>3 DEF Announced
  <2> QED BY <2>1, <2>2, <2>3
<1>3. outside' = "cancelling" => terminated'
  BY DEF IInv, StopInv
<1> QED BY <1>1, <1>2, <1>3 DEF StopInv

(* The call of a request ends, and the request is answered or dropped.     *)
LEMMA SettleStep ==
  ASSUME IInv, NEW r \in Requests, pc[r] \in {"reserving", "lapsed"} \cup Permitted, pc[r] # "announced",
         NEW d \in Ledger!Dispositions, Settle(r, d),
         d = "Cancelled" /\ call[r] \in made => cancelled,
         NEW place \in {"answered", "dropped"}, pc' = [pc EXCEPT ![r] = place],
         answer' \in [Requests -> {None, "refused"} \cup Answers],
         \A q \in Requests \ {r} : answer'[q] = answer[q],
         place = "answered" /\ answer'[r] # "refused" =>
           answer'[r] \in Answers /\ d \in RecordedAs(answer[r])',
         UNCHANGED <<via, call, budget, owner, proxy, peer, receipt>>,
         conn' \in [Clients -> {"away", "queued", "over"} \cup Alive],
         \A c \in Clients : conn'[c] \in Alive => conn[c] \in Alive,
         PermitInv'
  PROVE  IInv'
<1>1. call[r] \in DOMAIN entries
  BY DEF IInv, RequestInv
<1>2. /\ entries' = [entries EXCEPT ![call[r]].status = d] /\ open' = open /\ made' = made
      /\ DOMAIN entries' = DOMAIN entries
      /\ entries' \in Seq(Entry) /\ Len(entries') = Len(entries)
      /\ \A j \in DOMAIN entries : j # call[r] => entries'[j] = entries[j]
      /\ entries'[call[r]].status = d
  BY <1>1, ChangedEntry DEF Settle, Ledger!Settle, IInv, TypeInv
<1>3. TypeInv'
  <2>1. pc' \in [Requests -> {"unsent", "answered", "told", "dropped"} \cup Running]
    BY DEF IInv, TypeInv
  <2> QED BY <1>2, <2>1 DEF IInv, TypeInv, budget, proxy, peer
<1>4. Aside(r)
  BY <1>2 DEF Aside, IInv, TypeInv, budget, proxy
<1>5. RequestInv(r)'
  <2>1. pc'[r] = place /\ call'[r] = call[r] /\ via'[r] \in Clients
    BY DEF IInv, TypeInv, RequestInv, Permitted, Cancelling
  <2> QED BY <1>1, <1>2, <2>1 DEF RequestInv, Permitted, Cancelling
<1>6. StopInv'
  <2>1. \A i \in made' : entries'[i].status = "Cancelled" => cancelled'
    BY <1>2 DEF IInv, StopInv, TypeInv, budget
  <2> QED BY <1>2, <2>1, StopKept DEF budget
<1>7. OwnInv' /\ EndInv' /\ PeerInv'
  BY DEF IInv, OwnInv, EndInv, PeerInv, proxy, peer
<1> QED BY <1>3, <1>4, <1>5, <1>6, <1>7, RequestStep

(* Where no connection changes, neither do the permits.                    *)
LEMMA SameConnections ==
  ASSUME IInv, UNCHANGED <<conn, server>>
  PROVE  PermitInv'
BY PermitsKept DEF Connections

LEMMA ConcludeStep ==
  ASSUME IInv, NEW r \in Requests, pc[r] \in Permitted, NEW d \in Ledger!Dispositions,
         NEW what \in Answers, Conclude(r, d, what), d \in RecordedAs(what),
         d = "Cancelled" => cancelled, pc[r] # "announced"
  PROVE  IInv'
<1>1. /\ Settle(r, d) /\ pc' = [pc EXCEPT ![r] = "answered"]
      /\ answer' = [answer EXCEPT ![r] = what]
      /\ UNCHANGED <<via, call, budget, owner, proxy, conn, peer, receipt>>
  BY DEF Conclude, Answered
<1>2. answer'[r] = what /\ answer' \in [Requests -> {None, "refused"} \cup Answers]
      /\ \A q \in Requests \ {r} : answer'[q] = answer[q]
  BY <1>1 DEF IInv, TypeInv
<1>3. d \in RecordedAs(answer[r])'
  BY <1>2 DEF RecordedAs
<1>4. PermitInv'
  BY <1>1, SameConnections DEF proxy
<1>5. conn' \in [Clients -> {"away", "queued", "over"} \cup Alive]
  BY <1>1 DEF IInv, TypeInv
<1> QED BY <1>1, <1>2, <1>3, <1>4, <1>5, SettleStep

(* The ends a call can have.                                               *)
LEMMA AnswerStep ==
  ASSUME IInv, NEW r \in Requests,
         \/ Reject(r) \/ FailForward(r) \/ Complete(r) \/ SeeCancellation(r) \/ Expire(r)
  PROVE  IInv'
<1> USE DEF Permitted, Cancelling, Ledger!Dispositions, Answers, RecordedAs
<1>1. CASE Reject(r)
  BY <1>1, ConcludeStep DEF Reject
<1>2. CASE FailForward(r)
  BY <1>2, ConcludeStep DEF FailForward
<1>3. CASE Complete(r)
  BY <1>3, ConcludeStep DEF Complete
<1>4. CASE SeeCancellation(r)
  BY <1>4, ConcludeStep DEF SeeCancellation
<1>5. CASE Expire(r)
  BY <1>5, ConcludeStep DEF Expire, IInv, RequestInv
<1> QED BY <1>1, <1>2, <1>3, <1>4, <1>5

(* A request is dropped where it stands, with its permit if it has one.    *)
LEMMA DropStep ==
  ASSUME IInv, NEW r \in Requests, pc[r] \in Droppable, DropPermit(r), Go(r, "dropped"),
         UNCHANGED <<budget, owner, proxy, peer, receipt>>,
         conn' \in [Clients -> {"away", "queued", "over"} \cup Alive],
         \A c \in Clients : conn'[c] \in Alive => conn[c] \in Alive,
         PermitInv'
  PROVE  IInv'
<1>1. /\ pc' = [pc EXCEPT ![r] = "dropped"] /\ UNCHANGED <<via, call, answer>>
      /\ answer' \in [Requests -> {None, "refused"} \cup Answers]
  BY DEF Go, IInv, TypeInv
<1>0. pc[r] \in Running /\ pc[r] # "announced"
  BY DEF Droppable, Running, Permitted, Refusing, Cancelling
<1>2. CASE pc[r] \in Permitted
  <2>1. Settle(r, OnDrop) /\ OnDrop \in Ledger!Dispositions /\ (OnDrop = "Cancelled" => cancelled)
    BY <1>2 DEF DropPermit, OnDrop, Ledger!Dispositions
  <2>2. PICK d \in Ledger!Dispositions : d = OnDrop /\ Settle(r, d)
    BY <2>1
  <2> QED BY <1>0, <1>1, <1>2, <2>1, <2>2, SettleStep
<1>3. CASE pc[r] \notin Permitted
  <2>1. UNCHANGED calls
    BY <1>3 DEF DropPermit
  <2>2. TypeInv'
    BY <1>1, <2>1 DEF IInv, TypeInv, calls, budget, proxy, peer
  <2>3. Aside(r)
    BY <1>1, <2>1 DEF Aside, IInv, TypeInv, calls, budget, proxy
  <2>4. RequestInv(r)'
    <3>1. pc'[r] = "dropped" /\ via'[r] \in Clients
      BY <1>0, <1>1 DEF IInv, TypeInv, RequestInv, Running, Refusing, Permitted, Cancelling
    <3> QED BY <3>1 DEF RequestInv, Permitted, Cancelling
  <2>5. StopInv'
    <3>1. \A i \in made' : entries'[i].status = "Cancelled" => cancelled'
      BY <2>1 DEF IInv, StopInv, calls, budget
    <3> QED BY <1>0, <1>1, <2>1, <3>1, StopKept DEF calls, budget
  <2>6. OwnInv' /\ EndInv' /\ PeerInv'
    BY <1>1, <2>1 DEF IInv, OwnInv, EndInv, PeerInv, calls, proxy, peer
  <2> QED BY <2>2, <2>3, <2>4, <2>5, <2>6, RequestStep
<1> QED BY <1>2, <1>3

(* A request is refused before it is in the ledger.                        *)
LEMMA RefusedStep ==
  ASSUME IInv, NEW r \in Requests, pc[r] \in {"spawned", "closing"},
         entries' = entries, open' \in BOOLEAN, open' => open,
         pc' = [pc EXCEPT ![r] = "answered"], answer' = [answer EXCEPT ![r] = "refused"],
         UNCHANGED <<via, call, made, budget, owner, proxy, conn, peer, receipt>>
  PROVE  IInv'
<1>1. TypeInv'
  BY DEF IInv, TypeInv, budget, proxy, peer
<1>2. Aside(r)
  BY DEF Aside, IInv, TypeInv, budget, proxy
<1>3. RequestInv(r)'
  <2>1. pc'[r] = "answered" /\ answer'[r] = "refused" /\ via'[r] \in Clients
    BY DEF IInv, TypeInv, RequestInv
  <2> QED BY <2>1 DEF RequestInv, Permitted, Cancelling
<1>4. StopInv'
  <2>1. \A i \in made' : entries'[i].status = "Cancelled" => cancelled'
    BY DEF IInv, StopInv, budget
  <2> QED BY <2>1, StopKept DEF budget
<1>5. OwnInv' /\ EndInv' /\ PeerInv' /\ PermitInv'
  BY SameConnections DEF IInv, OwnInv, EndInv, PeerInv, proxy, peer
<1> QED BY <1>1, <1>2, <1>3, <1>4, <1>5, RequestStep

(* A request enters the ledger under the next number, or is refused.       *)
LEMMA EnterStep ==
  ASSUME IInv, NEW r \in Requests, Enter(r)
  PROVE  IInv'
<1>0. pc[r] = "spawned" /\ UNCHANGED <<made, budget, owner, proxy, conn, peer, receipt>>
  BY DEF Enter
<1>1. PermitInv' /\ EndInv' /\ PeerInv'
  BY <1>0, SameConnections DEF IInv, EndInv, PeerInv, proxy, peer
<1>2. CASE /\ Ledger!Enter("normal") /\ call' = [call EXCEPT ![r] = Len(entries) + 1]
           /\ pc' = [pc EXCEPT ![r] = "reserving"] /\ UNCHANGED <<via, answer>>
  <2> DEFINE n == Len(entries) + 1
  <2>1. /\ entries' \in Seq(Entry) /\ Len(entries') = n
        /\ DOMAIN entries \subseteq DOMAIN entries' /\ n \in DOMAIN entries'
        /\ \A i \in DOMAIN entries : entries'[i] = entries[i]
        /\ entries'[n].status = "waiting" /\ open' = open
    BY <1>2, EnteredEntry DEF IInv, TypeInv
  <2>2. n \in Nat /\ n \notin DOMAIN entries /\ n # 0
    BY DEF IInv, TypeInv
  <2>3. TypeInv'
    <3>1. call' \in [Requests -> 0..Len(entries')]
      BY <1>2, <2>1, <2>2 DEF IInv, TypeInv
    <3> QED BY <1>0, <1>2, <2>1, <3>1 DEF IInv, TypeInv, budget, proxy, peer, Running
  <2>4. Aside(r)
    BY <1>0, <1>2, <2>1 DEF Aside, IInv, TypeInv, budget, proxy
  <2>5. RequestInv(r)'
    <3>1. pc'[r] = "reserving" /\ call'[r] = n /\ n \notin made' /\ via'[r] \in Clients
      BY <1>0, <1>2, <2>2 DEF IInv, TypeInv, RequestInv
    <3> QED BY <2>1, <3>1 DEF RequestInv, Permitted, Cancelling
  <2>6. OwnInv'
    <3>1. \A q \in Requests : call[q] # n
      BY <2>2 DEF IInv, TypeInv
    <3> QED BY <1>2, <3>1 DEF IInv, OwnInv, TypeInv
  <2>7. StopInv'
    <3>1. \A i \in made' : entries'[i].status = "Cancelled" => cancelled'
      BY <1>0, <2>1 DEF IInv, TypeInv, StopInv, budget
    <3> QED BY <1>0, <1>2, <2>1, <3>1, StopKept DEF budget
  <2> QED BY <1>1, <2>3, <2>4, <2>5, <2>6, <2>7, RequestStep
<1>3. CASE UNCHANGED <<entries, open>> /\ Answered(r, "refused")
  <2>1. /\ entries' = entries /\ open' = open
        /\ pc' = [pc EXCEPT ![r] = "answered"] /\ answer' = [answer EXCEPT ![r] = "refused"]
        /\ UNCHANGED <<via, call>>
    BY <1>3 DEF Answered
  <2>2. open' \in BOOLEAN /\ (open' => open)
    BY <2>1 DEF IInv, TypeInv
  <2> QED BY <1>0, <2>1, <2>2, RefusedStep
<1> QED BY <1>2, <1>3 DEF Enter

LEMMA ReserveStep ==
  ASSUME IInv, NEW r \in Requests, Reserve(r)
  PROVE  IInv'
<1>0. /\ pc[r] = "reserving" /\ made' = made \cup {call[r]}
      /\ pc' = [pc EXCEPT ![r] = "forwarding"]
      /\ UNCHANGED <<via, call, answer, budget, owner, proxy, conn, peer, receipt>>
  BY DEF Reserve, Go
<1>1. call[r] \in DOMAIN entries
  BY <1>0 DEF IInv, RequestInv
<1>2. /\ open' = open /\ DOMAIN entries' = DOMAIN entries
      /\ entries' \in Seq(Entry) /\ Len(entries') = Len(entries)
      /\ \A j \in DOMAIN entries : j # call[r] => entries'[j] = entries[j]
      /\ entries'[call[r]].status = "active"
  BY <1>1, ChangedEntry DEF Reserve, Ledger!Activate, IInv, TypeInv
<1>3. TypeInv'
  BY <1>0, <1>1, <1>2 DEF IInv, TypeInv, budget, proxy, peer, Running, Permitted
<1>4. Aside(r)
  BY <1>0, <1>2 DEF Aside, IInv, TypeInv, budget, proxy
<1>5. RequestInv(r)'
  <2>1. pc'[r] = "forwarding" /\ call'[r] = call[r] /\ via'[r] \in Clients
    BY <1>0 DEF IInv, TypeInv, RequestInv
  <2> QED BY <1>1, <1>2, <2>1 DEF RequestInv, Cancelling
<1>6. StopInv'
  <2>1. \A i \in made' : entries'[i].status = "Cancelled" => cancelled'
    BY <1>0, <1>2 DEF IInv, TypeInv, StopInv, budget
  <2> QED BY <1>0, <1>2, <2>1, StopKept DEF budget
<1>7. OwnInv' /\ EndInv' /\ PeerInv' /\ PermitInv'
  BY <1>0, SameConnections DEF IInv, OwnInv, EndInv, PeerInv, proxy, peer
<1> QED BY <1>3, <1>4, <1>5, <1>6, <1>7, RequestStep

LEMMA RefuseStep ==
  ASSUME IInv, NEW r \in Requests, Refuse(r)
  PROVE  IInv'
<1>1. /\ pc[r] \in {"reserving", "lapsed"} /\ Settle(r, "Cancelled") /\ pc' = [pc EXCEPT ![r] = "answered"]
      /\ answer' = [answer EXCEPT ![r] = "refused"]
      /\ UNCHANGED <<via, call, budget, owner, proxy, conn, peer, receipt>>
  BY DEF Refuse, Answered
<1>2. call[r] \notin made
  BY <1>1 DEF IInv, RequestInv
<1>3. answer'[r] = "refused" /\ answer' \in [Requests -> {None, "refused"} \cup Answers]
      /\ \A q \in Requests \ {r} : answer'[q] = answer[q]
  BY <1>1 DEF IInv, TypeInv
<1>4. PermitInv' /\ conn' \in [Clients -> {"away", "queued", "over"} \cup Alive]
  BY <1>1, SameConnections DEF proxy, IInv, TypeInv
<1>5. "Cancelled" \in Ledger!Dispositions
  BY DEF Ledger!Dispositions
<1> QED BY <1>1, <1>2, <1>3, <1>4, <1>5, SettleStep

(* Steps that leave the ledger's entries and the connections alone: a call *)
(* is sent, an answer is written, and what ends the budget.                *)
LEMMA PlaceStep ==
  ASSUME IInv, NEW r \in Requests,
         NEW place \in {"sent", "told", "closing", "lapsed", "cancelling", "announced", "expiring"},
         pc' = [pc EXCEPT ![r] = place], RequestInv(r)', PeerInv', reached' \subseteq 1..Servers,
         pc[r] = "announced" => ~open', open' => open, open' \in BOOLEAN,
         cancelled' => cancelled \/ (place = "announced" /\ pc[r] \in Cancelling),
         cancelled => cancelled', terminated => terminated',
         cancelled' \in BOOLEAN, terminated' \in BOOLEAN,
         UNCHANGED <<entries, made, outside, owner, proxy, conn, via, call, answer, expected,
                     listening, receipt>>
  PROVE  IInv'
<1>1. TypeInv'
  <2>1. place \in Running \cup {"told"}
    BY DEF Running, Permitted, Refusing, Cancelling
  <2> QED BY <2>1 DEF IInv, TypeInv, proxy
<1>2. Aside(r)
  BY DEF Aside, IInv, TypeInv, proxy
<1>3. StopInv'
  <2>1. \A i \in made' : entries'[i].status = "Cancelled" => cancelled'
    BY DEF IInv, StopInv
  <2> QED BY <2>1, StopKept
<1>4. OwnInv' /\ EndInv' /\ PermitInv'
  BY SameConnections DEF IInv, OwnInv, EndInv, proxy
<1> QED BY <1>1, <1>2, <1>3, <1>4, RequestStep

LEMMA ForwardStep ==
  ASSUME IInv, NEW r \in Requests, Forward(r)
  PROVE  IInv'
<1>1. /\ pc[r] = "forwarding" /\ pc' = [pc EXCEPT ![r] = "sent"] /\ pc'[r] = "sent"
      /\ UNCHANGED <<calls, budget, owner, proxy, conn, via, call, answer, expected, listening,
                     receipt>>
  BY DEF Forward, Go, IInv, TypeInv
<1>2. PeerInv' /\ reached' \subseteq 1..Servers
  BY DEF Forward, PeerInv, IInv, TypeInv
<1>3. RequestInv(r)'
  BY <1>1 DEF IInv, RequestInv, Permitted, Cancelling, calls, budget
<1>4. open \in BOOLEAN /\ cancelled \in BOOLEAN /\ terminated \in BOOLEAN
  BY DEF IInv, TypeInv
<1> QED BY <1>1, <1>2, <1>3, <1>4, PlaceStep DEF calls, budget

LEMMA DeliverStep ==
  ASSUME IInv, NEW r \in Requests, Deliver(r)
  PROVE  IInv'
<1>1. /\ pc[r] = "answered" /\ conn[via[r]] \in Alive
      /\ pc' = [pc EXCEPT ![r] = "told"] /\ pc'[r] = "told"
      /\ UNCHANGED <<calls, budget, owner, proxy, conn, via, call, answer, peer, receipt>>
  BY DEF Deliver, Go, IInv, TypeInv
<1>2. server # "ended"
  <2>1. via[r] \in Clients
    BY <1>1 DEF IInv, RequestInv
  <2> QED BY <1>1, <2>1 DEF IInv, EndInv
<1>3. RequestInv(r)'
  BY <1>1, <1>2 DEF IInv, RequestInv, Permitted, Cancelling, RecordedAs, calls, budget, proxy
<1>4. PeerInv' /\ reached' \subseteq 1..Servers
  BY <1>1 DEF IInv, TypeInv, PeerInv, peer
<1>5. open \in BOOLEAN /\ cancelled \in BOOLEAN /\ terminated \in BOOLEAN
  BY DEF IInv, TypeInv
<1> QED BY <1>1, <1>3, <1>4, <1>5, PlaceStep DEF calls, budget, peer

(* A request ends the budget: for a call that cannot be made, or because   *)
(* its call timed out.                                                     *)
LEMMA TerminateStep ==
  ASSUME IInv, NEW r \in Requests,
         Doom(r) \/ CloseDoomed(r) \/ TimeOut(r) \/ Announce(r) \/ CloseAdmission(r)
  PROVE  IInv'
<1>0. /\ PeerInv /\ RequestInv(r) /\ reached \subseteq 1..Servers
      /\ open \in BOOLEAN /\ cancelled \in BOOLEAN /\ terminated \in BOOLEAN
      /\ \A place : pc' = [pc EXCEPT ![r] = place] => pc'[r] = place
  BY DEF IInv, TypeInv
<1> USE DEF Permitted, Cancelling
<1>1. CASE Doom(r)
  <2>1. /\ pc[r] \in {"spawned", "reserving"} /\ pc' = [pc EXCEPT ![r] = "closing"]
        /\ terminated' = TRUE
        /\ UNCHANGED <<calls, cancelled, outside, owner, proxy, conn, via, call, answer, peer,
                       receipt>>
    BY <1>1 DEF Doom, Go
  <2>2. RequestInv(r)' /\ PeerInv'
    BY <1>0, <2>1 DEF RequestInv, PeerInv, calls, peer
  <2> QED BY <1>0, <2>1, <2>2, PlaceStep DEF calls, peer
<1>2. CASE CloseDoomed(r)
  <2>1. /\ pc[r] = "closing" /\ open' = FALSE /\ entries' = entries
        /\ UNCHANGED <<made, budget, owner, proxy, conn, peer, receipt>>
        /\ IF call[r] = 0 THEN Answered(r, "refused") ELSE Go(r, "lapsed")
    BY <1>2 DEF CloseDoomed, Ledger!Close
  <2>2. CASE call[r] = 0
    BY <2>1, <2>2, RefusedStep DEF Answered
  <2>3. CASE call[r] # 0
    <3>1. pc' = [pc EXCEPT ![r] = "lapsed"] /\ UNCHANGED <<via, call, answer>>
      BY <2>1, <2>3 DEF Go
    <3>2. RequestInv(r)' /\ PeerInv'
      BY <1>0, <2>1, <2>3, <3>1 DEF RequestInv, PeerInv, peer, budget
    <3> QED BY <1>0, <2>1, <3>1, <3>2, PlaceStep DEF budget, peer
  <2> QED BY <2>2, <2>3
<1>3. CASE TimeOut(r)
  <2>1. /\ pc[r] \in {"forwarding", "sent"} /\ pc' = [pc EXCEPT ![r] = "cancelling"]
        /\ terminated' = TRUE
        /\ UNCHANGED <<calls, cancelled, outside, owner, proxy, conn, via, call, answer, peer,
                       receipt>>
    BY <1>3 DEF TimeOut, Go
  <2>2. RequestInv(r)' /\ PeerInv'
    BY <1>0, <2>1 DEF RequestInv, PeerInv, calls, peer
  <2> QED BY <1>0, <2>1, <2>2, PlaceStep DEF calls, peer
<1>4. CASE Announce(r)
  <2>1. /\ pc[r] = "cancelling" /\ pc' = [pc EXCEPT ![r] = "announced"]
        /\ cancelled' = TRUE
        /\ UNCHANGED <<calls, terminated, outside, owner, proxy, conn, via, call, answer, peer,
                       receipt>>
    BY <1>4 DEF Announce, Go
  <2>2. RequestInv(r)' /\ PeerInv'
    BY <1>0, <2>1 DEF RequestInv, PeerInv, calls, peer
  <2> QED BY <1>0, <2>1, <2>2, PlaceStep DEF calls, peer
<1>5. CASE CloseAdmission(r)
  <2>1. /\ pc[r] = "announced" /\ pc' = [pc EXCEPT ![r] = "expiring"]
        /\ open' = FALSE
        /\ UNCHANGED <<entries, made, budget, owner, proxy, conn, via, call, answer, peer, receipt>>
    BY <1>5 DEF CloseAdmission, Ledger!Close, Go
  <2>2. RequestInv(r)' /\ PeerInv'
    BY <1>0, <2>1 DEF RequestInv, PeerInv, peer, budget
  <2> QED BY <1>0, <2>1, <2>2, PlaceStep DEF peer, budget
<1> QED BY <1>1, <1>2, <1>3, <1>4, <1>5

LEMMA SendStep ==
  ASSUME IInv, NEW r \in Requests, NEW c \in Clients, Send(r, c)
  PROVE  IInv'
<1>1. /\ pc' = [pc EXCEPT ![r] = "spawned"] /\ via' = [via EXCEPT ![r] = c]
      /\ UNCHANGED <<calls, budget, owner, proxy, conn, call, answer, peer, receipt>>
  BY DEF Send
<1>2. TypeInv'
  BY <1>1 DEF IInv, TypeInv, calls, budget, proxy, peer, Running
<1>3. Aside(r)
  BY <1>1 DEF Aside, IInv, TypeInv, calls, budget, proxy
<1>4. RequestInv(r)'
  <2>1. pc'[r] = "spawned" /\ via'[r] \in Clients /\ call'[r] = 0
    BY <1>1 DEF Send, IInv, TypeInv, RequestInv
  <2> QED BY <2>1 DEF RequestInv, Permitted, Cancelling
<1>5. StopInv'
  <2>1. pc[r] # "announced"
    BY DEF Send
  <2>2. \A i \in made' : entries'[i].status = "Cancelled" => cancelled'
    BY <1>1 DEF IInv, StopInv, calls, budget
  <2> QED BY <1>1, <2>1, <2>2, StopKept DEF calls, budget
<1>6. OwnInv' /\ EndInv' /\ PeerInv' /\ PermitInv'
  BY <1>1, SameConnections DEF IInv, OwnInv, EndInv, PeerInv, calls, proxy, peer
<1> QED BY <1>2, <1>3, <1>4, <1>5, <1>6, RequestStep

(* A connection ends, and over HTTP/1 its request with it.                 *)
LEMMA EndStep ==
  ASSUME IInv, NEW c \in Clients, EndConnection(c)
  PROVE  IInv'
<1>1. /\ conn[c] \in Alive /\ conn' = [conn EXCEPT ![c] = "over"]
      /\ UNCHANGED <<budget, owner, proxy, peer, receipt>>
  BY DEF EndConnection
<1>2. /\ PermitInv' /\ conn' \in [Clients -> {"away", "queued", "over"} \cup Alive]
      /\ \A d \in Clients : conn'[d] \in Alive => conn[d] \in Alive
  BY <1>1, PermitsEnd DEF proxy, IInv, TypeInv, Alive
<1>3. ASSUME NEW r \in RunningOn(c), pc[r] \in Droppable, DropPermit(r), Go(r, "dropped")
      PROVE  IInv'
  BY <1>1, <1>2, <1>3, DropStep DEF RunningOn
<1>4. CASE UNCHANGED <<calls, request>>
  <2>1. TypeInv'
    BY <1>1, <1>2, <1>4 DEF IInv, TypeInv, calls, budget, request, proxy, peer
  <2>2. OwnInv' /\ StopInv' /\ PeerInv'
    BY <1>1, <1>4
    DEF IInv, OwnInv, StopInv, Announced, PeerInv, calls, budget, request, peer
  <2>3. EndInv'
    BY <1>1, <1>2 DEF IInv, EndInv, proxy
  <2>4. \A r \in Requests : RequestInv(r)'
    BY <1>1, <1>4 DEF IInv, RequestInv, RecordedAs, calls, budget, request, proxy
  <2> QED BY <1>2, <2>1, <2>2, <2>3, <2>4 DEF IInv
<1> QED BY <1>3, <1>4 DEF EndConnection

LEMMA DropStreamStep ==
  ASSUME IInv, NEW r \in Requests, DropStream(r)
  PROVE  IInv'
<1>1. /\ pc[r] \in Droppable /\ DropPermit(r) /\ Go(r, "dropped")
      /\ UNCHANGED <<budget, owner, proxy, conn, peer, receipt>>
  BY DEF DropStream
<1>2. PermitInv' /\ conn' \in [Clients -> {"away", "queued", "over"} \cup Alive]
  BY <1>1, SameConnections DEF proxy, IInv, TypeInv
<1> QED BY <1>1, <1>2, DropStep

-----------------------------------------------------------------------------
(* Steps of the accepting loop and of what surrounds the proxy             *)

(* Steps that no request and no call takes part in.                        *)
LEMMA LoopStep ==
  ASSUME IInv, UNCHANGED <<calls, budget, request, peer, receipt>>,
         owner' \in {"running", "stopping", "stopped"}, shutdown' \in BOOLEAN,
         server' \in {"seeking", "accepting", "draining", "ended", "failed"},
         conn' \in [Clients -> {"away", "queued", "over"} \cup Alive],
         EndInv', PermitInv', server' = "ended" => server = "ended" \/ receipt = None
  PROVE  IInv'
<1>1. TypeInv'
  BY DEF IInv, TypeInv, calls, budget, request, peer
<1>2. OwnInv' /\ StopInv' /\ PeerInv'
  BY DEF IInv, OwnInv, StopInv, Announced, PeerInv, calls, budget, request, peer
<1>3. ASSUME NEW r \in Requests PROVE RequestInv(r)'
  <2>1. RequestInv(r)
    BY DEF IInv
  <2> QED BY <2>1 DEF RequestInv, RecordedAs, calls, budget, request
<1> QED BY <1>1, <1>2, <1>3 DEF IInv

LEMMA ServerStep ==
  ASSUME IInv, \/ AcquireConnection \/ FailAccept \/ Break \/ EndServing
               \/ \E c \in Clients : Accept(c) \/ Connect(c) \/ Handshake(c)
  PROVE  IInv'
<1> USE DEF proxy
<1>1. CASE AcquireConnection
  <2>1. PermitInv'
    BY <1>1, PermitsKept DEF AcquireConnection, Connections
  <2> QED BY <1>1, <2>1, LoopStep DEF AcquireConnection, IInv, TypeInv, EndInv
<1>2. CASE FailAccept
  <2>1. /\ conn' \in [Clients -> {"away", "queued", "over"} \cup Alive]
        /\ \A c \in Clients : conn'[c] \in Alive <=> conn[c] \in Alive
    BY <1>2 DEF FailAccept, Unlisten, IInv, TypeInv, Alive
  <2>2. PermitInv'
    BY <1>2, <2>1, PermitsKept DEF FailAccept, Connections
  <2> QED BY <1>2, <2>1, <2>2, LoopStep DEF FailAccept, IInv, TypeInv, EndInv
<1>3. CASE Break
  <2>1. PermitInv'
    BY <1>3, PermitsKept DEF Break, Connections
  <2> QED BY <1>3, <2>1, LoopStep DEF Break, IInv, TypeInv, EndInv
<1>4. CASE EndServing
  <2>1. /\ conn' \in [Clients -> {"away", "queued", "over"} \cup Alive]
        /\ \A c \in Clients : conn'[c] \notin Alive /\ conn[c] \notin Alive
    BY <1>4 DEF EndServing, Unlisten, IInv, TypeInv, Alive, Connections
  <2>2. PermitInv'
    BY <1>4, <2>1, PermitsKept DEF EndServing, Connections
  <2>3. receipt = None
    BY <1>4 DEF EndServing, IInv, EndInv
  <2> QED BY <1>4, <2>1, <2>2, <2>3, LoopStep DEF EndServing, IInv, TypeInv, EndInv
<1>5. ASSUME NEW c \in Clients, Accept(c) PROVE IInv'
  <2>1. conn' \in [Clients -> {"away", "queued", "over"} \cup Alive]
    BY <1>5 DEF Accept, IInv, TypeInv, Alive
  <2> QED BY <1>5, <2>1, PermitsAccept, LoopStep DEF Accept, IInv, TypeInv, EndInv
<1>6. ASSUME NEW c \in Clients, Connect(c) \/ Handshake(c) PROVE IInv'
  <2>1. /\ conn' \in [Clients -> {"away", "queued", "over"} \cup Alive]
        /\ \A d \in Clients : conn'[d] \in Alive <=> conn[d] \in Alive
        /\ UNCHANGED <<calls, budget, owner, shutdown, server, request, peer, receipt>>
    BY <1>6 DEF Connect, Handshake, IInv, TypeInv, Alive
  <2>2. PermitInv'
    BY <2>1, PermitsKept DEF Connections
  <2> QED BY <2>1, <2>2, LoopStep DEF IInv, TypeInv, EndInv
<1> QED BY <1>1, <1>2, <1>3, <1>4, <1>5, <1>6

LEMMA OwnerStep ==
  ASSUME IInv, Shutdown \/ Joined
  PROVE  IInv'
<1>1. /\ UNCHANGED <<calls, budget, server, conn, request, peer, receipt>>
      /\ owner' \in {"running", "stopping", "stopped"} /\ shutdown' \in BOOLEAN
  BY DEF Shutdown, Joined, proxy, IInv, TypeInv
<1>2. EndInv'
  BY <1>1 DEF Shutdown, Joined, IInv, EndInv
<1> QED BY <1>1, <1>2, SameConnections, LoopStep DEF IInv, TypeInv

(* Somebody else ends the budget.                                          *)
LEMMA OutsideStep ==
  ASSUME IInv, Interrupt \/ AnnounceInterrupt \/ EndElsewhere \/ CleanupElsewhere \/ CloseOutside
  PROVE  IInv'
<1>0. open \in BOOLEAN /\ cancelled \in BOOLEAN /\ terminated \in BOOLEAN /\ StopInv
  BY DEF IInv, TypeInv
<1>1. /\ UNCHANGED <<entries, made, owner, proxy, conn, request, peer, receipt>>
      /\ outside' \in {"none", "cancelling", "announced", "ending", "closed"}
  BY DEF Interrupt, AnnounceInterrupt, EndElsewhere, CleanupElsewhere, CloseOutside, Ledger!Close, calls
<1>2. /\ open' \in BOOLEAN /\ cancelled' \in BOOLEAN /\ terminated' \in BOOLEAN
      /\ (cancelled => cancelled') /\ (terminated => terminated') /\ StopInv'
  <2>1. CASE Interrupt \/ EndElsewhere
    <3>1. /\ UNCHANGED <<calls, cancelled, pc>> /\ terminated' = TRUE /\ outside = "none"
      BY <2>1 DEF Interrupt, EndElsewhere, request
    <3> QED BY <1>0, <3>1 DEF StopInv, Announced, calls
  <2>2. CASE AnnounceInterrupt
    <3>1. /\ UNCHANGED <<calls, terminated, pc>> /\ cancelled' = TRUE
          /\ outside = "cancelling" /\ outside' = "announced"
      BY <2>2 DEF AnnounceInterrupt, request
    <3> QED BY <1>0, <3>1 DEF StopInv, Announced, calls
  <2>3. CASE CleanupElsewhere \/ CloseOutside
    <3>1. /\ UNCHANGED <<entries, made, cancelled, terminated>> /\ open' = FALSE
          /\ outside' = "closed"
      BY <2>3 DEF CleanupElsewhere, CloseOutside, Ledger!Close
    <3> QED BY <1>0, <3>1 DEF StopInv
  <2> QED BY <2>1, <2>2, <2>3
<1>3. TypeInv' /\ PermitInv'
  BY <1>1, <1>2, SameConnections DEF IInv, TypeInv, proxy, request, peer
<1>4. OwnInv' /\ EndInv' /\ PeerInv'
  BY <1>1 DEF IInv, OwnInv, EndInv, PeerInv, request, proxy, peer
<1>5. \A r \in Requests : RequestInv(r)'
  BY <1>1, <1>2 DEF IInv, RequestInv, RecordedAs, request, proxy
<1> QED BY <1>2, <1>3, <1>4, <1>5 DEF IInv

(* The first peer that is corroborated stays, whoever listens then.        *)
LEMMA PeerStep ==
  ASSUME IInv, Corroborate \/ Rebind
  PROVE  IInv'
<1>1. UNCHANGED <<calls, budget, owner, proxy, conn, request, reached, receipt>>
  BY DEF Corroborate, Rebind
<1>2. expected' \in (1..Servers) \cup {None} /\ listening' \in 1..Servers
  BY LimitsAccepted DEF Corroborate, Rebind, IInv, TypeInv
<1>3. PeerInv'
  BY DEF Corroborate, Rebind, IInv, PeerInv
<1>4. TypeInv' /\ PermitInv'
  BY <1>1, <1>2, SameConnections DEF IInv, TypeInv, calls, budget, proxy, request
<1>5. OwnInv' /\ StopInv' /\ EndInv'
  BY <1>1 DEF IInv, OwnInv, StopInv, Announced, EndInv, calls, budget, request, proxy
<1>6. \A r \in Requests : RequestInv(r)'
  BY <1>1 DEF IInv, RequestInv, RecordedAs, calls, budget, request, proxy
<1> QED BY <1>3, <1>4, <1>5, <1>6 DEF IInv

(* The receipt takes the ledger over: what was settled is in it as it is.  *)
LEMMA SnapshotStep ==
  ASSUME IInv, Snapshot
  PROVE  IInv'
<1>1. UNCHANGED <<calls, budget, owner, proxy, conn, request, peer>> /\ owner = "stopped"
  BY DEF Snapshot
<1>2. TypeInv' /\ PermitInv' /\ OwnInv' /\ StopInv' /\ EndInv' /\ PeerInv'
  BY <1>1, SameConnections
  DEF IInv, TypeInv, OwnInv, StopInv, Announced, EndInv, PeerInv, calls, budget, proxy, request,
      peer
<1>3. ASSUME NEW r \in Requests PROVE RequestInv(r)'
  <2>1. ASSUME pc[r] = "told", answer[r] # "refused"
        PROVE  /\ call[r] \in DOMAIN receipt'
               /\ receipt'[call[r]] \in RecordedAs(answer[r])
    <3>1. /\ answer[r] \in Answers /\ call[r] \in DOMAIN entries
          /\ entries[call[r]].status \in RecordedAs(answer[r])
      BY <2>1 DEF IInv, RequestInv
    <3>2. entries[call[r]].status \in Ledger!Dispositions
      BY <3>1 DEF RecordedAs, Answers, Ledger!Dispositions
    <3> QED BY <3>1, <3>2 DEF Snapshot
  <2> QED BY <1>1, <2>1 DEF IInv, RequestInv, RecordedAs, calls, budget, request, proxy
<1> QED BY <1>2, <1>3 DEF IInv

-----------------------------------------------------------------------------
LEMMA InitialStep == Init => IInv
<1> SUFFICES ASSUME Init PROVE IInv
  OBVIOUS
<1>1. entries = <<>> /\ open = TRUE
  BY DEF Init, Ledger!Init
<1>2. TypeInv
  <2>1. entries \in Seq(Entry) /\ Len(entries) = 0 /\ DOMAIN entries = {}
    BY <1>1
  <2>2. open \in BOOLEAN /\ cancelled \in BOOLEAN /\ terminated \in BOOLEAN /\ shutdown \in BOOLEAN
    BY <1>1, Zenon DEF Init
  <2>3. call \in [Requests -> 0..Len(entries)]
    BY <2>1 DEF Init
  <2>4. listening \in 1..Servers
    BY LimitsAccepted DEF Init
  <2> QED BY <2>1, <2>2, <2>3, <2>4 DEF Init, TypeInv, Running
<1>3. PermitInv
  <2>1. Connections = {}
    BY DEF Init, Connections, Alive
  <2> QED BY <2>1, FS_EmptySet, LimitsAccepted DEF Init, PermitInv, PermitsHeld, ConnectionLimit,
          Reserved, MaxDownstream
<1>4. \A r \in Requests : RequestInv(r)
  BY DEF Init, RequestInv, Permitted, Cancelling
<1>5. OwnInv /\ StopInv /\ EndInv /\ PeerInv
  BY DEF Init, OwnInv, StopInv, EndInv, PeerInv
<1> QED BY <1>2, <1>3, <1>4, <1>5 DEF IInv

LEMMA InductiveStep == IInv /\ [Next]_vars => IInv'
<1> SUFFICES ASSUME IInv, [Next]_vars PROVE IInv'
  OBVIOUS
<1>1. CASE UNCHANGED vars
  <2>1. UNCHANGED <<calls, budget, owner, proxy, conn, request, peer, receipt>>
    BY <1>1 DEF vars
  <2>2. EndInv' /\ PermitInv'
    BY <2>1, SameConnections DEF IInv, EndInv, proxy
  <2> QED BY <2>1, <2>2, LoopStep DEF IInv, TypeInv, proxy
<1>2. ASSUME NEW r \in Requests,
             Handle(r) \/ Reject(r) \/ FailForward(r) \/ Deliver(r) \/ DropStream(r)
      PROVE  IInv'
  BY <1>2, EnterStep, ReserveStep, RefuseStep, ForwardStep, DeliverStep, TerminateStep, AnswerStep,
     DropStreamStep
  DEF Handle
<1>3. ASSUME NEW r \in Requests, NEW c \in Clients, Send(r, c) PROVE IInv'
  BY <1>3, SendStep
<1>4. ASSUME NEW c \in Clients, EndConnection(c) PROVE IInv'
  BY <1>4, EndStep
<1> QED BY <1>1, <1>2, <1>3, <1>4, ServerStep, OwnerStep, OutsideStep, PeerStep, SnapshotStep
        DEF Next, Serve

(* The inductive invariant: a request's place says where its call stands,  *)
(* no two share one, and a receipt comes when nothing is connected.        *)
THEOREM Invariant == Spec => []IInv
BY InitialStep, InductiveStep, PTL DEF Spec

(* Types, and no more connections than permits.                            *)
THEOREM TypeCorrect == Spec => []TypeOK
<1>1. IInv => TypeOK
  BY DEF IInv, TypeInv, PermitInv, TypeOK, Entry, Answers
<1> QED BY <1>1, Invariant, PTL

(* What a client is answered is what the ledger and the receipt say.       *)
THEOREM ToldIsAlwaysRecorded == Spec => []ToldIsRecorded
<1>1. IInv => ToldIsRecorded
  BY DEF IInv, RequestInv, ToldIsRecorded
<1> QED BY <1>1, Invariant, PTL

(* A call that was being made is recorded as cancelled only when the whole *)
(* execution is: its watch is set, a termination is recorded, and if calls *)
(* are still admitted somebody stands right before the statement that ends *)
(* that.                                                                   *)
THEOREM CancelledCallsAlwaysStopTheRun == Spec => []CancelledCallsStopTheRun
<1>1. IInv => CancelledCallsStopTheRun
  BY DEF IInv, StopInv, CancelledCallsStopTheRun
<1> QED BY <1>1, Invariant, PTL

(* All calls of a run reach one process, however many take the socket over.*)
THEOREM OnePeerIsReached == Spec => []OnePeer
<1>1. IInv => OnePeer
  <2> SUFFICES ASSUME IInv PROVE OnePeer
    OBVIOUS
  <2>1. reached \in SUBSET {expected}
    BY DEF IInv, PeerInv
  <2>2. IsFiniteSet({expected}) /\ Cardinality({expected}) = 1
    BY FS_Singleton
  <2> QED BY <2>1, <2>2, FS_Subset, FS_CardinalityType DEF OnePeer
<1> QED BY <1>1, Invariant, PTL

-----------------------------------------------------------------------------
(* The proxy and the ledger                                                *)

LedgerStep == [Ledger!Next]_(Ledger!ledgerVars)

LEMMA SettleIsLedgerStep ==
  ASSUME NEW r \in Requests, call[r] \in DOMAIN entries, NEW d \in Ledger!Dispositions,
         Settle(r, d)
  PROVE  LedgerStep
BY DEF Settle, LedgerStep, Ledger!Next

LEMMA QuietIsLedgerStep ==
  ASSUME UNCHANGED <<entries, open>>
  PROVE  LedgerStep
BY DEF LedgerStep, Ledger!ledgerVars

LEMMA DropIsLedgerStep ==
  ASSUME IInv, NEW r \in Requests, DropPermit(r)
  PROVE  LedgerStep
<1>1. CASE pc[r] \in Permitted
  <2>1. PICK d \in Ledger!Dispositions : Settle(r, d)
    BY <1>1 DEF DropPermit, OnDrop, Ledger!Dispositions
  <2>2. call[r] \in DOMAIN entries
    BY <1>1 DEF IInv, RequestInv
  <2> QED BY <2>1, <2>2, SettleIsLedgerStep
<1>2. CASE pc[r] \notin Permitted
  BY <1>2, QuietIsLedgerStep DEF DropPermit, calls
<1> QED BY <1>1, <1>2

(* A request's step: it settles only the call it owns.                     *)
LEMMA RequestIsLedgerStep ==
  ASSUME IInv, NEW r \in Requests,
         Handle(r) \/ Reject(r) \/ FailForward(r) \/ Deliver(r) \/ DropStream(r)
  PROVE  LedgerStep
<1>1. CASE Enter(r)
  BY <1>1, QuietIsLedgerStep DEF Enter, LedgerStep, Ledger!Next, Ledger!Kinds
<1>2. CASE Reserve(r)
  <2>1. call[r] \in DOMAIN entries
    BY <1>2 DEF Reserve, IInv, RequestInv
  <2> QED BY <1>2, <2>1 DEF Reserve, LedgerStep, Ledger!Next
<1>3. CASE Refuse(r)
  <2>1. call[r] \in DOMAIN entries /\ Settle(r, "Cancelled")
    BY <1>3 DEF Refuse, IInv, RequestInv
  <2> QED BY <2>1, SettleIsLedgerStep DEF Ledger!Dispositions
<1>4. CASE Forward(r) \/ Deliver(r)
  BY <1>4, QuietIsLedgerStep DEF Forward, Deliver, calls
<1>5. CASE Doom(r) \/ TimeOut(r) \/ Announce(r)
  BY <1>5, QuietIsLedgerStep DEF Doom, TimeOut, Announce, calls
<1>6. CASE Reject(r) \/ FailForward(r) \/ Complete(r) \/ SeeCancellation(r) \/ Expire(r)
  <2>1. pc[r] \in Permitted /\ \E d \in Ledger!Dispositions : Settle(r, d)
    BY <1>6 DEF Reject, FailForward, Complete, SeeCancellation, Expire, Conclude, Permitted,
            Cancelling, Ledger!Dispositions
  <2>2. call[r] \in DOMAIN entries
    BY <2>1 DEF IInv, RequestInv
  <2> QED BY <2>1, <2>2, SettleIsLedgerStep
<1>7. CASE DropStream(r)
  BY <1>7, DropIsLedgerStep DEF DropStream
<1>8. CASE CloseDoomed(r) \/ CloseAdmission(r)
  BY <1>8 DEF CloseDoomed, CloseAdmission, LedgerStep, Ledger!Next
<1> QED BY <1>1, <1>2, <1>3, <1>4, <1>5, <1>6, <1>7, <1>8 DEF Handle

LEMMA StepIsLedgerStep == IInv /\ [Next]_vars => LedgerStep
<1> SUFFICES ASSUME IInv, [Next]_vars PROVE LedgerStep
  OBVIOUS
<1>1. CASE UNCHANGED vars
  BY <1>1, QuietIsLedgerStep DEF vars, calls
<1>2. ASSUME NEW c \in Clients, EndConnection(c) PROVE LedgerStep
  <2>1. ASSUME NEW r \in RunningOn(c), DropPermit(r) PROVE LedgerStep
    BY <2>1, DropIsLedgerStep DEF RunningOn
  <2>2. CASE UNCHANGED <<calls, request>>
    BY <2>2, QuietIsLedgerStep DEF calls
  <2> QED BY <1>2, <2>1, <2>2 DEF EndConnection
<1>3. CASE CleanupElsewhere \/ CloseOutside
  BY <1>3 DEF CleanupElsewhere, CloseOutside, LedgerStep, Ledger!Next
<1>4. CASE UNCHANGED calls
  BY <1>4, QuietIsLedgerStep DEF calls
<1>5. ASSUME \/ Serve \/ FailAccept \/ Corroborate \/ Rebind \/ Shutdown \/ Joined \/ Snapshot
             \/ Interrupt \/ AnnounceInterrupt \/ EndElsewhere
             \/ \E c \in Clients : Connect(c) \/ Handshake(c)
             \/ \E r \in Requests, c \in Clients : Send(r, c)
      PROVE  UNCHANGED calls
  BY <1>5 DEF Serve, AcquireConnection, Break, EndServing, Accept, FailAccept, Corroborate, Rebind,
          Shutdown, Joined, Snapshot, Interrupt, AnnounceInterrupt, EndElsewhere, Connect,
          Handshake, Send
<1> QED BY <1>1, <1>2, <1>3, <1>4, <1>5, RequestIsLedgerStep DEF Next

(* Every step of the proxy is one step of the ledger or none: it uses the  *)
(* budget in no way that CallBudget does not offer.                        *)
THEOREM ProxyKeepsTheLedger == Spec => Ledger!Spec
<1>1. Init => Ledger!Init
  BY DEF Init
<1>2. IInv /\ [Next]_vars => [Ledger!Next]_(Ledger!ledgerVars)
  BY StepIsLedgerStep DEF LedgerStep
<1> QED BY <1>1, <1>2, Invariant, PTL DEF Spec, Ledger!Spec

(* What a ledger promises whoever writes to it: the two allowances, no     *)
(* cleanup call while normal ones may come, and the concurrency.           *)
LedgerInv ==
  /\ entries \in Seq(Entry) /\ open \in BOOLEAN
  /\ Cardinality(Ledger!Entered("normal")) <= MaxCalls - CleanupCalls
  /\ Cardinality(Ledger!Entered("cleanup")) <= CleanupCalls
  /\ open => Ledger!Entered("cleanup") = {}
  /\ Cardinality(Ledger!Active) <= MaxConcurrency

LEMMA SameCardinality ==
  ASSUME NEW S
  PROVE  Ledger!Cardinality(S) = Cardinality(S)
BY DEF Ledger!Cardinality, Cardinality

LEMMA PartsFinite ==
  ASSUME entries \in Seq(Entry), NEW S \in SUBSET DOMAIN entries
  PROVE  IsFiniteSet(S) /\ Cardinality(S) \in Nat
<1>1. IsFiniteSet(DOMAIN entries)
  <2>1. DOMAIN entries = 1..Len(entries) /\ Len(entries) \in Nat
    OBVIOUS
  <2> QED BY <2>1, FS_Interval
<1> QED BY <1>1, FS_Subset, FS_CardinalityType

LEMMA EnterKeepsLedger ==
  ASSUME LedgerInv, NEW kind \in Ledger!Kinds, Ledger!Enter(kind)
  PROVE  LedgerInv'
<1> DEFINE n == Len(entries) + 1
<1>1. /\ entries \in Seq(Entry) /\ n \in Nat /\ n \notin DOMAIN entries
      /\ entries' = Append(entries, [kind |-> kind, status |-> "waiting"]) /\ open' = open
  BY DEF LedgerInv, Ledger!Enter
<1>2. [kind |-> kind, status |-> "waiting"] \in Entry
  BY DEF Entry
<1>3. /\ entries' \in Seq(Entry) /\ DOMAIN entries' = DOMAIN entries \cup {n}
      /\ \A i \in DOMAIN entries : entries'[i] = entries[i]
      /\ entries'[n].kind = kind /\ entries'[n].status = "waiting"
  BY <1>1, <1>2
<1> HIDE DEF n
<1>4. /\ \A k \in Ledger!Kinds \ {kind} : Ledger!Entered(k)' = Ledger!Entered(k)
      /\ Ledger!Entered(kind)' = Ledger!Entered(kind) \cup {n}
      /\ n \notin Ledger!Entered(kind)
      /\ Ledger!Active' = Ledger!Active
  BY <1>1, <1>3 DEF Ledger!Entered, Ledger!Active
<1>5. Cardinality(Ledger!Entered(kind)') = Cardinality(Ledger!Entered(kind)) + 1
  <2>1. IsFiniteSet(Ledger!Entered(kind))
    BY <1>1, PartsFinite DEF Ledger!Entered
  <2> QED BY <1>4, <2>1, FS_AddElement
<1>6. /\ Cardinality(Ledger!Entered(kind)) \in Nat
      /\ IF kind = "normal"
         THEN open /\ Cardinality(Ledger!Entered(kind)) < MaxCalls - CleanupCalls
         ELSE ~open /\ Cardinality(Ledger!Entered(kind)) < CleanupCalls
  BY <1>1, PartsFinite, SameCardinality DEF Ledger!Enter, Ledger!Entered
<1>7. Cardinality(Ledger!Active') <= MaxConcurrency
  BY <1>4 DEF LedgerInv
<1>8. CASE kind = "normal"
  <2>1. Ledger!Entered("cleanup")' = Ledger!Entered("cleanup")
    BY <1>4, <1>8 DEF Ledger!Kinds
  <2>2. /\ Cardinality(Ledger!Entered("cleanup")') <= CleanupCalls
        /\ open' => Ledger!Entered("cleanup")' = {}
    BY <1>1, <2>1 DEF LedgerInv
  <2>3. Cardinality(Ledger!Entered("normal")') <= MaxCalls - CleanupCalls
    BY <1>5, <1>6, <1>8, LimitsAccepted
  <2>4. open' \in BOOLEAN
    BY <1>1, Zenon DEF LedgerInv
  <2> QED BY <1>3, <1>7, <2>2, <2>3, <2>4 DEF LedgerInv
<1>9. CASE kind = "cleanup"
  <2>1. Ledger!Entered("normal")' = Ledger!Entered("normal")
    BY <1>4, <1>9 DEF Ledger!Kinds
  <2>2. Cardinality(Ledger!Entered("normal")') <= MaxCalls - CleanupCalls
    BY <2>1 DEF LedgerInv
  <2>3. Cardinality(Ledger!Entered("cleanup")') <= CleanupCalls /\ ~open'
    BY <1>1, <1>5, <1>6, <1>9, LimitsAccepted
  <2>4. open' \in BOOLEAN
    BY <1>1, Zenon DEF LedgerInv
  <2> QED BY <1>3, <1>7, <2>2, <2>3, <2>4 DEF LedgerInv
<1> QED BY <1>8, <1>9 DEF Ledger!Kinds

LEMMA StatusKeepsLedger ==
  ASSUME LedgerInv, NEW i \in DOMAIN entries,
         NEW s \in {"active"} \cup Ledger!Dispositions,
         entries' = [entries EXCEPT ![i].status = s], open' = open,
         s = "active" => Cardinality(Ledger!Active) < MaxConcurrency
  PROVE  LedgerInv'
<1>1. /\ entries \in Seq(Entry) /\ entries' \in Seq(Entry) /\ DOMAIN entries' = DOMAIN entries
      /\ \A j \in DOMAIN entries : j # i => entries'[j] = entries[j]
      /\ entries'[i].status = s
  BY ChangedEntry DEF LedgerInv
<1>2. entries'[i].kind = entries[i].kind
  <2>1. entries[i] \in Entry
    BY <1>1
  <2> QED BY <2>1 DEF Entry, LedgerInv
<1>3. \A k : Ledger!Entered(k)' = Ledger!Entered(k)
  BY <1>1, <1>2 DEF Ledger!Entered
<1>4. IsFiniteSet(Ledger!Active) /\ Cardinality(Ledger!Active) \in Nat
  BY <1>1, PartsFinite DEF Ledger!Active
<1>5. CASE s = "active"
  <2>1. Ledger!Active' = Ledger!Active \cup {i}
    BY <1>1, <1>5 DEF Ledger!Active
  <2>2. Cardinality(Ledger!Active') <= Cardinality(Ledger!Active) + 1
    BY <1>4, <2>1, FS_AddElement
  <2>3. Cardinality(Ledger!Active') \in Nat
    BY <1>4, <2>1, FS_AddElement, FS_CardinalityType
  <2> QED BY <1>1, <1>3, <1>4, <1>5, <2>2, <2>3, LimitsAccepted DEF LedgerInv
<1>6. CASE s # "active"
  <2>1. Ledger!Active' \in SUBSET Ledger!Active
    BY <1>1, <1>6 DEF Ledger!Active
  <2>2. Cardinality(Ledger!Active') <= Cardinality(Ledger!Active) /\ Cardinality(Ledger!Active') \in Nat
    BY <1>4, <2>1, FS_Subset, FS_CardinalityType
  <2> QED BY <1>1, <1>3, <1>4, <2>2, LimitsAccepted DEF LedgerInv
<1> QED BY <1>5, <1>6

LEMMA LedgerInductive == LedgerInv /\ [Ledger!Next]_(Ledger!ledgerVars) => LedgerInv'
<1> SUFFICES ASSUME LedgerInv, [Ledger!Next]_(Ledger!ledgerVars) PROVE LedgerInv'
  OBVIOUS
<1>1. ASSUME NEW kind \in Ledger!Kinds, Ledger!Enter(kind) PROVE LedgerInv'
  BY <1>1, EnterKeepsLedger
<1>2. ASSUME NEW i \in DOMAIN entries, Ledger!Activate(i) PROVE LedgerInv'
  BY <1>2, StatusKeepsLedger, SameCardinality DEF Ledger!Activate
<1>3. ASSUME NEW i \in DOMAIN entries, NEW d \in Ledger!Dispositions, Ledger!Settle(i, d)
      PROVE  LedgerInv'
  BY <1>3, StatusKeepsLedger DEF Ledger!Settle, Ledger!Dispositions
<1>4. CASE Ledger!Close \/ UNCHANGED Ledger!ledgerVars
  <2>1. entries' = entries /\ (open' = FALSE \/ open' = open)
    BY <1>4 DEF Ledger!Close, Ledger!ledgerVars
  <2>2. open' \in BOOLEAN /\ (open' => open)
    <3>1. open \in BOOLEAN
      BY DEF LedgerInv
    <3>2. CASE open' = FALSE
      BY <3>2
    <3>3. CASE open' = open
      BY <3>1, <3>3
    <3> QED BY <2>1, <3>2, <3>3
  <2> QED BY <2>1, <2>2 DEF LedgerInv, Ledger!Entered, Ledger!Active
<1> QED BY <1>1, <1>2, <1>3, <1>4 DEF Ledger!Next

(* Every ledger keeps its allowances and the concurrency of the plan.      *)
THEOREM LedgersAreLimited == Ledger!Spec => []LedgerInv
<1>1. Ledger!Init => LedgerInv
  <2> SUFFICES ASSUME Ledger!Init PROVE LedgerInv
    OBVIOUS
  <2>1. entries = <<>> /\ open = TRUE
    BY DEF Ledger!Init
  <2>2. entries \in Seq(Entry) /\ DOMAIN entries = {}
    BY <2>1
  <2>3. Ledger!Entered("normal") = {} /\ Ledger!Entered("cleanup") = {} /\ Ledger!Active = {}
    BY <2>2 DEF Ledger!Entered, Ledger!Active
  <2>4. Cardinality({}) = 0
    BY FS_EmptySet
  <2>5. 0 <= MaxCalls - CleanupCalls /\ 0 <= CleanupCalls /\ 0 <= MaxConcurrency
    BY LimitsAccepted
  <2> QED BY <2>1, <2>2, <2>3, <2>4, <2>5 DEF LedgerInv
<1> QED BY <1>1, LedgerInductive, PTL DEF Ledger!Spec

(* What the ledger promises holds of the calls the proxy makes: the        *)
(* clients together never spend a cleanup call or exceed the concurrency.  *)
THEOREM ProxyCallsAreLimited == Spec => []LedgerInv
BY ProxyKeepsTheLedger, LedgersAreLimited, PTL

(* What a ledger has settled stays as it is, under its number.             *)
SettledAreFinal ==
  \A i \in DOMAIN entries :
    entries[i].status \in Ledger!Dispositions =>
      i \in DOMAIN entries' /\ entries'[i] = entries[i]

LEMMA LedgerStepIsFinal ==
  ASSUME LedgerInv, [Ledger!Next]_(Ledger!ledgerVars)
  PROVE  SettledAreFinal
<1>0. entries \in Seq(Entry)
  BY DEF LedgerInv
<1>1. ASSUME NEW kind \in Ledger!Kinds, Ledger!Enter(kind) PROVE SettledAreFinal
  BY <1>0, <1>1 DEF Ledger!Enter, SettledAreFinal
<1>2. ASSUME NEW i \in DOMAIN entries, NEW s \in {"active"} \cup Ledger!Dispositions,
             entries[i].status \in {"waiting", "active"},
             entries' = [entries EXCEPT ![i].status = s]
      PROVE  SettledAreFinal
  BY <1>0, <1>2 DEF SettledAreFinal, Ledger!Dispositions
<1>3. ASSUME NEW i \in DOMAIN entries, Ledger!Activate(i) PROVE SettledAreFinal
  BY <1>2, <1>3 DEF Ledger!Activate
<1>4. ASSUME NEW i \in DOMAIN entries, NEW d \in Ledger!Dispositions, Ledger!Settle(i, d)
      PROVE  SettledAreFinal
  <2>1. /\ entries[i].status \in {"waiting", "active"}
        /\ entries' = [entries EXCEPT ![i].status = d]
    BY <1>4 DEF Ledger!Settle
  <2>2. d \in {"active"} \cup Ledger!Dispositions
    OBVIOUS
  <2> QED BY <1>2, <2>1, <2>2
<1>5. CASE Ledger!Close \/ UNCHANGED Ledger!ledgerVars
  BY <1>5 DEF Ledger!Close, Ledger!ledgerVars, SettledAreFinal
<1> QED BY <1>1, <1>3, <1>4, <1>5 DEF Ledger!Next

(* A call of the proxy is settled once: no timeout, dropped stream or late *)
(* answer changes what another of them has recorded.                       *)
THEOREM ProxyCallsSettleOnce == Spec => [][SettledAreFinal]_(Ledger!ledgerVars)
<1>1. LedgerInv /\ [Ledger!Next]_(Ledger!ledgerVars) => [SettledAreFinal]_(Ledger!ledgerVars)
  BY LedgerStepIsFinal
<1> QED BY <1>1, ProxyKeepsTheLedger, LedgersAreLimited, PTL DEF Ledger!Spec
===============================================================================
