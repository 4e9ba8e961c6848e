-------------------------- MODULE PermitBrokerProofs --------------------------
(***************************************************************************)
(* What holds of the broker for any finite number of clients and for any   *)
(* limits and host: every call in flight has one handler that owns it,     *)
(* clients call under such a call, what they report is recorded, and       *)
(* clients that take turns never exceed the connections there are.         *)
(***************************************************************************)
EXTENDS PermitBroker, FiniteSetTheorems, FunctionTheorems, TLAPS

Entry == [kind : Ledger!Kinds, status : Ledger!Dispositions \cup {"active", "waiting"}]
Holding == {"granting", "completion"}
Engaged == {"request", "reserving", "granting", "completion", "acking"}
Stopped == killed \/ cancelled \/ expired \/ stopping

TypeInv ==
  /\ entries \in Seq(Entry)
  /\ open \in BOOLEAN /\ cancelled \in BOOLEAN /\ expired \in BOOLEAN
  /\ stopping \in BOOLEAN /\ errors \in BOOLEAN /\ killed \in BOOLEAN
  /\ broker \in {"serving", "draining", "stopped", "failed"}
  /\ backlog \subseteq Clients
  /\ place \in [Clients -> {"idle", "asked", "calling", "completing", "done", "gone"}]
  /\ reported \in [Clients -> Answers \cup {None}]
  /\ handler \in [Slots -> [place : Places, client : Clients \cup {None}, call : Nat]]

(* Where a handler stands says where its client and its call do.           *)
HandlerInv(h) ==
  /\ handler[h].place = "free" => handler[h] = Free
  /\ handler[h].place # "free" => handler[h].client \in Clients
  /\ handler[h].call # 0 => handler[h].call \in DOMAIN entries
  /\ handler[h].place = "request" => handler[h].call = 0
  /\ handler[h].place \in Holding =>
       handler[h].call # 0 /\ entries[handler[h].call].status = "active"
  /\ handler[h].place = "reserving" /\ handler[h].call # 0 =>
       entries[handler[h].call].status = "waiting"
  /\ handler[h].place \in {"request", "reserving", "granting"} =>
       place[handler[h].client] = "asked"
  /\ handler[h].place = "completion" =>
       \/ place[handler[h].client] = "calling"
       \/ place[handler[h].client] = "completing" /\ reported[handler[h].client] \in Answers
  /\ handler[h].place = "acking" =>
       /\ place[handler[h].client] = "completing" /\ handler[h].call # 0
       /\ entries[handler[h].call].status = reported[handler[h].client]
  /\ handler[h].place \in {"returning", "failing"} /\ handler[h].call # 0 =>
       entries[handler[h].call].status # "active"
  /\ handler[h].place = "failing" => Stopped

(* Handlers share neither calls nor clients, ...                           *)
CallsInv ==
  /\ \A g, h \in Slots : g # h /\ handler[g].call # 0 => handler[g].call # handler[h].call
  /\ \A i \in Ledger!Active :
       \E h \in Slots : handler[h].call = i /\ handler[h].place \in Holding
ClientsInv ==
  /\ \A g, h \in Slots : /\ g # h
                         /\ handler[g].place \in Engaged /\ handler[h].place \in Engaged
                         => handler[g].client # handler[h].client
  /\ \A c \in backlog : /\ place[c] = "asked"
                        /\ \A h \in Slots : handler[h].place \in Engaged =>
                                              handler[h].client # c

(* ... and the broker ends for good reasons, with nothing left when it was *)
(* stopped.                                                                *)
LoopInv ==
  /\ errors => Stopped
  /\ broker = "stopped" => backlog = {} /\ \A h \in Slots : handler[h] = Free
  /\ OrderlyClientsAreServed

IInv ==
  /\ TypeInv /\ CallsInv /\ ClientsInv /\ LoopInv
  /\ \A h \in Slots : HandlerInv(h)

LEMMA LimitTypes == ConnectionLimit \in Nat /\ Workers \in Nat /\ Workers # 0
BY LimitsAccepted DEF ConnectionLimit, Workers, Lesser, Reserved

LEMMA FreeType ==
  /\ Free \in [place : Places, client : Clients \cup {None}, call : Nat]
  /\ Free.place = "free" /\ Free.call = 0
BY DEF Free, Places

-----------------------------------------------------------------------------
(* The ledger                                                              *)

LEMMA EnteredEntry ==
  ASSUME entries \in Seq(Entry), Ledger!Enter("normal")
  PROVE  /\ entries' \in Seq(Entry) /\ DOMAIN entries \subseteq DOMAIN entries'
         /\ Len(entries) + 1 \in DOMAIN entries' /\ Len(entries) + 1 \notin DOMAIN entries
         /\ Len(entries) + 1 \in Nat /\ Len(entries) + 1 # 0
         /\ \A i \in DOMAIN entries : entries'[i] = entries[i]
         /\ entries'[Len(entries) + 1].status = "waiting"
         /\ \A i \in DOMAIN entries' : i \in DOMAIN entries \/ i = Len(entries) + 1
         /\ open' = open
<1>1. entries' = Append(entries, [kind |-> "normal", status |-> "waiting"]) /\ open' = open
  BY DEF Ledger!Enter
<1>2. [kind |-> "normal", status |-> "waiting"] \in Entry
  BY DEF Entry, Ledger!Kinds
<1> QED BY <1>1, <1>2

LEMMA ChangedEntry ==
  ASSUME entries \in Seq(Entry), NEW i \in DOMAIN entries,
         NEW s \in Ledger!Dispositions \cup {"active", "waiting"},
         entries' = [entries EXCEPT ![i].status = s]
  PROVE  /\ entries' \in Seq(Entry) /\ DOMAIN entries' = DOMAIN entries
         /\ \A j \in DOMAIN entries : j # i => entries'[j] = entries[j]
         /\ entries'[i].status = s
<1>1. \A j \in DOMAIN entries : entries[j] \in Entry
  OBVIOUS
<1>2. entries' \in [1..Len(entries) -> Entry]
  BY <1>1 DEF Entry
<1> QED BY <1>1, <1>2 DEF Entry

-----------------------------------------------------------------------------
(* Steps of one handler                                                    *)

(* What a handler's step does: its place, its call, its client and its     *)
(* entry; nothing that the others stand on.                                *)
Aside(h) ==
  /\ \A g \in Slots \ {h} : handler'[g] = handler[g]
  /\ \A i \in DOMAIN entries : i \in DOMAIN entries'
  /\ \A i \in DOMAIN entries : i # handler[h].call => entries'[i] = entries[i]
  /\ \A c \in Clients : \/ place'[c] = place[c]
                        \/ handler[h].place \in Engaged /\ c = handler[h].client
  /\ Stopped => Stopped'
  /\ reported' = reported

LEMMA OthersKeep ==
  ASSUME IInv, NEW h \in Slots, Aside(h), NEW g \in Slots, g # h
  PROVE  HandlerInv(g)'
<1>1. HandlerInv(g) /\ handler'[g] = handler[g] /\ reported' = reported /\ (Stopped => Stopped')
  BY DEF IInv, Aside
<1>2. ASSUME handler[g].call # 0
      PROVE  /\ handler[g].call \in DOMAIN entries'
             /\ entries'[handler[g].call] = entries[handler[g].call]
  BY <1>1, <1>2 DEF Aside, HandlerInv, IInv, CallsInv
<1>3. ASSUME handler[g].place \in Engaged
      PROVE  place'[handler[g].client] = place[handler[g].client]
  <2>1. handler[g].client \in Clients
    BY <1>1, <1>3 DEF HandlerInv, Engaged
  <2> QED BY <1>3, <2>1 DEF Aside, IInv, ClientsInv
<1> HIDE DEF Stopped
<1> QED BY <1>1, <1>2, <1>3 DEF HandlerInv, Engaged, Holding

LEMMA HandlerStep ==
  ASSUME IInv, NEW h \in Slots, Aside(h), HandlerInv(h)', TypeInv', CallsInv', ClientsInv',
         LoopInv'
  PROVE  IInv'
<1>1. \A g \in Slots : HandlerInv(g)'
  BY OthersKeep
<1> QED BY <1>1 DEF IInv

(* No handler begins to serve, and its call stays or is given back.        *)
LEMMA CallsKept ==
  ASSUME IInv, NEW h \in Slots, \A g \in Slots \ {h} : handler'[g] = handler[g],
         handler'[h].call \in {0, handler[h].call},
         DOMAIN entries' = DOMAIN entries,
         \A i \in DOMAIN entries : i # handler[h].call => entries'[i] = entries[i],
         handler[h].call \in DOMAIN entries /\ entries'[handler[h].call].status = "active" =>
           handler'[h].place \in Holding /\ handler'[h].call = handler[h].call
  PROVE  CallsInv'
<1>1. \A g, f \in Slots : g # f /\ handler'[g].call # 0 => handler'[g].call # handler'[f].call
  BY DEF IInv, CallsInv
<1>2. ASSUME NEW i \in DOMAIN entries', entries'[i].status = "active"
      PROVE  \E g \in Slots : handler'[g].call = i /\ handler'[g].place \in Holding
  <2>1. CASE i = handler[h].call
    BY <1>2, <2>1
  <2>2. CASE i # handler[h].call
    <3>1. i \in Ledger!Active
      BY <1>2, <2>2 DEF Ledger!Active
    <3>2. PICK g \in Slots : handler[g].call = i /\ handler[g].place \in Holding
      BY <3>1 DEF IInv, CallsInv
    <3> QED BY <2>2, <3>2
  <2> QED BY <2>1, <2>2
<1> QED BY <1>1, <1>2 DEF CallsInv, Ledger!Active

LEMMA ClientsKept ==
  ASSUME IInv, NEW h \in Slots, Aside(h), backlog' = backlog,
         handler'[h].place \in Engaged =>
           handler[h].place \in Engaged /\ handler'[h].client = handler[h].client
  PROVE  ClientsInv'
<1>1. \A g \in Slots : handler'[g].place \in Engaged =>
        handler[g].place \in Engaged /\ handler'[g].client = handler[g].client
  BY DEF Aside
<1>2. \A c \in backlog : c \in Clients /\ (handler[h].place \in Engaged => c # handler[h].client)
  BY DEF IInv, TypeInv, ClientsInv
<1> QED BY <1>1, <1>2 DEF IInv, ClientsInv, Aside

LEMMA LoopKept ==
  ASSUME IInv, NEW h \in Slots, handler[h] # Free, broker' = broker, Stopped => Stopped',
         errors' => errors \/ Stopped'
  PROVE  LoopInv'
<1> HIDE DEF Stopped
<1>1. errors' => Stopped'
  BY DEF IInv, LoopInv
<1>2. broker' # "stopped"
  BY DEF IInv, LoopInv
<1>3. OrderlyClientsAreServed'
  BY DEF IInv, LoopInv, OrderlyClientsAreServed, Stopped
<1> QED BY <1>1, <1>2, <1>3 DEF LoopInv

LEMMA MoveType ==
  ASSUME TypeInv, NEW h \in Slots, NEW to \in Places, Move(h, to)
  PROVE  /\ handler' \in [Slots -> [place : Places, client : Clients \cup {None}, call : Nat]]
         /\ handler'[h].place = to
         /\ handler'[h].client = handler[h].client /\ handler'[h].call = handler[h].call
         /\ \A g \in Slots \ {h} : handler'[g] = handler[g]
BY DEF TypeInv, Move

LEMMA StandsType ==
  ASSUME TypeInv, NEW c \in Clients, Stands(c, "done") \/ Stands(c, "calling") \/ Stands(c, "idle")
  PROVE  /\ place' \in [Clients -> {"idle", "asked", "calling", "completing", "done", "gone"}]
         /\ \A d \in Clients : d = c \/ place'[d] = place[d]
BY DEF TypeInv, Stands

(* A handler is done with its client and with its call.                    *)
LEMMA EndStep ==
  ASSUME IInv, NEW h \in Slots, handler[h].place \in Engaged,
         \/ entries' = entries /\ handler[h].place \notin Holding
         \/ /\ handler[h].call # 0
            /\ \E d \in Ledger!Dispositions :
                 entries' = [entries EXCEPT ![handler[h].call].status = d],
         \/ Drop(h)
         \/ Move(h, "returning")
         \/ Move(h, "failing") /\ Stopped,
         \/ place' = place
         \/ \E to \in {"done", "calling", "idle"} : Stands(handler[h].client, to),
         UNCHANGED <<open, budget, loop, backlog, killed, reported>>
  PROVE  IInv'
<1>0. /\ HandlerInv(h) /\ handler[h].client \in Clients
      /\ UNCHANGED Stopped
  BY DEF IInv, HandlerInv, Engaged, Stopped, budget, loop
<1>1. /\ entries' \in Seq(Entry) /\ DOMAIN entries' = DOMAIN entries
      /\ \A i \in DOMAIN entries : i # handler[h].call => entries'[i] = entries[i]
      /\ handler[h].call \in DOMAIN entries => entries'[handler[h].call].status # "active"
  <2>1. CASE entries' = entries /\ handler[h].place \notin Holding
    <3>1. ASSUME handler[h].call \in DOMAIN entries
          PROVE  entries[handler[h].call].status # "active"
      <4>1. handler[h].call # 0
        BY <3>1 DEF IInv, TypeInv
      <4>2. CASE handler[h].place = "acking"
        <5>1. reported[handler[h].client] # "active"
          BY <1>0, LimitsAccepted DEF IInv, TypeInv, None
        <5> QED BY <1>0, <4>2, <5>1 DEF HandlerInv
      <4>3. CASE handler[h].place \in {"request", "reserving"}
        BY <1>0, <4>1, <4>3 DEF HandlerInv
      <4> QED BY <2>1, <4>2, <4>3 DEF Engaged, Holding
    <3> QED BY <2>1, <3>1 DEF IInv, TypeInv
  <2>2. ASSUME handler[h].call # 0, NEW d \in Ledger!Dispositions,
               entries' = [entries EXCEPT ![handler[h].call].status = d]
        PROVE  /\ entries' \in Seq(Entry) /\ DOMAIN entries' = DOMAIN entries
               /\ \A i \in DOMAIN entries : i # handler[h].call => entries'[i] = entries[i]
               /\ entries'[handler[h].call].status # "active"
    BY <1>0, <2>2, ChangedEntry DEF HandlerInv, IInv, TypeInv, Ledger!Dispositions
  <2> QED BY <2>1, <2>2
<1>2. /\ handler' \in [Slots -> [place : Places, client : Clients \cup {None}, call : Nat]]
      /\ \A g \in Slots \ {h} : handler'[g] = handler[g]
      /\ \/ handler'[h] = Free
         \/ /\ handler'[h].place \in {"returning", "failing"}
            /\ handler'[h].client = handler[h].client /\ handler'[h].call = handler[h].call
            /\ handler'[h].place = "failing" => Stopped
  <2>1. CASE Drop(h)
    BY <2>1, FreeType DEF Drop, IInv, TypeInv
  <2>2. CASE Move(h, "returning")
    BY <2>2, MoveType DEF IInv, Places
  <2>3. CASE Move(h, "failing") /\ Stopped
    BY <2>3, MoveType DEF IInv, Places
  <2> QED BY <2>1, <2>2, <2>3
<1>3. /\ place' \in [Clients -> {"idle", "asked", "calling", "completing", "done", "gone"}]
      /\ \A d \in Clients : d = handler[h].client \/ place'[d] = place[d]
  BY <1>0, StandsType DEF IInv, TypeInv
<1>4. TypeInv'
  BY <1>1, <1>2, <1>3 DEF IInv, TypeInv, budget, loop
<1>5. Aside(h)
  BY <1>0, <1>1, <1>2, <1>3 DEF Aside
<1>6. HandlerInv(h)'
  <2>1. CASE handler'[h] = Free
    BY <2>1, FreeType DEF HandlerInv, Holding
  <2>2. CASE handler'[h].place \in {"returning", "failing"}
    BY <1>0, <1>1, <1>2, <2>2, FreeType DEF HandlerInv, Holding
  <2> QED BY <1>2, <2>1, <2>2
<1>7. CallsInv'
  BY <1>1, <1>2, CallsKept, FreeType
<1>8. ClientsInv'
  BY <1>2, <1>5, ClientsKept, FreeType DEF Engaged
<1>9. LoopInv'
  BY <1>0, LoopKept, FreeType DEF loop, Engaged
<1> QED BY <1>4, <1>5, <1>6, <1>7, <1>8, <1>9, HandlerStep

LEMMA DroppedPermit ==
  ASSUME IInv, NEW h \in Slots, handler[h].place \in Engaged, DropPermit(h)
  PROVE  /\ \/ entries' = entries /\ handler[h].place \notin Holding
            \/ /\ handler[h].call # 0
               /\ \E d \in Ledger!Dispositions :
                    entries' = [entries EXCEPT ![handler[h].call].status = d]
         /\ open' = open
<1>1. CASE handler[h].place \in Holding
  <2>1. handler[h].call # 0
    BY <1>1 DEF IInv, HandlerInv
  <2>2. PICK d \in Ledger!Dispositions : Ledger!Settle(handler[h].call, d)
    BY <1>1 DEF DropPermit, Holding, Ledger!Dispositions
  <2> QED BY <2>1, <2>2 DEF Ledger!Settle
<1>2. CASE handler[h].place \notin Holding
  BY <1>2 DEF DropPermit, Holding
<1> QED BY <1>1, <1>2

(* All the ways in which a connection ends.                                *)
LEMMA EndingSteps ==
  ASSUME IInv, NEW h \in Slots,
         \/ Deny(h) \/ Acknowledge(h) \/ Break(h) \/ AbortHandler(h) \/ (Grant(h) /\ killed)
  PROVE  IInv'
<1> USE DEF Engaged
<1>1. CASE Deny(h)
  <2>1. \/ entries' = entries /\ handler[h].place \notin Holding
        \/ /\ handler[h].call # 0
           /\ \E d \in Ledger!Dispositions :
                entries' = [entries EXCEPT ![handler[h].call].status = d]
    BY <1>1 DEF Deny, Ledger!Settle, Ledger!Dispositions, Holding
  <2>2. open' = open
    BY <1>1 DEF Deny, Ledger!Settle
  <2>3. \/ Move(h, "failing") /\ killed /\ place' = place
        \/ Move(h, "returning") /\ Stands(handler[h].client, "done")
    BY <1>1 DEF Deny, Answer
  <2> QED BY <1>1, <2>1, <2>2, <2>3, EndStep DEF Deny, Stopped
<1>2. CASE Acknowledge(h)
  <2>1. \/ Move(h, "failing") /\ killed /\ place' = place
        \/ Move(h, "returning") /\ Stands(handler[h].client, "idle")
    BY <1>2 DEF Acknowledge, Answer
  <2> QED BY <1>2, <2>1, EndStep DEF Acknowledge, Stopped, Holding, calls
<1>3. CASE Break(h)
  <2>1. handler[h].place \in Engaged /\ Stopped /\ DropPermit(h) /\ Move(h, "failing")
    BY <1>3 DEF Break, Stopped
  <2> QED BY <1>3, <2>1, DroppedPermit, EndStep DEF Break, harness
<1>4. CASE AbortHandler(h)
  <2>1. handler[h].place \in Engaged /\ DropPermit(h) /\ Drop(h)
    BY <1>4 DEF AbortHandler
  <2> QED BY <1>4, <2>1, DroppedPermit, EndStep DEF AbortHandler, harness
<1>5. CASE Grant(h) /\ killed
  <2>1. handler[h].place \in Engaged /\ DropPermit(h) /\ Move(h, "failing") /\ place' = place
    BY <1>5 DEF Grant, Answer
  <2> QED BY <1>5, <2>1, DroppedPermit, EndStep DEF Grant, Stopped
<1> QED BY <1>1, <1>2, <1>3, <1>4, <1>5

LEMMA ReturnStep ==
  ASSUME IInv, NEW h \in Slots, Return(h)
  PROVE  IInv'
<1>1. /\ handler[h].place \in {"returning", "failing"}
      /\ UNCHANGED <<calls, budget, broker, stopping, backlog, harness>>
      /\ handler' = [handler EXCEPT ![h] = Free]
      /\ errors' = (errors \/ handler[h].place = "failing")
  BY DEF Return, Drop
<1>2. HandlerInv(h) /\ UNCHANGED Stopped
  BY <1>1 DEF IInv, budget, harness, Stopped
<1>3. errors' \in BOOLEAN /\ (errors' => errors \/ Stopped)
  BY <1>1, <1>2 DEF HandlerInv, IInv, TypeInv
<1>4. TypeInv'
  BY <1>1, <1>3, FreeType DEF IInv, TypeInv, calls, budget, harness
<1>5. Aside(h)
  BY <1>1, <1>2 DEF Aside, calls, harness, IInv, TypeInv
<1>6. HandlerInv(h)' /\ handler'[h] = Free
  <2>1. handler'[h] = Free
    BY <1>1 DEF IInv, TypeInv
  <2> QED BY <2>1, FreeType DEF HandlerInv, Holding
<1>7. CallsInv'
  <2>1. ASSUME handler[h].call \in DOMAIN entries
        PROVE  entries[handler[h].call].status # "active"
    <3>1. handler[h].call # 0
      BY <2>1 DEF IInv, TypeInv
    <3> QED BY <1>1, <1>2, <3>1 DEF HandlerInv
  <2> QED BY <1>1, <1>5, <1>6, <2>1, CallsKept, FreeType DEF Aside, calls
<1>8. ClientsInv'
  BY <1>1, <1>5, <1>6, ClientsKept, FreeType DEF Engaged
<1>9. LoopInv'
  BY <1>1, <1>2, <1>3, LoopKept, FreeType
<1> QED BY <1>4, <1>5, <1>6, <1>7, <1>8, <1>9, HandlerStep

(* A call gets its number, is admitted, granted and reported.              *)
LEMMA ReadStep ==
  ASSUME IInv, NEW h \in Slots, ReadRequest(h)
  PROVE  IInv'
<1>1. /\ handler[h].place = "request" /\ Move(h, "reserving")
      /\ UNCHANGED <<calls, budget, loop, backlog, harness>>
  BY DEF ReadRequest
<1>2. HandlerInv(h) /\ UNCHANGED Stopped /\ handler[h].call = 0
  BY <1>1 DEF IInv, HandlerInv, budget, loop, harness, Stopped
<1>3. /\ handler' \in [Slots -> [place : Places, client : Clients \cup {None}, call : Nat]]
      /\ handler'[h].place = "reserving"
      /\ handler'[h].client = handler[h].client /\ handler'[h].call = handler[h].call
      /\ \A g \in Slots \ {h} : handler'[g] = handler[g]
  BY <1>1, MoveType DEF IInv, Places
<1>4. TypeInv'
  BY <1>1, <1>3 DEF IInv, TypeInv, calls, budget, loop, harness
<1>5. Aside(h)
  BY <1>1, <1>2, <1>3 DEF Aside, calls, harness
<1>6. HandlerInv(h)'
  BY <1>1, <1>2, <1>3 DEF HandlerInv, Holding, calls, harness
<1>7. CallsInv'
  <2>1. handler[h].call \notin DOMAIN entries
    BY <1>2 DEF IInv, TypeInv
  <2> QED BY <1>1, <1>3, <2>1, CallsKept DEF calls
<1>8. ClientsInv' /\ LoopInv'
  BY <1>1, <1>2, <1>3, <1>5, ClientsKept, LoopKept, FreeType DEF Engaged, loop
<1> QED BY <1>4, <1>5, <1>6, <1>7, <1>8, HandlerStep

LEMMA EnterStep ==
  ASSUME IInv, NEW h \in Slots, Enter(h)
  PROVE  IInv'
<1> DEFINE n == Len(entries) + 1
<1>1. /\ handler[h].place = "reserving" /\ handler[h].call = 0 /\ Ledger!Enter("normal")
      /\ handler' = [handler EXCEPT ![h].call = n]
      /\ UNCHANGED <<budget, loop, backlog, harness>>
  BY DEF Enter
<1>2. HandlerInv(h) /\ UNCHANGED Stopped
  BY <1>1 DEF IInv, budget, loop, harness, Stopped
<1>3. /\ entries' \in Seq(Entry) /\ DOMAIN entries \subseteq DOMAIN entries'
      /\ n \in DOMAIN entries' /\ n \notin DOMAIN entries /\ n \in Nat /\ n # 0
      /\ \A i \in DOMAIN entries : entries'[i] = entries[i]
      /\ entries'[n].status = "waiting"
      /\ \A i \in DOMAIN entries' : i \in DOMAIN entries \/ i = n
      /\ open' = open
  BY <1>1, EnteredEntry DEF IInv, TypeInv
<1> HIDE DEF n
<1>4. /\ handler' \in [Slots -> [place : Places, client : Clients \cup {None}, call : Nat]]
      /\ handler'[h].place = "reserving" /\ handler'[h].client = handler[h].client
      /\ handler'[h].call = n /\ \A g \in Slots \ {h} : handler'[g] = handler[g]
  BY <1>1, <1>3 DEF IInv, TypeInv
<1>5. TypeInv'
  BY <1>1, <1>3, <1>4 DEF IInv, TypeInv, budget, loop, harness
<1>6. Aside(h)
  BY <1>1, <1>2, <1>3, <1>4 DEF Aside, harness
<1>7. HandlerInv(h)'
  BY <1>1, <1>2, <1>3, <1>4 DEF HandlerInv, Holding, harness
<1>8. CallsInv'
  <2>1. \A g \in Slots : handler[g].call # n
    <3>1. \A g \in Slots : HandlerInv(g)
      BY DEF IInv
    <3> QED BY <1>3, <3>1 DEF HandlerInv
  <2>2. \A g, f \in Slots : g # f /\ handler'[g].call # 0 => handler'[g].call # handler'[f].call
    BY <1>3, <1>4, <2>1 DEF IInv, CallsInv
  <2>3. ASSUME NEW i \in DOMAIN entries', entries'[i].status = "active"
        PROVE  \E g \in Slots : handler'[g].call = i /\ handler'[g].place \in Holding
    <3>1. i \in Ledger!Active
      BY <1>3, <2>3 DEF Ledger!Active
    <3>2. PICK g \in Slots : handler[g].call = i /\ handler[g].place \in Holding
      BY <3>1 DEF IInv, CallsInv
    <3> QED BY <1>1, <1>4, <3>2 DEF Holding
  <2> QED BY <2>2, <2>3 DEF CallsInv, Ledger!Active
<1>9. ClientsInv' /\ LoopInv'
  BY <1>1, <1>2, <1>4, <1>6, ClientsKept, LoopKept, FreeType DEF Engaged, loop
<1> QED BY <1>5, <1>6, <1>7, <1>8, <1>9, HandlerStep

LEMMA ActivateStep ==
  ASSUME IInv, NEW h \in Slots, Activate(h)
  PROVE  IInv'
<1>1. /\ handler[h].place = "reserving" /\ handler[h].call # 0 /\ Move(h, "granting")
      /\ entries' = [entries EXCEPT ![handler[h].call].status = "active"] /\ open' = open
      /\ UNCHANGED <<budget, loop, backlog, harness>>
  BY DEF Activate, Ledger!Activate
<1>2. HandlerInv(h) /\ UNCHANGED Stopped /\ handler[h].call \in DOMAIN entries
  BY <1>1 DEF IInv, HandlerInv, budget, loop, harness, Stopped
<1>3. /\ handler' \in [Slots -> [place : Places, client : Clients \cup {None}, call : Nat]]
      /\ handler'[h].place = "granting"
      /\ handler'[h].client = handler[h].client /\ handler'[h].call = handler[h].call
      /\ \A g \in Slots \ {h} : handler'[g] = handler[g]
  BY <1>1, MoveType DEF IInv, Places
<1>4. /\ entries' \in Seq(Entry) /\ DOMAIN entries' = DOMAIN entries
      /\ \A j \in DOMAIN entries : j # handler[h].call => entries'[j] = entries[j]
      /\ entries'[handler[h].call].status = "active"
  <2>1. PICK s \in Ledger!Dispositions \cup {"active", "waiting"} : s = "active"
    OBVIOUS
  <2> QED BY <1>1, <1>2, <2>1, ChangedEntry DEF IInv, TypeInv
<1>5. TypeInv'
  BY <1>1, <1>3, <1>4 DEF IInv, TypeInv, budget, loop, harness
<1>6. Aside(h)
  BY <1>1, <1>2, <1>3, <1>4 DEF Aside, harness
<1>7. HandlerInv(h)'
  BY <1>1, <1>2, <1>3, <1>4 DEF HandlerInv, Holding, harness
<1>8. CallsInv'
  BY <1>3, <1>4, CallsKept DEF Holding
<1>9. ClientsInv' /\ LoopInv'
  BY <1>1, <1>2, <1>3, <1>6, ClientsKept, LoopKept, FreeType DEF Engaged, loop
<1> QED BY <1>5, <1>6, <1>7, <1>8, <1>9, HandlerStep

LEMMA GrantStep ==
  ASSUME IInv, NEW h \in Slots, Grant(h), ~killed
  PROVE  IInv'
<1>1. /\ handler[h].place = "granting" /\ Move(h, "completion")
      /\ Stands(handler[h].client, "calling")
      /\ UNCHANGED <<entries, open, budget, loop, backlog, killed, reported>>
  BY DEF Grant, Answer
<1>2. HandlerInv(h) /\ UNCHANGED Stopped /\ handler[h].client \in Clients
  BY <1>1 DEF IInv, HandlerInv, budget, loop, Stopped
<1>3. /\ handler' \in [Slots -> [place : Places, client : Clients \cup {None}, call : Nat]]
      /\ handler'[h].place = "completion"
      /\ handler'[h].client = handler[h].client /\ handler'[h].call = handler[h].call
      /\ \A g \in Slots \ {h} : handler'[g] = handler[g]
  BY <1>1, MoveType DEF IInv, Places
<1>4. /\ place' \in [Clients -> {"idle", "asked", "calling", "completing", "done", "gone"}]
      /\ \A d \in Clients : d = handler[h].client \/ place'[d] = place[d]
      /\ place'[handler[h].client] = "calling"
  BY <1>1, <1>2, StandsType DEF IInv, TypeInv, Stands
<1>5. TypeInv'
  BY <1>1, <1>3, <1>4 DEF IInv, TypeInv, budget, loop
<1>6. Aside(h)
  BY <1>1, <1>2, <1>3, <1>4 DEF Aside, Engaged
<1>7. HandlerInv(h)'
  BY <1>1, <1>2, <1>3, <1>4 DEF HandlerInv, Holding
<1>8. CallsInv'
  BY <1>1, <1>3, CallsKept DEF Holding
<1>9. ClientsInv' /\ LoopInv'
  BY <1>1, <1>2, <1>3, <1>6, ClientsKept, LoopKept, FreeType DEF Engaged, loop
<1> QED BY <1>5, <1>6, <1>7, <1>8, <1>9, HandlerStep

LEMMA CompleteStep ==
  ASSUME IInv, NEW h \in Slots, Complete(h)
  PROVE  IInv'
<1> DEFINE d == reported[handler[h].client]
<1>1. /\ handler[h].place = "completion" /\ place[handler[h].client] = "completing"
      /\ entries' = [entries EXCEPT ![handler[h].call].status = d] /\ open' = open
      /\ Move(h, "acking") /\ UNCHANGED <<budget, loop, backlog, harness>>
  BY DEF Complete, Ledger!Settle
<1>2. HandlerInv(h) /\ UNCHANGED Stopped /\ handler[h].client \in Clients
      /\ handler[h].call # 0 /\ handler[h].call \in DOMAIN entries /\ d \in Answers
  BY <1>1 DEF IInv, HandlerInv, Holding, budget, loop, harness, Stopped
<1>3. /\ handler' \in [Slots -> [place : Places, client : Clients \cup {None}, call : Nat]]
      /\ handler'[h].place = "acking"
      /\ handler'[h].client = handler[h].client /\ handler'[h].call = handler[h].call
      /\ \A g \in Slots \ {h} : handler'[g] = handler[g]
  BY <1>1, MoveType DEF IInv, Places
<1>4. /\ entries' \in Seq(Entry) /\ DOMAIN entries' = DOMAIN entries
      /\ \A j \in DOMAIN entries : j # handler[h].call => entries'[j] = entries[j]
      /\ entries'[handler[h].call].status = d /\ d # "active"
  <2>1. d \in Ledger!Dispositions /\ d # "active"
    BY <1>2, LimitsAccepted DEF Ledger!Dispositions
  <2> QED BY <1>1, <1>2, <2>1, ChangedEntry DEF IInv, TypeInv
<1>5. TypeInv'
  BY <1>1, <1>3, <1>4 DEF IInv, TypeInv, budget, loop, harness
<1>6. Aside(h)
  BY <1>1, <1>2, <1>3, <1>4 DEF Aside, harness
<1>7. HandlerInv(h)'
  BY <1>1, <1>2, <1>3, <1>4 DEF HandlerInv, Holding, harness
<1>8. CallsInv'
  BY <1>3, <1>4, CallsKept
<1>9. ClientsInv' /\ LoopInv'
  BY <1>1, <1>2, <1>3, <1>6, ClientsKept, LoopKept, FreeType DEF Engaged, loop
<1> QED BY <1>5, <1>6, <1>7, <1>8, <1>9, HandlerStep

-----------------------------------------------------------------------------
(* Steps of the clients                                                    *)

LEMMA LoopSame ==
  ASSUME IInv, broker' = broker, errors' = errors, Stopped => Stopped',
         broker = "stopped" => backlog' = {} /\ handler' = handler
  PROVE  LoopInv'
<1> HIDE DEF Stopped
<1>1. OrderlyClientsAreServed'
  BY DEF IInv, LoopInv, OrderlyClientsAreServed, Stopped
<1> QED BY <1>1 DEF IInv, LoopInv

(* A client with no handler moves on without one.                          *)
LEMMA ClientStep ==
  ASSUME IInv, NEW c \in Clients, UNCHANGED <<entries, handler, reported>>, Stopped => Stopped',
         \A d \in Clients : d # c => place'[d] = place[d],
         \A h \in Slots : handler[h].place \in Engaged => handler[h].client # c
  PROVE  CallsInv' /\ \A h \in Slots : HandlerInv(h)'
<1>1. CallsInv'
  BY DEF IInv, CallsInv, Ledger!Active
<1>2. ASSUME NEW h \in Slots PROVE HandlerInv(h)'
  <2>1. HandlerInv(h)
    BY DEF IInv
  <2>2. ASSUME handler[h].place \in Engaged
        PROVE  place'[handler[h].client] = place[handler[h].client]
    BY <2>1, <2>2 DEF HandlerInv, Engaged
  <2> HIDE DEF Stopped
  <2> QED BY <2>1, <2>2 DEF HandlerInv, Engaged, Holding
<1> QED BY <1>1, <1>2

LEMMA AskStep ==
  ASSUME IInv, NEW c \in Clients, Ask(c)
  PROVE  IInv'
<1>1. /\ place[c] = "idle" /\ UNCHANGED <<calls, budget, loop, killed, reported, handler>>
      /\ UNCHANGED Stopped
  BY DEF Ask, budget, loop, Stopped
<1>2. c \notin backlog /\ \A h \in Slots : handler[h].place \in Engaged => handler[h].client # c
  <2>1. \A h \in Slots : HandlerInv(h)
    BY DEF IInv
  <2> QED BY <1>1, <2>1 DEF IInv, ClientsInv, HandlerInv, Engaged
<1>3. \/ place' = [place EXCEPT ![c] = "asked"] /\ backlog' = backlog \cup {c} /\ Listening
      \/ place' = [place EXCEPT ![c] = "gone"] /\ backlog' = backlog
  BY DEF Ask, Stands
<1>4. TypeInv'
  BY <1>1, <1>3 DEF IInv, TypeInv, calls, budget, loop
<1>5. CallsInv' /\ \A h \in Slots : HandlerInv(h)'
  BY <1>1, <1>2, <1>3, ClientStep DEF calls, IInv, TypeInv
<1>6. ClientsInv'
  BY <1>1, <1>2, <1>3 DEF IInv, ClientsInv, TypeInv
<1>7. LoopInv'
  <2>1. broker = "stopped" => backlog' = {}
    BY <1>3 DEF IInv, LoopInv, Listening
  <2> QED BY <1>1, <2>1, LoopSame DEF loop
<1> QED BY <1>4, <1>5, <1>6, <1>7 DEF IInv

LEMMA LoseStep ==
  ASSUME IInv, NEW c \in Clients, LoseConnection(c)
  PROVE  IInv'
<1>1. /\ place' = [place EXCEPT ![c] = "gone"] /\ ~Connected(c)
      /\ UNCHANGED <<calls, budget, loop, backlog, killed, reported, handler>>
      /\ UNCHANGED Stopped
  BY DEF LoseConnection, budget, loop, Stopped, Stands
<1>2. c \notin backlog /\ \A h \in Slots : handler[h].place \in Engaged => handler[h].client # c
  BY <1>1 DEF Connected, Serves, Engaged
<1>3. TypeInv'
  BY <1>1 DEF IInv, TypeInv, calls, budget, loop
<1>4. CallsInv' /\ \A h \in Slots : HandlerInv(h)'
  BY <1>1, <1>2, ClientStep DEF calls, IInv, TypeInv
<1>5. ClientsInv'
  BY <1>1, <1>2 DEF IInv, ClientsInv, TypeInv
<1>6. LoopInv'
  BY <1>1, LoopSame DEF loop, IInv, LoopInv
<1> QED BY <1>3, <1>4, <1>5, <1>6 DEF IInv

LEMMA ReportStep ==
  ASSUME IInv, NEW c \in Clients, NEW d \in Answers, Report(c, d)
  PROVE  IInv'
<1>1. /\ place[c] = "calling" /\ place' = [place EXCEPT ![c] = "completing"]
      /\ reported' = [reported EXCEPT ![c] = d]
      /\ UNCHANGED <<calls, budget, loop, backlog, killed, handler>>
      /\ UNCHANGED Stopped
  BY DEF Report, budget, loop, Stopped, Stands
<1>2. TypeInv'
  BY <1>1 DEF IInv, TypeInv, calls, budget, loop
<1>3. ASSUME NEW h \in Slots PROVE HandlerInv(h)'
  <2>1. HandlerInv(h)
    BY DEF IInv
  <2>2. CASE handler[h].place \in Engaged /\ handler[h].client = c
    <3>1. handler[h].place = "completion"
      BY <1>1, <2>1, <2>2 DEF HandlerInv, Engaged
    <3>2. place'[c] = "completing" /\ reported'[c] \in Answers
      BY <1>1 DEF IInv, TypeInv
    <3> QED BY <1>1, <2>1, <2>2, <3>1, <3>2 DEF HandlerInv, Holding, calls
  <2>3. CASE handler[h].place \in Engaged /\ handler[h].client # c
    <3>1. /\ handler[h].client \in Clients
          /\ place'[handler[h].client] = place[handler[h].client]
          /\ reported'[handler[h].client] = reported[handler[h].client]
      BY <1>1, <2>1, <2>3 DEF HandlerInv, Engaged, IInv, TypeInv
    <3> HIDE DEF Stopped
    <3> QED BY <1>1, <2>1, <2>3, <3>1 DEF HandlerInv, Holding, calls
  <2>4. CASE handler[h].place \notin Engaged
    <3> HIDE DEF Stopped
    <3> QED BY <1>1, <2>1, <2>4 DEF HandlerInv, Holding, Engaged, calls
  <2> QED BY <2>2, <2>3, <2>4
<1>4. CallsInv'
  BY <1>1 DEF IInv, CallsInv, Ledger!Active, calls
<1>5. ClientsInv'
  BY <1>1 DEF IInv, ClientsInv, TypeInv
<1>6. LoopInv'
  BY <1>1, LoopSame DEF loop, IInv, LoopInv
<1> QED BY <1>2, <1>3, <1>4, <1>5, <1>6 DEF IInv

-----------------------------------------------------------------------------
(* Steps of the accepting task                                             *)

(* Clients that take turns leave a connection for one who waits: the       *)
(* others have one handler each at most, and of those that only return     *)
(* there are fewer than workers.                                           *)
LEMMA SlotIsLeft ==
  ASSUME IInv, NEW c \in backlog, Resumes, Cardinality(Clients) + Workers - 1 <= ConnectionLimit
  PROVE  \E h \in Slots : handler[h] = Free
<1> SUFFICES ASSUME \A h \in Slots : handler[h] # Free PROVE FALSE
  OBVIOUS
<1> DEFINE Busy == {h \in Slots : handler[h].place \in Engaged}
           Late == {h \in Slots : handler[h].place \in {"returning", "failing"}}
           Others == Clients \ {c}
           who == [h \in Busy |-> handler[h].client]
<1>1. IsFiniteSet(Slots) /\ Cardinality(Slots) = ConnectionLimit
  BY LimitTypes, FS_Interval DEF Slots
<1>2. c \in Clients /\ IsFiniteSet(Clients) /\ Cardinality(Clients) \in Nat
  BY FiniteClients, FS_CardinalityType DEF IInv, TypeInv
<1>3. IsFiniteSet(Others) /\ Cardinality(Others) = Cardinality(Clients) - 1
  BY <1>2, FS_RemoveElement
<1>4. who \in Injection(Busy, Others)
  <2>1. \A h \in Busy : handler[h].client \in Others
    <3>1. \A h \in Slots : HandlerInv(h)
      BY DEF IInv
    <3> QED BY <3>1 DEF HandlerInv, IInv, ClientsInv, Engaged
  <2>2. \A g, h \in Busy : handler[g].client = handler[h].client => g = h
    BY DEF IInv, ClientsInv
  <2> QED BY <2>1, <2>2 DEF Injection, IsInjective
<1>5. IsFiniteSet(Busy) /\ Cardinality(Busy) <= Cardinality(Clients) - 1
  BY <1>3, <1>4, FS_Injection
<1>6. IsFiniteSet(Late) /\ IsFiniteSet(Running) /\ Cardinality(Late) <= Cardinality(Running)
  <2>1. Running \in SUBSET Slots /\ Late \in SUBSET Running
    BY DEF Running
  <2> QED BY <1>1, <2>1, FS_Subset
<1>7. Slots = Busy \cup Late
  <2>1. \A h \in Slots : handler[h].place \in Places /\ HandlerInv(h)
    BY DEF IInv, TypeInv
  <2> QED BY <2>1 DEF Places, HandlerInv, Engaged
<1>8. /\ Cardinality(Busy) \in Nat /\ Cardinality(Late) \in Nat /\ Cardinality(Running) \in Nat
      /\ Cardinality(Busy \cap Late) \in Nat
  <2>1. Busy \cap Late \in SUBSET Busy
    OBVIOUS
  <2>2. IsFiniteSet(Busy \cap Late)
    BY <1>5, <2>1, FS_Subset
  <2> QED BY <1>5, <1>6, <2>2, FS_CardinalityType
<1>9. Cardinality(Slots) = Cardinality(Busy) + Cardinality(Late) - Cardinality(Busy \cap Late)
  BY <1>5, <1>6, <1>7, FS_Union
<1>10. Cardinality(Running) < Workers
  BY DEF Resumes
<1> HIDE DEF Busy, Late
<1> QED BY <1>1, <1>2, <1>5, <1>6, <1>8, <1>9, <1>10, LimitTypes

LEMMA AcceptStep ==
  ASSUME IInv, NEW c \in Clients, Accept(c)
  PROVE  IInv'
<1>1. /\ broker = "serving" /\ Resumes /\ c \in backlog
      /\ UNCHANGED <<calls, budget, stopping, errors, harness>> /\ UNCHANGED Stopped
  BY DEF Accept, Serving, budget, harness, Stopped
<1>2. ASSUME NEW s \in Slots, handler[s] = Free, broker' = broker, backlog' = backlog \ {c},
             handler' = [handler EXCEPT ![s] = [place |-> "request", client |-> c, call |-> 0]]
      PROVE  IInv'
  <2>1. /\ handler'[s].place = "request" /\ handler'[s].client = c /\ handler'[s].call = 0
        /\ \A g \in Slots \ {s} : handler'[g] = handler[g]
        /\ handler' \in [Slots -> [place : Places, client : Clients \cup {None}, call : Nat]]
    BY <1>2 DEF IInv, TypeInv, Places
  <2>2. TypeInv'
    BY <1>1, <1>2, <2>1 DEF IInv, TypeInv, calls, budget, harness
  <2>3. Aside(s)
    BY <1>1, <2>1 DEF Aside, calls, harness
  <2>4. HandlerInv(s)'
    <3>1. place'[c] = "asked"
      BY <1>1 DEF IInv, ClientsInv, harness
    <3> QED BY <2>1, <3>1 DEF HandlerInv, Holding
  <2>5. CallsInv'
    <3>1. handler[s].call \notin DOMAIN entries
      BY <1>2, FreeType DEF IInv, TypeInv
    <3> QED BY <1>1, <2>1, <3>1, CallsKept DEF calls
  <2>6. ClientsInv'
    <3>1. \A h \in Slots : handler[h].place \in Engaged => handler[h].client # c
      BY <1>1 DEF IInv, ClientsInv
    <3>2. place' = place
      BY <1>1 DEF harness
    <3>3. \A d \in backlog' : d \in backlog /\ d # c
      BY <1>2
    <3> QED BY <2>1, <3>1, <3>2, <3>3 DEF IInv, ClientsInv
  <2>7. LoopInv'
    <3>1. broker # "stopped"
      BY <1>1
    <3> QED BY <1>1, <1>2, <3>1, LoopSame
  <2> QED BY <2>2, <2>3, <2>4, <2>5, <2>6, <2>7, HandlerStep
<1>3. ASSUME ~\E h \in Slots : handler[h] = Free, broker' = "failed", backlog' = {},
             handler' = handler
      PROVE  IInv'
  <2>1. TypeInv'
    BY <1>1, <1>3 DEF IInv, TypeInv, calls, budget, harness
  <2>2. \A h \in Slots : HandlerInv(h)'
    <3> HIDE DEF Stopped
    <3> QED BY <1>1, <1>3 DEF IInv, HandlerInv, calls, harness
  <2>3. CallsInv' /\ ClientsInv'
    BY <1>1, <1>3 DEF IInv, CallsInv, ClientsInv, Ledger!Active, calls
  <2>4. LoopInv'
    <3>1. OrderlyClientsAreServed'
      BY <1>1, <1>3, SlotIsLeft DEF OrderlyClientsAreServed
    <3> HIDE DEF Stopped
    <3> QED BY <1>1, <1>3, <3>1 DEF IInv, LoopInv
  <2> QED BY <2>1, <2>2, <2>3, <2>4 DEF IInv
<1>4. CASE {h \in Slots : handler[h] = Free} # {}
  <2>1. PICK s \in Slots : /\ handler[s] = Free
                           /\ handler' = [handler EXCEPT ![s] =
                                            [place |-> "request", client |-> c, call |-> 0]]
    BY <1>4 DEF Accept
  <2> QED BY <1>2, <1>4, <2>1 DEF Accept
<1>5. CASE {h \in Slots : handler[h] = Free} = {}
  BY <1>3, <1>5 DEF Accept, FailBroker
<1> QED BY <1>4, <1>5

(* The loop ends for a shutdown or a cancellation, for a handler that      *)
(* failed, and when its handlers are gone.                                 *)
LEMMA LoopStep ==
  ASSUME IInv, JoinError \/ BreakLoop \/ Drained
  PROVE  IInv'
<1>1. UNCHANGED <<calls, budget, stopping, errors, harness, handler>> /\ UNCHANGED Stopped
  BY DEF JoinError, BreakLoop, Drained, budget, harness, Stopped
<1>2. /\ backlog' \in {{}, backlog} /\ broker' \in {"failed", "draining", "stopped"}
      /\ broker' = "stopped" => backlog' = {} /\ \A h \in Slots : handler[h] = Free
      /\ broker' = "failed" => errors
  BY DEF JoinError, BreakLoop, Drained, FailBroker
<1>3. TypeInv'
  BY <1>1, <1>2 DEF IInv, TypeInv, calls, budget, harness
<1>4. \A h \in Slots : HandlerInv(h)'
  <2> HIDE DEF Stopped
  <2> QED BY <1>1 DEF IInv, HandlerInv, calls, harness
<1>5. CallsInv' /\ ClientsInv'
  BY <1>1, <1>2 DEF IInv, CallsInv, ClientsInv, Ledger!Active, calls, harness
<1>6. LoopInv'
  <2>1. OrderlyClientsAreServed'
    BY <1>1, <1>2 DEF OrderlyClientsAreServed, IInv, LoopInv, Stopped
  <2> HIDE DEF Stopped
  <2> QED BY <1>1, <1>2, <2>1 DEF IInv, LoopInv
<1> QED BY <1>3, <1>4, <1>5, <1>6 DEF IInv

-----------------------------------------------------------------------------
(* Steps of the rest of the execution                                      *)

LEMMA FlagStep ==
  ASSUME IInv, UNCHANGED <<entries, broker, errors, backlog, place, reported, handler>>,
         open' \in BOOLEAN, cancelled' \in BOOLEAN, expired' \in BOOLEAN,
         stopping' \in BOOLEAN, killed' \in BOOLEAN, Stopped => Stopped'
  PROVE  IInv'
<1>1. TypeInv'
  BY DEF IInv, TypeInv
<1>2. \A h \in Slots : HandlerInv(h)'
  <2> HIDE DEF Stopped
  <2> QED BY DEF IInv, HandlerInv
<1>3. CallsInv' /\ ClientsInv'
  BY DEF IInv, CallsInv, ClientsInv, Ledger!Active
<1>4. LoopInv'
  BY LoopSame DEF IInv, LoopInv
<1> QED BY <1>1, <1>2, <1>3, <1>4 DEF IInv

LEMMA RestStep ==
  ASSUME IInv, \/ Kill \/ Shutdown \/ Cancel \/ Expire \/ CloseAdmission
               \/ \E h \in Slots : Terminate(h)
               \/ UNCHANGED vars
  PROVE  IInv'
<1>1. UNCHANGED <<entries, broker, errors, backlog, place, reported, handler>>
  BY DEF Kill, Shutdown, Cancel, Expire, CloseAdmission, Terminate, Ledger!Close, vars, calls,
     budget, loop, harness
<1>2. /\ open' = open \/ open' = FALSE
      /\ cancelled' = cancelled \/ cancelled' = TRUE
      /\ expired' = expired \/ expired' = TRUE
      /\ stopping' = stopping \/ stopping' = TRUE
      /\ killed' = killed \/ killed' = TRUE
  BY DEF Kill, Shutdown, Cancel, Expire, CloseAdmission, Terminate, Ledger!Close, vars, calls,
     budget, loop, harness
<1>3. Stopped => Stopped'
  BY <1>2 DEF Stopped
<1>4. open' \in BOOLEAN /\ cancelled' \in BOOLEAN /\ expired' \in BOOLEAN
  <2>1. open \in BOOLEAN /\ cancelled \in BOOLEAN /\ expired \in BOOLEAN
    BY DEF IInv, TypeInv
  <2> QED BY <1>2, <2>1, Zenon
<1>5. stopping' \in BOOLEAN /\ killed' \in BOOLEAN
  <2>1. stopping \in BOOLEAN /\ killed \in BOOLEAN
    BY DEF IInv, TypeInv
  <2> QED BY <1>2, <2>1, Zenon
<1> QED BY <1>1, <1>3, <1>4, <1>5, FlagStep

-----------------------------------------------------------------------------
LEMMA InitialStep == Init => IInv
<1> SUFFICES ASSUME Init PROVE IInv
  OBVIOUS
<1>1. entries = <<>> /\ entries \in Seq(Entry) /\ DOMAIN entries = {}
  BY DEF Init, Ledger!Init
<1>2. \A h \in Slots : handler[h] = Free
  BY DEF Init
<1>3. TypeInv
  <2>1. open \in BOOLEAN /\ cancelled \in BOOLEAN /\ expired \in BOOLEAN
    BY Zenon DEF Init, Ledger!Init
  <2>2. stopping \in BOOLEAN /\ errors \in BOOLEAN /\ killed \in BOOLEAN
    BY Zenon DEF Init
  <2> QED BY <1>1, <2>1, <2>2, FreeType DEF Init, TypeInv
<1>4. \A h \in Slots : HandlerInv(h)
  BY <1>2, FreeType DEF HandlerInv, Holding
<1>5. CallsInv /\ ClientsInv
  BY <1>1, <1>2, FreeType DEF Init, CallsInv, ClientsInv, Ledger!Active, Engaged
<1>6. LoopInv
  BY DEF Init, LoopInv, OrderlyClientsAreServed
<1> QED BY <1>3, <1>4, <1>5, <1>6 DEF IInv

LEMMA InductiveStep == IInv /\ [Next]_vars => IInv'
<1> SUFFICES ASSUME IInv, [Next]_vars PROVE IInv'
  OBVIOUS
<1>1. ASSUME NEW h \in Slots, Handle(h) PROVE IInv'
  BY <1>1, ReadStep, EnterStep, ActivateStep, RestStep, EndingSteps, GrantStep, CompleteStep,
     ReturnStep
  DEF Handle
<1>2. ASSUME NEW c \in Clients, \/ Ask(c) \/ LoseConnection(c) \/ Accept(c)
                                \/ \E d \in Answers : Report(c, d)
      PROVE  IInv'
  BY <1>2, AskStep, LoseStep, AcceptStep, ReportStep
<1> QED BY <1>1, <1>2, LoopStep, RestStep DEF Next

(* The inductive invariant: where a handler stands says where its client   *)
(* and its call do, and no two handlers share either.                      *)
THEOREM Invariant == Spec => []IInv
BY InitialStep, InductiveStep, PTL DEF Spec

(* Every variable keeps its type.                                          *)
THEOREM TypeCorrect == Spec => []TypeOK
<1>1. IInv => TypeOK
  BY DEF IInv, TypeInv, TypeOK, Entry
<1> QED BY <1>1, Invariant, PTL

(* A call in flight has exactly one handler that owns its permit, and a    *)
(* broker that was stopped has left none behind.                           *)
THEOREM GrantsAreAlwaysHeld == Spec => []GrantsAreHeld
<1>1. IInv => GrantsAreHeld
  <2> SUFFICES ASSUME IInv PROVE GrantsAreHeld
    OBVIOUS
  <2>1. /\ \A i \in Ledger!Active :
             \E h \in Slots : handler[h].call = i /\ handler[h].place \in {"granting", "completion"}
        /\ \A g, h \in Slots : g # h /\ handler[g].call # 0 => handler[g].call # handler[h].call
    BY DEF IInv, CallsInv, Holding
  <2>2. ASSUME broker = "stopped"
        PROVE  Ledger!Active = {} /\ \A c \in Clients : ~Connected(c)
    <3>1. backlog = {} /\ \A h \in Slots : handler[h] = Free
      BY <2>2 DEF IInv, LoopInv
    <3>2. Ledger!Active = {}
      BY <2>1, <3>1, FreeType
    <3>3. \A c \in Clients : c # None
      BY FiniteClients DEF None
    <3> QED BY <3>1, <3>2, <3>3 DEF Connected, Serves, Free
  <2> QED BY <2>1, <2>2 DEF GrantsAreHeld
<1> QED BY <1>1, Invariant, PTL

(* A client calls under a call of its own that is in flight.               *)
THEOREM CallsAreAlwaysGranted == Spec => []CallsAreGranted
<1>1. IInv => CallsAreGranted
  <2> SUFFICES ASSUME IInv, NEW c \in Clients, place[c] = "calling", Connected(c)
               PROVE  \E h \in Slots : Serves(h, c) /\ handler[h].call \in Ledger!Active
    BY DEF CallsAreGranted
  <2>1. c \notin backlog
    BY DEF IInv, ClientsInv
  <2>2. PICK h \in Slots : Serves(h, c)
    BY <2>1 DEF Connected
  <2>3. HandlerInv(h) /\ handler[h].place \in Places /\ handler[h].client = c
    BY <2>2 DEF IInv, TypeInv, Serves
  <2>4. handler[h].place = "completion"
    BY <2>2, <2>3, FiniteClients DEF HandlerInv, Serves, Places, Free, None
  <2>5. handler[h].call \in Ledger!Active
    BY <2>3, <2>4 DEF HandlerInv, Holding, Ledger!Active
  <2> QED BY <2>2, <2>5
<1> QED BY <1>1, Invariant, PTL

(* What a client reported is in the ledger when it reads the               *)
(* acknowledgement.                                                        *)
THEOREM ReportsAreRecorded == Spec => RecordedAsReported
<1> DEFINE Recorded ==
      \A c \in Clients :
        place[c] = "completing" /\ place'[c] = "idle" =>
          \E h \in Slots : Serves(h, c) /\ entries[handler[h].call].status = reported[c]
<1>1. IInv /\ [Next]_vars => [Recorded]_vars
  <2> SUFFICES ASSUME IInv, Next, NEW c \in Clients, place[c] = "completing", place'[c] = "idle"
               PROVE  \E h \in Slots : /\ Serves(h, c)
                                       /\ entries[handler[h].call].status = reported[c]
    OBVIOUS
  <2>1. PICK h \in Slots : Acknowledge(h) /\ handler[h].client = c
    <3>1. ASSUME NEW h \in Slots, Handle(h), place' # place
          PROVE  handler[h].client \in Clients /\ (Acknowledge(h) => handler[h].client = c)
                 /\ (Deny(h) \/ Grant(h) => FALSE) /\ Acknowledge(h)
      <4>1. handler[h].client \in Clients
        BY <3>1 DEF Handle, ReadRequest, Enter, Activate, Terminate, Deny, Grant, Complete,
           Acknowledge, Break, Return, AbortHandler, harness, IInv, HandlerInv
      <4>2. ~Deny(h) /\ ~Grant(h)
        BY <4>1 DEF Deny, Grant, Answer, Stands, IInv, TypeInv
      <4>3. Acknowledge(h)
        BY <3>1, <4>2 DEF Handle, ReadRequest, Enter, Activate, Terminate, Complete, Break,
           Return, AbortHandler, harness
      <4>4. handler[h].client = c
        BY <4>1, <4>3 DEF Acknowledge, Answer, Stands, IInv, TypeInv
      <4> QED BY <4>1, <4>2, <4>3, <4>4
    <3>2. ~\E d \in Clients : \/ Ask(d) \/ LoseConnection(d) \/ Accept(d)
                              \/ \E a \in Answers : Report(d, a)
      BY DEF Ask, LoseConnection, Accept, Report, Stands, harness, IInv, TypeInv
    <3>3. ~(JoinError \/ BreakLoop \/ Drained \/ Kill \/ Shutdown \/ Cancel \/ Expire
            \/ CloseAdmission)
      BY DEF JoinError, BreakLoop, Drained, Kill, Shutdown, Cancel, Expire, CloseAdmission,
         harness
    <3> QED BY <3>1, <3>2, <3>3 DEF Next
  <2>2. handler[h].place = "acking" /\ HandlerInv(h)
    BY <2>1 DEF Acknowledge, IInv
  <2> QED BY <2>1, <2>2 DEF HandlerInv, Serves
<1> QED BY <1>1, Invariant, PTL DEF Spec, RecordedAsReported

(* Clients that take turns never bring the broker down.                    *)
THEOREM OrderlyClientsAreAlwaysServed == Spec => []OrderlyClientsAreServed
<1>1. IInv => OrderlyClientsAreServed
  BY DEF IInv, LoopInv
<1> QED BY <1>1, Invariant, PTL

-----------------------------------------------------------------------------
(* The broker and the ledger                                               *)

LedgerStep == [Ledger!Next]_(Ledger!ledgerVars)

LEMMA QuietIsLedgerStep ==
  ASSUME UNCHANGED <<entries, open>>
  PROVE  LedgerStep
BY DEF LedgerStep, Ledger!ledgerVars

LEMMA DropIsLedgerStep ==
  ASSUME IInv, NEW h \in Slots, DropPermit(h)
  PROVE  LedgerStep
<1>1. CASE handler[h].place \in Holding
  <2>1. PICK d \in Ledger!Dispositions : Ledger!Settle(handler[h].call, d)
    BY <1>1 DEF DropPermit, Holding, Ledger!Dispositions
  <2>2. handler[h].call \in DOMAIN entries
    BY <1>1 DEF IInv, HandlerInv
  <2> QED BY <2>1, <2>2 DEF LedgerStep, Ledger!Next
<1>2. CASE handler[h].place \notin Holding
  BY <1>2, QuietIsLedgerStep DEF DropPermit, Holding
<1> QED BY <1>1, <1>2

(* A handler's step: it settles only the call it owns.                     *)
LEMMA HandlerIsLedgerStep ==
  ASSUME IInv, NEW h \in Slots, Handle(h)
  PROVE  LedgerStep
<1>0. HandlerInv(h)
  BY DEF IInv
<1>1. CASE ReadRequest(h) \/ Acknowledge(h) \/ Return(h)
  BY <1>1, QuietIsLedgerStep DEF ReadRequest, Acknowledge, Return, calls
<1>2. CASE Enter(h)
  BY <1>2 DEF Enter, LedgerStep, Ledger!Next, Ledger!Kinds
<1>3. CASE Activate(h)
  BY <1>0, <1>3 DEF Activate, HandlerInv, LedgerStep, Ledger!Next
<1>4. CASE Terminate(h)
  BY <1>4 DEF Terminate, LedgerStep, Ledger!Next
<1>5. CASE Deny(h)
  <2>1. CASE handler[h].call = 0
    BY <1>5, <2>1, QuietIsLedgerStep DEF Deny
  <2>2. CASE handler[h].call # 0
    <3>1. handler[h].call \in DOMAIN entries /\ Ledger!Settle(handler[h].call, "Cancelled")
      BY <1>0, <1>5, <2>2 DEF Deny, HandlerInv
    <3>2. "Cancelled" \in Ledger!Dispositions
      BY DEF Ledger!Dispositions
    <3> QED BY <3>1, <3>2 DEF LedgerStep, Ledger!Next
  <2> QED BY <2>1, <2>2
<1>6. CASE Grant(h)
  BY <1>6, DropIsLedgerStep, QuietIsLedgerStep DEF Grant
<1>7. CASE Complete(h)
  <2>1. PICK d : d = reported[handler[h].client] /\ Ledger!Settle(handler[h].call, d)
    BY <1>7 DEF Complete
  <2>2. d \in Answers
    BY <1>0, <1>7, <2>1 DEF Complete, HandlerInv
  <2>3. d \in Ledger!Dispositions /\ handler[h].call \in DOMAIN entries
    BY <1>0, <1>7, <2>2, LimitsAccepted DEF Complete, HandlerInv, Holding, Ledger!Dispositions
  <2> QED BY <2>1, <2>3 DEF LedgerStep, Ledger!Next
<1>8. CASE Break(h) \/ AbortHandler(h)
  BY <1>8, DropIsLedgerStep DEF Break, AbortHandler
<1> QED BY <1>1, <1>2, <1>3, <1>4, <1>5, <1>6, <1>7, <1>8 DEF Handle

LEMMA StepIsLedgerStep == IInv /\ [Next]_vars => LedgerStep
<1> SUFFICES ASSUME IInv, [Next]_vars PROVE LedgerStep
  OBVIOUS
<1>1. CASE UNCHANGED calls \/ UNCHANGED vars
  BY <1>1, QuietIsLedgerStep DEF calls, vars
<1>2. CASE CloseAdmission
  BY <1>2 DEF CloseAdmission, LedgerStep, Ledger!Next
<1>3. ASSUME NEW c \in Clients, \/ Ask(c) \/ LoseConnection(c) \/ Accept(c)
                                \/ \E d \in Answers : Report(c, d)
      PROVE  UNCHANGED calls
  BY <1>3 DEF Ask, LoseConnection, Accept, Report
<1>4. ASSUME JoinError \/ BreakLoop \/ Drained \/ Kill \/ Shutdown \/ Cancel \/ Expire
      PROVE  UNCHANGED calls
  BY <1>4 DEF JoinError, BreakLoop, Drained, Kill, Shutdown, Cancel, Expire
<1> QED BY <1>1, <1>2, <1>3, <1>4, HandlerIsLedgerStep DEF Next

(* Every step of the broker is one step of the ledger or none: whatever    *)
(* ends a connection, a call is settled by its owner, once, and with a     *)
(* disposition the budget knows.                                           *)
THEOREM BrokerKeepsTheLedger == Spec => Ledger!Spec
<1>1. Init => Ledger!Init
  BY DEF Init
<1>2. IInv /\ [Next]_vars => [Ledger!Next]_(Ledger!ledgerVars)
  BY StepIsLedgerStep DEF LedgerStep
<1> QED BY <1>1, <1>2, Invariant, PTL DEF Spec, Ledger!Spec
===============================================================================
