------------------------- MODULE ArtifactStoreProofs -------------------------
(***************************************************************************)
(* What holds of the artifact store for any set of processes, contents,    *)
(* files and process ids, and any number of faults: what is found under an *)
(* identity is complete, and the store implements a write-once map.        *)
(***************************************************************************)
EXTENDS ArtifactStore, TLAPS

TypeInv ==
  /\ data \in [Inodes -> Data] /\ synced \subseteq Inodes
  /\ final \in [Identities -> Inodes \cup {None}]
  /\ temporary \in [Names -> Inodes \cup {None}]
  /\ settled \subseteq Identities
  /\ pc \in [Processes -> Places]
  /\ job \in [Processes -> Jobs]
  /\ pid \in [Processes -> Pids \cup {None}] /\ seq \in [Processes -> 0..MaxAttempts]
  /\ making \in [Processes -> BOOLEAN]
  /\ mine \in [Processes -> Inodes \cup {None}]
  /\ seen \in [Processes -> [file : Inodes \cup {None}, data : Data \cup {None},
                             names : SUBSET Names]]
  /\ outcome \in [Processes -> Answered] /\ answer \in [Processes -> Answered]
  /\ faults \in 0..MaxFaults
  /\ changedIds \in [Processes -> SUBSET Identities]

Working == Places \ {"down", "idle"}
Filling == {"write", "sync", "link"}

(* A name leads to a complete artifact that is on the disk.                *)
PublishedInv ==
  \A i \in Identities :
    final[i] # None => /\ data[final[i]] \in Contents
                       /\ Identity[data[final[i]]] = i
                       /\ final[i] \in synced

(* The map holds this content.                                             *)
Stores(c) ==
  /\ c \in Contents /\ final[Identity[c]] # None
  /\ data[final[Identity[c]]] = c

(* What a process that works was asked, and what it will answer.           *)
Asked(j) ==
  /\ j.kind \in {"persist", "load"} /\ j.id \in Identities
  /\ j.kind = "persist" => j.content \in Contents /\ j.id = Identity[j.content]
Reliable(what) ==
  \/ what.verdict = "failed" /\ what.content = None
  \/ what.verdict \in {"stored", "loaded"} /\ Stores(what.content)

(* A process that fills a file owns one that nobody can find, and links it *)
(* when its content is complete and synced; one that reads has found the   *)
(* file it reads.                                                          *)
ProcessInv(p) ==
  /\ pc[p] \in Working => Asked(job[p])
  /\ pc[p] \in Filling \cup {"exists", "create"} => job[p].kind = "persist"
  /\ pc[p] \in Filling => /\ mine[p] \in Inodes /\ making[p]
                          /\ \A i \in Identities : final[i] # mine[p]
  /\ pc[p] \in {"sync", "link"} => data[mine[p]] = job[p].content
  /\ pc[p] = "link" => mine[p] \in synced
  /\ pc[p] \in {"open", "read"} => final[job[p].id] # None
  /\ pc[p] = "read" => seen[p].file = final[job[p].id]
  /\ pc[p] = "remove" => Reliable(outcome[p])

(* No two processes fill the same file.                                    *)
OwnInv == \A p, q \in Processes : p # q /\ mine[p] # None => mine[p] # mine[q]

IInv ==
  /\ TypeInv /\ PublishedInv /\ OwnInv
  /\ \A p \in Processes : ProcessInv(p)

-----------------------------------------------------------------------------
(* What one process does to the others                                     *)

(* It leaves their variables alone ...                                     *)
Aside(p) ==
  \A q \in Processes \ {p} :
    /\ pc'[q] = pc[q] /\ job'[q] = job[q] /\ making'[q] = making[q]
    /\ mine'[q] = mine[q] /\ seen'[q] = seen[q] /\ outcome'[q] = outcome[q]

(* ... and on the disk what is published and what they fill.               *)
Keeps(f) == data'[f] = data[f] /\ (f \in synced => f \in synced')
Gentle(p) ==
  /\ \A i \in Identities : final[i] # None => final'[i] = final[i] /\ Keeps(final[i])
  /\ \A q \in Processes \ {p} :
       pc[q] \in Filling => /\ Keeps(mine[q])
                            /\ \A i \in Identities : final'[i] = mine[q] => final[i] = mine[q]

(* A content that is stored stays stored.                                  *)
LEMMA StoredStays ==
  ASSUME NEW p \in Processes, Gentle(p), NEW c, Stores(c)
  PROVE  Stores(c)'
<1>1. Identity[c] \in Identities
  BY DEF Stores, Identities
<1> QED BY <1>1 DEF Stores, Gentle, Keeps

(* So the others are where they were.                                      *)
LEMMA OthersKeep ==
  ASSUME IInv, NEW p \in Processes, Aside(p), Gentle(p), NEW q \in Processes, q # p
  PROVE  ProcessInv(q)'
<1>1. /\ pc'[q] = pc[q] /\ job'[q] = job[q] /\ making'[q] = making[q]
      /\ mine'[q] = mine[q] /\ seen'[q] = seen[q] /\ outcome'[q] = outcome[q]
  BY DEF Aside
<1>2. ProcessInv(q)
  BY DEF IInv
<1>3. ASSUME pc[q] \in Filling
      PROVE  /\ mine'[q] \in Inodes /\ making'[q]
             /\ \A i \in Identities : final'[i] # mine'[q]
             /\ data'[mine'[q]] = data[mine[q]] /\ (mine[q] \in synced => mine'[q] \in synced')
  BY <1>1, <1>2, <1>3 DEF ProcessInv, Gentle, Keeps
<1>4. ASSUME pc[q] \in {"open", "read"} PROVE final'[job'[q].id] = final[job[q].id]
  <2>1. job[q].id \in Identities /\ final[job[q].id] # None
    BY <1>2, <1>4 DEF ProcessInv, Asked, Working, Places
  <2> QED BY <1>1, <2>1 DEF Gentle
<1>5. ASSUME pc[q] = "remove" PROVE Reliable(outcome[q])'
  BY <1>1, <1>2, <1>5, StoredStays DEF ProcessInv, Reliable
<1>6. /\ pc'[q] \in Working => Asked(job[q])'
      /\ pc'[q] \in Filling \cup {"exists", "create"} => job'[q].kind = "persist"
  BY <1>1, <1>2 DEF ProcessInv, Asked
<1> QED BY <1>1, <1>2, <1>3, <1>4, <1>5, <1>6 DEF ProcessInv, Filling

(* A step that leaves the disk alone, and the files that processes own.    *)
LEMMA QuietStep ==
  ASSUME IInv, UNCHANGED <<disk, mine>>, TypeInv', NEW p \in Processes, Aside(p),
         ProcessInv(p)'
  PROVE  IInv'
<1>1. Gentle(p)
  BY DEF disk, Gentle, Keeps
<1>2. PublishedInv' /\ OwnInv'
  BY DEF IInv, disk, PublishedInv, OwnInv
<1>3. \A q \in Processes : ProcessInv(q)'
  BY <1>1, OthersKeep
<1> QED BY <1>2, <1>3 DEF IInv

-----------------------------------------------------------------------------
(* Types of what the actions write                                         *)

(* An answer is one of those a process can give.                           *)
LEMMA AnswerTypes ==
  /\ Nothing \in Answered
  /\ \A r \in Reasons : Failed(r) \in Answered
  /\ \A c \in Contents : /\ Said("stored", c, None) \in Answered
                         /\ Said("loaded", c, None) \in Answered
BY DEF Nothing, Failed, Said, Answered, Verdicts, Reasons

(* Metadata of a file.                                                     *)
LEMMA StampType ==
  ASSUME TypeInv, NEW f \in Inodes
  PROVE  Stamp(f) \in [file : Inodes \cup {None}, data : Data \cup {None}, names : SUBSET Names]
BY DEF TypeInv, Stamp

LEMMA UnseenType ==
  Unseen \in [file : Inodes \cup {None}, data : Data \cup {None}, names : SUBSET Names]
BY DEF Unseen

LEMMA NoJobType == NoJob \in Jobs
BY DEF NoJob, Jobs

(* Concluding keeps the types.                                             *)
LEMMA ConcludeTypes ==
  ASSUME TypeInv, NEW p \in Processes, NEW what \in Answered, Conclude(p, what),
         what.reason = "changed" => job[p].id \in Identities
  PROVE  /\ pc' \in [Processes -> Places] /\ job' \in [Processes -> Jobs]
         /\ seen' \in [Processes -> [file : Inodes \cup {None}, data : Data \cup {None},
                                     names : SUBSET Names]]
         /\ outcome' \in [Processes -> Answered] /\ answer' \in [Processes -> Answered]
         /\ changedIds' \in [Processes -> SUBSET Identities]
<1>1. pc' \in [Processes -> Places]
  BY DEF TypeInv, Conclude, Go, Places
<1>2. job' \in [Processes -> Jobs]
  BY NoJobType DEF TypeInv, Conclude
<1>3. outcome' \in [Processes -> Answered] /\ answer' \in [Processes -> Answered]
  BY DEF TypeInv, Conclude
<1>4. seen' \in [Processes -> [file : Inodes \cup {None}, data : Data \cup {None},
                              names : SUBSET Names]]
  BY UnseenType DEF TypeInv, Conclude
<1>5. changedIds' \in [Processes -> SUBSET Identities]
  BY DEF TypeInv, Conclude
<1> QED BY <1>1, <1>2, <1>3, <1>4, <1>5

(* Concluding concerns one process, which is idle then, or removes its     *)
(* temporary name with an answer that can be relied upon.                  *)
LEMMA ConcludeInv ==
  ASSUME IInv, NEW p \in Processes, NEW what \in Answered, Conclude(p, what),
         pc[p] \in Working, Reliable(what)',
         UNCHANGED making, UNCHANGED mine
  PROVE  Aside(p) /\ ProcessInv(p)'
<1>1. Aside(p)
  BY DEF Conclude, Go, Aside, IInv, TypeInv
<1>2. CASE making[p]
  <2>1. pc'[p] = "remove" /\ outcome'[p] = what /\ job' = job
    BY <1>2 DEF Conclude, Go, IInv, TypeInv
  <2>2. Asked(job[p])'
    BY <2>1 DEF IInv, ProcessInv, Asked
  <2>3. Reliable(outcome[p])'
    BY <2>1 DEF Reliable, Stores
  <2> QED BY <1>1, <2>1, <2>2, <2>3 DEF ProcessInv, Filling
<1>3. CASE ~making[p]
  <2>1. pc'[p] = "idle"
    BY <1>3 DEF Conclude, Go, IInv, TypeInv
  <2> QED BY <1>1, <2>1 DEF ProcessInv, Filling, Working
<1> QED BY <1>1, <1>2, <1>3

-----------------------------------------------------------------------------
(* The steps of a process                                                  *)

(* An operation begins.                                                    *)
LEMMA BeginStep ==
  ASSUME IInv, NEW p \in Processes,
         \/ \E c \in Contents : Persist(p, c)
         \/ \E i \in Identities : Load(p, i)
  PROVE  IInv'
<1>1. PICK k \in {"persist", "load"}, i \in Identities, c \in Contents \cup {None} :
        /\ Begin(p, k, i, c, IF k = "persist" THEN "exists" ELSE "inspect")
        /\ k = "persist" => c \in Contents /\ i = Identity[c]
  <2>1. ASSUME NEW c \in Contents, Persist(p, c)
        PROVE  Identity[c] \in Identities /\ Begin(p, "persist", Identity[c], c, "exists")
    BY <2>1 DEF Persist, Identities
  <2>2. ASSUME NEW i \in Identities, Load(p, i) PROVE Begin(p, "load", i, None, "inspect")
    BY <2>2 DEF Load
  <2> QED BY <2>1, <2>2
<1> DEFINE j == [kind |-> k, id |-> i, content |-> c]
           place == IF k = "persist" THEN "exists" ELSE "inspect"
<1>2. /\ job' = [job EXCEPT ![p] = j] /\ answer' = [answer EXCEPT ![p] = Nothing]
      /\ pc' = [pc EXCEPT ![p] = place]
      /\ UNCHANGED <<disk, making, mine, seen, outcome, seq, life, changedIds>>
  BY <1>1 DEF Begin, Go
<1>3. j \in Jobs /\ Asked(j) /\ place \in {"exists", "inspect"} /\ (place = "exists" => j.kind = "persist")
  BY <1>1 DEF Jobs, Asked
<1> HIDE DEF j, place
<1>4. TypeInv'
  BY <1>2, <1>3, AnswerTypes DEF IInv, TypeInv, disk, life, Places
<1>5. Aside(p)
  BY <1>2 DEF Aside, IInv, TypeInv
<1>6. ProcessInv(p)'
  <2>1. pc'[p] = place /\ job'[p] = j
    BY <1>2 DEF IInv, TypeInv
  <2>2. Asked(job[p])'
    BY <1>3, <2>1 DEF Asked
  <2> QED BY <1>3, <2>1, <2>2 DEF ProcessInv, Filling
<1> QED BY <1>2, <1>4, <1>5, <1>6, QuietStep

(* The steps that only move the process on.                                *)
LEMMA MoveStep ==
  ASSUME IInv, NEW p \in Processes, CheckExists(p) \/ Open(p)
  PROVE  IInv'
<1>1. pc[p] \in Working /\ Asked(job[p])
  BY DEF CheckExists, Open, Working, Places, IInv, ProcessInv
<1>2. ASSUME CheckExists(p) PROVE IInv'
  <2>1. TypeInv'
    BY <1>2 DEF CheckExists, Go, IInv, TypeInv, disk, work, life, Places
  <2>2. Aside(p)
    BY <1>2 DEF CheckExists, Go, Aside, IInv, TypeInv, work
  <2>3. ProcessInv(p)'
    <3>1. pc'[p] \in {"inspect", "create"} /\ pc[p] = "exists" /\ job' = job
      BY <1>2 DEF CheckExists, Go, IInv, TypeInv, work
    <3>2. Asked(job[p])'
      BY <1>1, <3>1 DEF Asked
    <3> QED BY <3>1, <3>2 DEF ProcessInv, Filling, IInv
  <2> QED BY <1>2, <2>1, <2>2, <2>3, QuietStep DEF CheckExists, work
<1>3. ASSUME Open(p) PROVE IInv'
  <2>1. final[job[p].id] # None /\ final[job[p].id] \in Inodes
    BY <1>1, <1>3 DEF Open, IInv, ProcessInv, Asked, TypeInv
  <2>2. TypeInv'
    BY <1>3, <2>1, StampType DEF Open, Go, IInv, TypeInv, disk, life, Places
  <2>3. Aside(p)
    BY <1>3 DEF Open, Go, Aside, IInv, TypeInv
  <2>4. ProcessInv(p)'
    <3>1. /\ pc'[p] = "read" /\ seen'[p] = Stamp(final[job[p].id])
          /\ job' = job /\ final' = final
      BY <1>3 DEF Open, Go, IInv, TypeInv, disk
    <3>2. Asked(job[p])'
      BY <1>1, <3>1 DEF Asked
    <3> QED BY <2>1, <3>1, <3>2 DEF ProcessInv, Filling, Stamp
  <2> QED BY <1>3, <2>2, <2>3, <2>4, QuietStep DEF Open
<1> QED BY <1>2, <1>3

(* What is left to show of a step that changes the disk gently.            *)
LEMMA GentleStep ==
  ASSUME IInv, NEW p \in Processes, TypeInv', PublishedInv', OwnInv',
         Aside(p), Gentle(p), ProcessInv(p)'
  PROVE  IInv'
<1>1. \A q \in Processes : ProcessInv(q)'
  BY OthersKeep
<1> QED BY <1>1 DEF IInv

(* A temporary file is created, or its name is taken.                      *)
LEMMA CreateStep ==
  ASSUME IInv, NEW p \in Processes, Create(p)
  PROVE  IInv' /\ Gentle(p)
<1>1. pc[p] = "create" /\ Asked(job[p]) /\ job[p].kind = "persist"
  BY DEF Create, IInv, ProcessInv, Working, Places
<1>2. /\ seq[p] + 1 \in 0..MaxAttempts /\ seq' = [seq EXCEPT ![p] = seq[p] + 1]
      /\ making' = [making EXCEPT ![p] = TRUE]
      /\ UNCHANGED <<job, seen, answer, life, changedIds>>
  BY StoreParameters DEF Create, IInv, TypeInv
<1>3. Asked(job[p])'
  BY <1>1, <1>2 DEF Asked
<1>4. CASE /\ outcome' = [outcome EXCEPT ![p] = Failed("taken")]
           /\ pc' = [pc EXCEPT ![p] = "remove"] /\ UNCHANGED <<disk, mine>>
  <2>1. Failed("taken") \in Answered
    BY AnswerTypes DEF Reasons
  <2>2. TypeInv'
    BY <1>2, <1>4, <2>1 DEF IInv, TypeInv, disk, life, Places
  <2>3. Aside(p)
    BY <1>2, <1>4 DEF Aside, IInv, TypeInv
  <2>4. ProcessInv(p)'
    <3>1. pc'[p] = "remove" /\ outcome'[p] = Failed("taken")
      BY <1>4 DEF IInv, TypeInv
    <3>2. Reliable(outcome[p])'
      BY <3>1 DEF Reliable, Failed, Said
    <3> QED BY <1>3, <3>1, <3>2 DEF ProcessInv, Filling
  <2> QED BY <1>4, <2>2, <2>3, <2>4, QuietStep DEF disk, Gentle, Keeps
<1>5. ASSUME NEW f \in Free,
             /\ temporary' = [temporary EXCEPT ![NextName(p)] = f]
             /\ data' = [data EXCEPT ![f] = "empty"] /\ synced' = synced \ {f}
             /\ mine' = [mine EXCEPT ![p] = f] /\ pc' = [pc EXCEPT ![p] = "write"]
             /\ UNCHANGED <<final, settled, outcome>>
      PROVE  IInv' /\ Gentle(p)
  <2>1. /\ f \in Inodes /\ f # None /\ \A i \in Identities : final[i] # f
        /\ \A q \in Processes : mine[q] # f
    BY <1>5, StoreParameters DEF Free, Exists
  <2>2. TypeInv'
    BY <1>2, <1>5, <2>1 DEF IInv, TypeInv, life, Places, Data
  <2>3. Aside(p)
    BY <1>2, <1>5 DEF Aside, IInv, TypeInv
  <2>4. Gentle(p)
    BY <1>5, <2>1 DEF Gentle, Keeps, IInv, TypeInv, ProcessInv
  <2>5. PublishedInv'
    BY <1>5, <2>1 DEF PublishedInv, IInv, TypeInv
  <2>6. OwnInv'
    BY <1>5, <2>1 DEF OwnInv, IInv, TypeInv
  <2>7. ProcessInv(p)'
    <3>1. pc'[p] = "write" /\ mine'[p] = f /\ making'[p] /\ job' = job
      BY <1>2, <1>5 DEF IInv, TypeInv
    <3> QED BY <1>1, <1>3, <1>5, <2>1, <3>1 DEF ProcessInv
  <2> QED BY <2>2, <2>3, <2>4, <2>5, <2>6, <2>7, GentleStep
<1> QED BY <1>4, <1>5 DEF Create, Go

(* It is written and synced: nobody else has it.                           *)
LEMMA FillStep ==
  ASSUME IInv, NEW p \in Processes, Write(p) \/ Sync(p)
  PROVE  IInv' /\ Gentle(p)
<1>1. /\ pc[p] \in {"write", "sync"} /\ Asked(job[p]) /\ job[p].kind = "persist"
      /\ mine[p] \in Inodes /\ making[p] /\ \A i \in Identities : final[i] # mine[p]
  BY DEF Write, Sync, IInv, ProcessInv, Working, Places, Filling
<1>2. \A q \in Processes \ {p} : mine[q] # mine[p]
  BY <1>1, StoreParameters DEF IInv, OwnInv
<1>3. /\ UNCHANGED <<final, temporary, settled, work, seq, answer, life, changedIds>>
      /\ pc' \in [Processes -> Places] /\ \A q \in Processes \ {p} : pc'[q] = pc[q]
  BY DEF Write, Sync, Go, IInv, TypeInv, Places
<1>4. Aside(p)
  BY <1>3 DEF Aside, work
<1>5. /\ data' \in [Inodes -> Data] /\ synced \subseteq synced' /\ synced' \subseteq Inodes
      /\ \A f \in Inodes : f # mine[p] => data'[f] = data[f]
      /\ pc'[p] \in Filling
      /\ pc'[p] \in {"sync", "link"} => data'[mine[p]] = job[p].content
      /\ pc'[p] = "link" => mine[p] \in synced'
  <2>1. CASE Write(p)
    BY <1>1, <2>1 DEF Write, Go, IInv, TypeInv, Data, Asked, Filling
  <2>2. CASE Sync(p)
    BY <1>1, <2>2 DEF Sync, Go, IInv, TypeInv, ProcessInv, Filling
  <2> QED BY <2>1, <2>2
<1>6. TypeInv'
  BY <1>3, <1>5 DEF IInv, TypeInv, work, life
<1>7. Gentle(p)
  BY <1>1, <1>2, <1>3, <1>5 DEF Gentle, Keeps, IInv, TypeInv, ProcessInv
<1>8. PublishedInv'
  BY <1>1, <1>3, <1>5 DEF PublishedInv, IInv, TypeInv
<1>9. OwnInv'
  BY <1>3 DEF OwnInv, IInv, work
<1>10. ProcessInv(p)'
  <2>1. Asked(job[p])' /\ job' = job /\ mine' = mine /\ making' = making /\ final' = final
    BY <1>1, <1>3 DEF work, Asked
  <2> QED BY <1>1, <1>5, <2>1 DEF ProcessInv, Filling
<1> QED BY <1>4, <1>6, <1>7, <1>8, <1>9, <1>10, GentleStep

(* The one step that publishes.                                            *)
LEMMA LinkStep ==
  ASSUME IInv, NEW p \in Processes, Link(p)
  PROVE  IInv' /\ Gentle(p)
<1>1. /\ pc[p] = "link" /\ Asked(job[p]) /\ job[p].kind = "persist"
      /\ mine[p] \in Inodes /\ making[p] /\ \A i \in Identities : final[i] # mine[p]
      /\ data[mine[p]] = job[p].content /\ mine[p] \in synced
  BY DEF Link, IInv, ProcessInv, Working, Places, Filling
<1>2. \A q \in Processes \ {p} : mine[q] # mine[p]
  BY <1>1, StoreParameters DEF IInv, OwnInv
<1>3. job[p].id \in Identities /\ job[p].content \in Contents
      /\ Identity[job[p].content] = job[p].id
  BY <1>1 DEF Asked
<1>4. UNCHANGED <<data, synced, temporary, settled, making, mine, seq, life>>
  BY DEF Link
<1>5. CASE /\ final[job[p].id] = None /\ final' = [final EXCEPT ![job[p].id] = mine[p]]
           /\ Conclude(p, Said("stored", job[p].content, None))
  <2>1. Said("stored", job[p].content, None) \in Answered
    BY <1>3, AnswerTypes
  <2>2. TypeInv'
    BY <1>1, <1>3, <1>4, <1>5, <2>1, ConcludeTypes DEF IInv, TypeInv, life
  <2>3. final'[job[p].id] = mine[p] /\ \A i \in Identities : i # job[p].id => final'[i] = final[i]
    BY <1>3, <1>5 DEF IInv, TypeInv
  <2>4. Gentle(p)
    BY <1>2, <1>4, <1>5, <2>3 DEF Gentle, Keeps
  <2>5. PublishedInv'
    BY <1>1, <1>3, <1>4, <2>3 DEF PublishedInv, IInv
  <2>6. OwnInv'
    BY <1>4 DEF OwnInv, IInv
  <2>7. PICK c \in Contents : c = job[p].content
    BY <1>3
  <2>8. Reliable(Said("stored", c, None))'
    <3>1. Stores(c)'
      BY <1>1, <1>3, <1>4, <2>3, <2>7, StoreParameters DEF Stores
    <3> QED BY <3>1 DEF Reliable, Said
  <2>9. Aside(p) /\ ProcessInv(p)'
    BY <1>1, <1>4, <1>5, <2>1, <2>7, <2>8, ConcludeInv DEF Working, Places
  <2> QED BY <2>2, <2>4, <2>5, <2>6, <2>9, GentleStep
<1>6. CASE final[job[p].id] # None /\ pc' = [pc EXCEPT ![p] = "inspect"]
           /\ UNCHANGED <<final, job, seen, outcome, answer, changedIds>>
  <2>1. TypeInv'
    BY <1>4, <1>6 DEF IInv, TypeInv, life, Places
  <2>2. Aside(p)
    BY <1>4, <1>6 DEF Aside, IInv, TypeInv
  <2>3. ProcessInv(p)'
    <3>1. pc'[p] = "inspect" /\ job' = job
      BY <1>6 DEF IInv, TypeInv
    <3> QED BY <1>1, <3>1 DEF ProcessInv, Filling, Asked
  <2>4. Gentle(p)
    BY <1>4, <1>6 DEF Gentle, Keeps
  <2> QED BY <1>4, <1>6, <2>1, <2>2, <2>3, <2>4, QuietStep DEF disk
<1> QED BY <1>5, <1>6 DEF Link, Go

LEMMA FailStep ==
  ASSUME IInv, NEW p \in Processes, IOFails(p)
  PROVE  IInv'
<1>1. pc[p] \in Filling /\ Asked(job[p])
  BY DEF IOFails, IInv, ProcessInv, Working, Places, Filling
<1>2. Failed("io") \in Answered
  BY AnswerTypes DEF Reasons
<1>3. TypeInv'
  BY <1>2, StoreParameters DEF IOFails, Go, IInv, TypeInv, disk, Places
<1>4. Aside(p)
  BY DEF IOFails, Go, Aside, IInv, TypeInv
<1>5. ProcessInv(p)'
  <2>1. pc'[p] = "remove" /\ outcome'[p] = Failed("io") /\ job' = job
    BY DEF IOFails, Go, IInv, TypeInv
  <2>2. Reliable(outcome[p])'
    BY <2>1 DEF Reliable, Failed, Said
  <2> QED BY <1>1, <2>1, <2>2 DEF ProcessInv, Filling, Asked
<1> QED BY <1>3, <1>4, <1>5, QuietStep DEF IOFails

(* An operation that concludes with an answer to rely upon.                *)
LEMMA ConcludeStep ==
  ASSUME IInv, NEW p \in Processes, NEW what \in Answered, Conclude(p, what),
         pc[p] \in Working, Reliable(what), UNCHANGED <<disk, making, mine, seq, life>>
  PROVE  IInv'
<1>1. Asked(job[p])
  BY DEF IInv, ProcessInv
<1>2. TypeInv'
  BY <1>1, ConcludeTypes DEF IInv, TypeInv, life, disk, Asked
<1>3. Reliable(what)'
  BY DEF Reliable, Stores, disk
<1> QED BY <1>2, <1>3, ConcludeInv, QuietStep

(* What a process concludes from what it has read can be relied upon.      *)
LEMMA JudgeReliable ==
  ASSUME IInv, NEW p \in Processes, pc[p] = "read"
  PROVE  /\ Judge(p, data[seen[p].file]) \in Answered
         /\ Reliable(Judge(p, data[seen[p].file]))
<1>1. /\ Asked(job[p]) /\ final[job[p].id] # None /\ seen[p].file = final[job[p].id]
  BY DEF IInv, ProcessInv, Working, Places
<1>2. PICK c \in Contents : c = data[seen[p].file] /\ Identity[c] = job[p].id
  BY <1>1 DEF IInv, PublishedInv, Asked
<1>3. Stores(c)
  BY <1>1, <1>2 DEF Stores
<1>4. CASE job[p].kind = "persist" /\ c = job[p].content
  BY <1>2, <1>3, <1>4, AnswerTypes DEF Judge, Reliable, Said
<1>5. CASE job[p].kind = "persist" /\ c # job[p].content
  BY <1>2, <1>5, AnswerTypes DEF Judge, Reliable, Failed, Said, Reasons
<1>6. CASE job[p].kind = "load"
  BY <1>2, <1>3, <1>6, AnswerTypes DEF Judge, Reliable, Said
<1> QED BY <1>1, <1>4, <1>5, <1>6 DEF Asked

LEMMA ReadStep ==
  ASSUME IInv, NEW p \in Processes, Inspect(p) \/ NoticeChange(p) \/ Read(p)
  PROVE  IInv'
<1>1. \A r \in Reasons : Failed(r) \in Answered /\ Reliable(Failed(r))
  BY AnswerTypes DEF Reliable, Failed, Said
<1>2. pc[p] \in Working /\ Asked(job[p])
  BY DEF Inspect, NoticeChange, Read, Working, Places, IInv, ProcessInv
<1>3. CASE /\ pc[p] = "inspect" /\ Conclude(p, Failed("missing"))
           /\ UNCHANGED <<disk, making, mine, seq, life>>
  BY <1>1, <1>2, <1>3, ConcludeStep DEF Reasons
<1>4. CASE /\ pc[p] = "inspect" /\ final[job[p].id] # None
           /\ seen' = [seen EXCEPT ![p] = Stamp(final[job[p].id])]
           /\ pc' = [pc EXCEPT ![p] = "open"]
           /\ UNCHANGED <<job, outcome, answer, changedIds, disk, making, mine, seq, life>>
  <2>1. final[job[p].id] \in Inodes
    BY <1>2, <1>4 DEF IInv, Asked, TypeInv
  <2>2. TypeInv'
    BY <1>4, <2>1, StampType DEF IInv, TypeInv, disk, life, Places
  <2>3. Aside(p)
    BY <1>4 DEF Aside, IInv, TypeInv
  <2>4. ProcessInv(p)'
    <3>1. pc'[p] = "open" /\ job' = job /\ final' = final
      BY <1>4 DEF IInv, TypeInv, disk
    <3>2. Asked(job[p])'
      BY <1>2, <3>1 DEF Asked
    <3> QED BY <1>4, <3>1, <3>2 DEF ProcessInv, Filling
  <2> QED BY <1>4, <2>2, <2>3, <2>4, QuietStep
<1>5. CASE NoticeChange(p)
  BY <1>1, <1>2, <1>5, ConcludeStep DEF NoticeChange, Reasons
<1>6. CASE Read(p)
  BY <1>2, <1>6, JudgeReliable, ConcludeStep DEF Read
<1> QED BY <1>3, <1>4, <1>5, <1>6 DEF Inspect, Go

-----------------------------------------------------------------------------
(* The end of an operation and of a process                                *)

(* A process lets go of everything: what others publish and fill stays.    *)
LEMMA LetGo ==
  ASSUME IInv, NEW p \in Processes, Forget(p), Reclaim, UNCHANGED <<final, settled>>,
         \E place \in {"down", "idle"} : Go(p, place),
         temporary' \in [Names -> Inodes \cup {None}], pid' \in [Processes -> Pids \cup {None}],
         seq' \in [Processes -> 0..MaxAttempts], answer' \in [Processes -> Answered],
         faults' \in 0..MaxFaults, changedIds' \in [Processes -> SUBSET Identities]
  PROVE  IInv' /\ Gentle(p)
<1>1. TypeInv'
  <2>1. data' \in [Inodes -> Data] /\ synced' \subseteq Inodes
    BY DEF Reclaim, IInv, TypeInv, Data
  <2>2. pc' \in [Processes -> Places]
    BY DEF Go, IInv, TypeInv, Places
  <2>3. /\ job' \in [Processes -> Jobs] /\ making' \in [Processes -> BOOLEAN]
        /\ mine' \in [Processes -> Inodes \cup {None}]
        /\ outcome' \in [Processes -> Answered]
    BY NoJobType, AnswerTypes DEF Forget, IInv, TypeInv
  <2>4. seen' \in [Processes -> [file : Inodes \cup {None}, data : Data \cup {None},
                                 names : SUBSET Names]]
    BY UnseenType DEF Forget, IInv, TypeInv
  <2> QED BY <2>1, <2>2, <2>3, <2>4 DEF IInv, TypeInv
<1>2. Aside(p)
  BY DEF Go, Forget, Aside, IInv, TypeInv
<1>3. ASSUME NEW f \in Inodes, Exists(f)' PROVE Keeps(f)
  BY <1>3 DEF Reclaim, Keeps
<1>4. \A i \in Identities : final[i] # None => final[i] \in Inodes /\ Exists(final[i])'
  BY DEF Exists, IInv, TypeInv
<1>5. ASSUME NEW q \in Processes \ {p}, pc[q] \in Filling
      PROVE  mine[q] \in Inodes /\ Exists(mine[q])'
  BY <1>2, <1>5 DEF Exists, Aside, IInv, ProcessInv
<1>6. Gentle(p)
  <2>1. ASSUME NEW i \in Identities, final[i] # None
        PROVE  final'[i] = final[i] /\ Keeps(final[i])
    BY <1>3, <1>4, <2>1
  <2>2. ASSUME NEW q \in Processes \ {p}, pc[q] \in Filling PROVE Keeps(mine[q])
    <3>1. PICK f \in Inodes : f = mine[q] /\ Exists(f)'
      BY <1>2, <1>5, <2>2 DEF Aside, Exists
    <3> QED BY <1>3, <3>1
  <2> QED BY <2>1, <2>2 DEF Gentle
<1>7. PublishedInv'
  BY <1>3, <1>4 DEF PublishedInv, IInv, Keeps
<1>8. OwnInv'
  BY DEF OwnInv, Forget, IInv, TypeInv
<1>9. ProcessInv(p)'
  <2>1. pc'[p] \in {"down", "idle"}
    BY DEF Go, IInv, TypeInv
  <2> QED BY <2>1 DEF ProcessInv, Filling, Working
<1> QED BY <1>1, <1>2, <1>6, <1>7, <1>8, <1>9, GentleStep

LEMMA RemoveStep ==
  ASSUME IInv, NEW p \in Processes, Remove(p)
  PROVE  IInv' /\ Gentle(p)
<1>1. /\ temporary' \in [Names -> Inodes \cup {None}] /\ faults' \in 0..MaxFaults
      /\ answer' \in [Processes -> Answered]
  BY StoreParameters DEF Remove, IInv, TypeInv
<1>2. /\ pid' \in [Processes -> Pids \cup {None}] /\ seq' \in [Processes -> 0..MaxAttempts]
      /\ changedIds' \in [Processes -> SUBSET Identities]
  BY DEF Remove, IInv, TypeInv
<1> QED BY <1>1, <1>2, LetGo DEF Remove

LEMMA ExitStep ==
  ASSUME IInv, NEW p \in Processes, Die(p) \/ Quit(p)
  PROVE  IInv' /\ Gentle(p)
<1>1. Exit(p) /\ faults' \in 0..MaxFaults
  BY StoreParameters DEF Die, Quit, IInv, TypeInv
<1>2. /\ pid' \in [Processes -> Pids \cup {None}] /\ seq' \in [Processes -> 0..MaxAttempts]
      /\ changedIds' \in [Processes -> SUBSET Identities]
      /\ answer' \in [Processes -> Answered] /\ temporary' \in [Names -> Inodes \cup {None}]
  BY <1>1, StoreParameters, AnswerTypes DEF Exit, IInv, TypeInv
<1> QED BY <1>1, <1>2, LetGo DEF Exit

LEMMA StartStep ==
  ASSUME IInv, NEW p \in Processes, NEW q \in Pids, Start(p, q)
  PROVE  IInv'
<1>1. TypeInv'
  BY DEF Start, Go, IInv, TypeInv, disk, work, Places
<1>2. Aside(p)
  BY DEF Start, Go, Aside, IInv, TypeInv, work
<1>3. ProcessInv(p)'
  <2>1. pc'[p] = "idle"
    BY DEF Start, Go, IInv, TypeInv
  <2> QED BY <2>1 DEF ProcessInv, Filling, Working
<1> QED BY <1>1, <1>2, <1>3, QuietStep DEF Start, work

(* A loss of power leaves what was synced, and no process.                 *)
LEMMA PowerStep ==
  ASSUME IInv, PowerLoss
  PROVE  /\ IInv'
         /\ \A i \in Identities : \/ final'[i] = None
                                  \/ final'[i] = final[i] /\ data'[final'[i]] = data[final[i]]
<1>1. /\ \A i \in Identities : final'[i] \in {final[i], None}
      /\ final' \in [Identities -> Inodes \cup {None}]
      /\ temporary' \in [Names -> Inodes \cup {None}]
  BY DEF PowerLoss, IInv, TypeInv
<1>2. data' \in [Inodes -> Data] /\ synced' \subseteq Inodes
  <2>1. PICK torn \in SUBSET Inodes :
          data' = [f \in Inodes |-> IF f \in torn THEN "partial"
                                    ELSE IF Exists(f)' THEN data[f] ELSE "empty"]
    BY DEF PowerLoss
  <2> QED BY <2>1 DEF PowerLoss, IInv, TypeInv, Data
<1>3. ASSUME NEW f \in Inodes, f \in synced, Exists(f)'
      PROVE  data'[f] = data[f] /\ f \in synced'
  BY <1>3 DEF PowerLoss
<1>4. ASSUME NEW i \in Identities, final'[i] # None
      PROVE  /\ final'[i] = final[i] /\ final[i] \in Inodes /\ final[i] \in synced
             /\ Exists(final[i])'
  BY <1>1, <1>4 DEF Exists, IInv, PublishedInv, TypeInv
<1>5. PublishedInv'
  BY <1>3, <1>4 DEF PublishedInv, IInv
<1>6. TypeInv'
  <2>1. /\ settled' \subseteq Identities /\ pc' \in [Processes -> Places]
        /\ faults' \in 0..MaxFaults
    BY StoreParameters DEF PowerLoss, IInv, TypeInv, Places, Down
  <2>2. /\ job' \in [Processes -> Jobs] /\ pid' \in [Processes -> Pids \cup {None}]
        /\ seq' \in [Processes -> 0..MaxAttempts] /\ making' \in [Processes -> BOOLEAN]
        /\ mine' \in [Processes -> Inodes \cup {None}]
        /\ outcome' \in [Processes -> Answered] /\ answer' \in [Processes -> Answered]
        /\ changedIds' \in [Processes -> SUBSET Identities]
    BY NoJobType, AnswerTypes, StoreParameters DEF PowerLoss
  <2>3. seen' \in [Processes -> [file : Inodes \cup {None}, data : Data \cup {None},
                                 names : SUBSET Names]]
    BY UnseenType DEF PowerLoss
  <2> QED BY <1>1, <1>2, <2>1, <2>2, <2>3 DEF TypeInv
<1>7. OwnInv' /\ \A q \in Processes : ProcessInv(q)'
  BY DEF PowerLoss, Down, OwnInv, ProcessInv, Filling, Working
<1> QED BY <1>3, <1>4, <1>5, <1>6, <1>7 DEF IInv

-----------------------------------------------------------------------------
LEMMA InitialStep == Init => IInv
<1> SUFFICES ASSUME Init PROVE IInv
  OBVIOUS
<1>1. TypeInv
  BY NoJobType, AnswerTypes, UnseenType, StoreParameters
  DEF Init, TypeInv, Data, Places, Down
<1> QED BY <1>1 DEF Init, IInv, PublishedInv, OwnInv, ProcessInv, Filling, Working, Down

LEMMA InductiveStep == IInv /\ [Next]_vars => IInv'
<1> SUFFICES ASSUME IInv, [Next]_vars PROVE IInv'
  OBVIOUS
<1>1. CASE UNCHANGED vars
  BY <1>1 DEF vars, disk, work, life, IInv, TypeInv, PublishedInv, OwnInv, ProcessInv, Asked,
     Reliable, Stores
<1>2. ASSUME NEW p \in Processes, Step(p) PROVE IInv'
  BY <1>2, CreateStep, FillStep, LinkStep, FailStep, MoveStep, ReadStep, RemoveStep, ExitStep
  DEF Step
<1>3. ASSUME NEW p \in Processes, \/ \E c \in Contents : Persist(p, c)
                                  \/ \E i \in Identities : Load(p, i)
      PROVE  IInv'
  BY <1>3, BeginStep
<1>4. ASSUME NEW p \in Processes, NEW q \in Pids, Start(p, q) PROVE IInv'
  BY <1>4, StartStep
<1> QED BY <1>1, <1>2, <1>3, <1>4, PowerStep DEF Next

(* The inductive invariant: published files are complete and synced, files *)
(* being filled belong to one process and to no identity, and a process    *)
(* that answers knows what the store holds.                                *)
THEOREM Invariant == Spec => []IInv
BY InitialStep, InductiveStep, PTL DEF Spec

(* Only a loss of power counts as one.                                     *)
LEMMA LossesStep ==
  ASSUME [Next]_vars
  PROVE  losses' = losses \/ (PowerLoss /\ losses' = losses + 1)
<1>1. CASE UNCHANGED vars
  BY <1>1 DEF vars, life
<1>2. ASSUME NEW p \in Processes, Step(p) PROVE losses' = losses
  BY <1>2 DEF Step, CheckExists, Create, Write, Sync, Link, IOFails, Inspect, NoticeChange,
              Open, Read, Remove, Die, Quit, Exit, life
<1>3. ASSUME NEW p \in Processes, \/ \E c \in Contents : Persist(p, c)
                                  \/ \E i \in Identities : Load(p, i)
                                  \/ \E q \in Pids : Start(p, q)
      PROVE  losses' = losses
  BY <1>3 DEF Persist, Load, Begin, Start, life
<1>4. CASE PowerLoss
  BY <1>4 DEF PowerLoss
<1> QED BY <1>1, <1>2, <1>3, <1>4 DEF Next

(* Every variable keeps its type; a process that fills has a file, and one *)
(* that reads has seen the file it reads.                                  *)
THEOREM TypeCorrect == Spec => []TypeOK
<1>1. IInv /\ losses \in Nat => TypeOK
  <2> SUFFICES ASSUME IInv, losses \in Nat PROVE TypeOK
    OBVIOUS
  <2>1. ASSUME NEW p \in Processes
        PROVE  /\ pc[p] \in {"write", "sync", "link"} => mine[p] \in Inodes
               /\ pc[p] = "read" => seen[p].file \in Inodes
    <3>1. ProcessInv(p)
      BY DEF IInv
    <3> QED BY <3>1 DEF IInv, TypeInv, ProcessInv, Filling, Working, Places, Asked
  <2> QED BY <2>1 DEF IInv, TypeInv, TypeOK
<1>2. Init => losses \in Nat
  BY DEF Init
<1>3. losses \in Nat /\ [Next]_vars => (losses \in Nat)'
  BY LossesStep
<1> QED BY <1>1, <1>2, <1>3, Invariant, PTL DEF Spec

(* Whatever is found under an identity is a complete artifact of that      *)
(* identity, whoever died and however often power was lost.                *)
THEOREM PublishedIsAlwaysComplete == Spec => []PublishedIsComplete
<1>1. IInv => PublishedIsComplete
  BY DEF IInv, PublishedInv, PublishedIsComplete
<1> QED BY <1>1, Invariant, PTL

-----------------------------------------------------------------------------
(* A reader is told only once that an artifact changed                     *)

Temporaries(f) == {n \in Names : temporary[n] = f}

(* A file is created under one temporary name and never gets another.      *)
OneName ==
  \A n, m \in Names : temporary[n] # None /\ temporary[n] = temporary[m] => n = m

(* A reader has seen the artifact as it is, except for a temporary name    *)
(* that is gone since; once it was told of that, there is no other.        *)
Sighted(p) ==
  /\ seen[p].file = final[job[p].id]
  /\ seen[p].data = data[final[job[p].id]]
  /\ Temporaries(final[job[p].id]) \subseteq seen[p].names
  /\ \A n, m \in seen[p].names : n = m
  /\ job[p].id \in changedIds[p] => seen[p].names = {}
Alone(i) == final[i] # None /\ Temporaries(final[i]) = {}

ReaderInv(p) ==
  /\ pc[p] \in {"open", "read"} => Sighted(p)
  /\ \A i \in changedIds[p] : Alone(i)

ReadersInv ==
  /\ OneName
  /\ \A p \in Processes : ReaderInv(p)

(* What no step but a loss of power does to the artifacts: they stay, and  *)
(* get no name.                                                            *)
Settled(i) ==
  /\ final'[i] = final[i] /\ data'[final[i]] = data[final[i]]
  /\ Temporaries(final[i])' \subseteq Temporaries(final[i])
Mild == \A i \in Identities : final[i] # None => Settled(i)

(* A step that creates no name leaves every file with one at most.         *)
LEMMA NamesOnlyGo ==
  ASSUME OneName, \A n \in Names : temporary'[n] \in {temporary[n], None}
  PROVE  OneName'
BY DEF OneName

(* A gentle step that creates no name is mild.                             *)
LEMMA GentleIsMild ==
  ASSUME IInv, NEW p \in Processes, Gentle(p),
         \A n \in Names : temporary'[n] \in {temporary[n], None}
  PROVE  Mild
<1>1. ASSUME NEW i \in Identities, final[i] # None PROVE Settled(i)
  <2>1. PICK f \in Inodes : f = final[i]
    BY <1>1 DEF IInv, TypeInv
  <2>2. final'[i] = f /\ data'[f] = data[f]
    BY <1>1, <2>1 DEF Gentle, Keeps
  <2>3. \A n \in Names : temporary'[n] = f => temporary[n] = f
    BY <2>1, StoreParameters
  <2> QED BY <2>1, <2>2, <2>3 DEF Settled, Temporaries
<1> QED BY <1>1 DEF Mild

(* An artifact keeps its solitude.                                         *)
LEMMA AloneStays ==
  ASSUME Mild, NEW i \in Identities, Alone(i)
  PROVE  Alone(i)'
BY DEF Mild, Settled, Alone

(* A process that looks at nothing new, while the artifacts stay.          *)
LEMMA StillSees ==
  ASSUME IInv, Mild, NEW p \in Processes, ReaderInv(p),
         \/ /\ pc'[p] = pc[p] /\ job'[p] = job[p] /\ seen'[p] = seen[p]
         \/ pc'[p] \notin {"open", "read"},
         changedIds'[p] \in {changedIds[p], {}}
  PROVE  ReaderInv(p)'
<1>1. \A i \in changedIds'[p] : Alone(i)'
  BY AloneStays DEF ReaderInv, IInv, TypeInv
<1>2. ASSUME pc'[p] \in {"open", "read"} PROVE Sighted(p)'
  <2>1. /\ pc[p] \in {"open", "read"} /\ job'[p] = job[p] /\ seen'[p] = seen[p]
        /\ Sighted(p)
    BY <1>2 DEF ReaderInv
  <2>2. job[p].id \in Identities /\ final[job[p].id] # None
    BY <2>1 DEF IInv, ProcessInv, Working, Places, Asked
  <2>3. Settled(job[p].id)
    BY <2>2 DEF Mild
  <2> QED BY <2>1, <2>3 DEF Sighted, Settled
<1> QED BY <1>1, <1>2 DEF ReaderInv

(* What is left to show of a mild step of one process.                     *)
OnlyItself(p) ==
  \A q \in Processes \ {p} :
    pc'[q] = pc[q] /\ job'[q] = job[q] /\ seen'[q] = seen[q] /\ changedIds'[q] = changedIds[q]

LEMMA MildStep ==
  ASSUME IInv, ReadersInv, Mild, OneName', NEW p \in Processes, OnlyItself(p), ReaderInv(p)'
  PROVE  ReadersInv'
<1>1. ASSUME NEW q \in Processes, q # p PROVE ReaderInv(q)'
  BY <1>1, StillSees DEF ReadersInv, OnlyItself
<1> QED BY <1>1 DEF ReadersInv

(* The steps that look at no artifact.                                     *)
LEMMA BlindStep ==
  ASSUME IInv, ReadersInv, NEW p \in Processes, Gentle(p), OnlyItself(p),
         \A n \in Names : temporary'[n] \in {temporary[n], None},
         pc'[p] \notin {"open", "read"}, changedIds'[p] \in {changedIds[p], {}}
  PROVE  ReadersInv'
<1>1. Mild /\ OneName'
  BY GentleIsMild, NamesOnlyGo DEF ReadersInv
<1> QED BY <1>1, MildStep, StillSees DEF ReadersInv

(* The names and the artifacts, when the disk is as it was.                *)
LEMMA DiskIsMild ==
  ASSUME ReadersInv, UNCHANGED disk
  PROVE  Mild /\ OneName'
BY DEF disk, Mild, Settled, Temporaries, ReadersInv, OneName

(* A name is given to a file that no identity leads to.                    *)
LEMMA CreateSeen ==
  ASSUME IInv, ReadersInv, NEW p \in Processes, Create(p)
  PROVE  ReadersInv'
<1>1. /\ OnlyItself(p) /\ changedIds' = changedIds /\ pc'[p] \in {"write", "remove"}
  BY DEF Create, Go, OnlyItself, IInv, TypeInv
<1>2. CASE UNCHANGED disk
  BY <1>1, <1>2, DiskIsMild, StillSees, MildStep DEF ReadersInv
<1>3. ASSUME NEW f \in Free, temporary' = [temporary EXCEPT ![NextName(p)] = f],
             final' = final, data' = [data EXCEPT ![f] = "empty"]
      PROVE  ReadersInv'
  <2>1. /\ f \in Inodes /\ \A i \in Identities : final[i] # f
        /\ \A n \in Names : temporary[n] # f
    BY <1>3 DEF Free, Exists
  <2>2. \A n \in Names : temporary'[n] = IF n = NextName(p) THEN f ELSE temporary[n]
    BY <1>3 DEF IInv, TypeInv
  <2>3. OneName'
    BY <2>1, <2>2 DEF ReadersInv, OneName
  <2>4. ASSUME NEW i \in Identities, final[i] # None PROVE Settled(i)
    <3>1. PICK g \in Inodes : g = final[i] /\ g # f
      BY <2>1, <2>4 DEF IInv, TypeInv
    <3>2. \A n \in Names : temporary'[n] = g => temporary[n] = g
      BY <2>2, <3>1
    <3>3. data'[g] = data[g]
      BY <1>3, <3>1 DEF IInv, TypeInv
    <3> QED BY <1>3, <3>1, <3>2, <3>3 DEF Settled, Temporaries
  <2>5. Mild
    BY <2>4 DEF Mild
  <2> QED BY <1>1, <2>3, <2>5, StillSees, MildStep DEF ReadersInv
<1> QED BY <1>2, <1>3 DEF Create, disk

(* A process looks at the artifact it was asked for.                       *)
LEMMA LookStep ==
  ASSUME IInv, ReadersInv, NEW p \in Processes, Asked(job[p]), final[job[p].id] # None,
         seen' = [seen EXCEPT ![p] = Stamp(final[job[p].id])], OnlyItself(p),
         UNCHANGED <<disk, job, changedIds>>
  PROVE  ReadersInv'
<1>1. PICK f \in Inodes : f = final[job[p].id]
  BY DEF IInv, TypeInv, Asked
<1>2. seen'[p] = Stamp(f) /\ final' = final /\ data' = data /\ temporary' = temporary
  BY <1>1 DEF IInv, TypeInv, disk
<1>3. Temporaries(f)' = Temporaries(f) /\ Stamp(f).names = Temporaries(f)
      /\ Stamp(f).file = f /\ Stamp(f).data = data[f]
  BY <1>2 DEF Temporaries, Stamp
<1>4. \A n, m \in Temporaries(f) : n = m
  BY <1>1, StoreParameters DEF ReadersInv, OneName, Temporaries
<1>5. job[p].id \in changedIds[p] => Temporaries(f) = {}
  BY <1>1 DEF ReadersInv, ReaderInv, Alone
<1>6. Sighted(p)'
  BY <1>1, <1>2, <1>3, <1>4, <1>5 DEF Sighted
<1>7. Mild /\ OneName'
  BY DiskIsMild
<1>8. \A i \in changedIds'[p] : Alone(i)'
  BY <1>7, AloneStays DEF ReadersInv, ReaderInv, IInv, TypeInv
<1> QED BY <1>6, <1>7, <1>8, MildStep DEF ReaderInv

(* Who concludes has looked for the last time.                             *)
LEMMA ConcludeSeen ==
  ASSUME IInv, ReadersInv, NEW p \in Processes, NEW what, Conclude(p, what), Mild, OneName',
         what.reason = "changed" => /\ job[p].id \in Identities /\ Alone(job[p].id)
  PROVE  ReadersInv'
<1>1. OnlyItself(p) /\ pc'[p] \in {"remove", "idle"}
  BY DEF Conclude, Go, OnlyItself, IInv, TypeInv
<1>2. \A i \in changedIds'[p] : i \in Identities /\ Alone(i)
  BY DEF Conclude, ReadersInv, ReaderInv, IInv, TypeInv
<1>3. ReaderInv(p)'
  BY <1>1, <1>2, AloneStays DEF ReaderInv
<1> QED BY <1>1, <1>3, MildStep

(* An artifact that differs from what was seen has lost the temporary name *)
(* it was seen with: there is none left, and this was not told before.     *)
LEMMA ChangeIsTheName ==
  ASSUME IInv, ReadersInv, NEW p \in Processes, NoticeChange(p)
  PROVE  /\ job[p].id \in Identities /\ Alone(job[p].id)
         /\ job[p].id \notin changedIds[p]
<1>1. /\ pc[p] \in {"open", "read"} /\ Sighted(p) /\ Asked(job[p]) /\ final[job[p].id] # None
  BY DEF NoticeChange, ReadersInv, ReaderInv, IInv, ProcessInv, Working, Places
<1>2. PICK f \in Inodes : f = final[job[p].id]
  BY <1>1 DEF IInv, TypeInv, Asked
<1>3. Stamp(f) # seen[p]
  BY <1>1, <1>2 DEF NoticeChange, Differs, Sighted
<1>4. seen[p].file = f /\ seen[p].data = data[f] /\ Temporaries(f) \subseteq seen[p].names
  BY <1>1, <1>2 DEF Sighted
<1>5. Temporaries(f) # seen[p].names
  <2>1. PICK s \in [file : Inodes \cup {None}, data : Data \cup {None}, names : SUBSET Names] :
          s = seen[p]
    BY DEF IInv, TypeInv
  <2>2. s = [file |-> s.file, data |-> s.data, names |-> s.names]
    BY <2>1
  <2> QED BY <1>3, <1>4, <2>1, <2>2 DEF Stamp, Temporaries
<1>6. PICK n \in seen[p].names : n \notin Temporaries(f)
  BY <1>4, <1>5
<1>7. Temporaries(f) = {}
  BY <1>1, <1>4, <1>6 DEF Sighted
<1> QED BY <1>1, <1>2, <1>6, <1>7 DEF Sighted, Alone, Asked

(* The steps of a process.                                                 *)
LEMMA ProcessSees ==
  ASSUME IInv, ReadersInv, NEW p \in Processes, Step(p)
  PROVE  ReadersInv'
<1>1. CASE CheckExists(p) \/ IOFails(p)
  <2>1. /\ OnlyItself(p) /\ changedIds' = changedIds /\ UNCHANGED disk
        /\ pc'[p] \in {"inspect", "create", "remove"}
    BY <1>1 DEF CheckExists, IOFails, Go, OnlyItself, IInv, TypeInv, work
  <2> QED BY <2>1, DiskIsMild, StillSees, MildStep DEF ReadersInv
<1>2. CASE Create(p)
  BY <1>2, CreateSeen
<1>3. CASE Write(p) \/ Sync(p)
  <2>1. /\ OnlyItself(p) /\ changedIds' = changedIds /\ temporary' = temporary
        /\ pc'[p] \in {"write", "sync", "link"} /\ Gentle(p)
    BY <1>3, FillStep DEF Write, Sync, Go, OnlyItself, IInv, TypeInv, work
  <2> QED BY <2>1, BlindStep
<1>4. CASE Link(p)
  <2>1. Gentle(p) /\ temporary' = temporary
    BY <1>4, LinkStep DEF Link
  <2>2. Mild /\ OneName'
    BY <2>1, GentleIsMild, NamesOnlyGo DEF ReadersInv
  <2>3. CASE Conclude(p, Said("stored", job[p].content, None))
    <3>1. Said("stored", job[p].content, None).reason # "changed"
      BY StoreParameters DEF Said
    <3> QED BY <2>2, <2>3, <3>1, ConcludeSeen
  <2>4. CASE Go(p, "inspect") /\ UNCHANGED <<final, job, seen, outcome, answer, changedIds>>
    <3>1. OnlyItself(p) /\ pc'[p] = "inspect"
      BY <2>4 DEF Go, OnlyItself, IInv, TypeInv
    <3> QED BY <2>1, <2>4, <3>1, BlindStep
  <2> QED BY <1>4, <2>3, <2>4 DEF Link
<1>5. CASE Inspect(p) \/ Open(p)
  <2>1. pc[p] \in Working /\ Asked(job[p]) /\ UNCHANGED disk
    BY <1>5 DEF Inspect, Open, Working, Places, IInv, ProcessInv
  <2>2. CASE Conclude(p, Failed("missing"))
    <3>1. Failed("missing").reason # "changed"
      BY DEF Failed, Said
    <3> QED BY <2>1, <2>2, <3>1, DiskIsMild, ConcludeSeen
  <2>3. CASE /\ final[job[p].id] # None /\ seen' = [seen EXCEPT ![p] = Stamp(final[job[p].id])]
             /\ \E place \in {"open", "read"} : Go(p, place)
             /\ UNCHANGED <<job, changedIds>>
    <3>1. OnlyItself(p)
      BY <2>3 DEF Go, OnlyItself, IInv, TypeInv
    <3> QED BY <2>1, <2>3, <3>1, LookStep
  <2>4. Open(p) => final[job[p].id] # None
    BY DEF Open, IInv, ProcessInv
  <2> QED BY <1>5, <2>2, <2>3, <2>4 DEF Inspect, Open
<1>6. CASE NoticeChange(p)
  BY <1>6, ChangeIsTheName, DiskIsMild, ConcludeSeen DEF NoticeChange
<1>7. CASE Read(p)
  <2>1. Judge(p, data[seen[p].file]).reason # "changed"
    BY StoreParameters DEF Judge, Said, Failed
  <2> QED BY <1>7, <2>1, DiskIsMild, ConcludeSeen DEF Read
<1>8. CASE Remove(p) \/ Die(p) \/ Quit(p)
  <2>1. Gentle(p)
    BY <1>8, RemoveStep, ExitStep
  <2>2. \A n \in Names : temporary'[n] \in {temporary[n], None}
    BY <1>8 DEF Remove, Die, Quit, Exit, IInv, TypeInv
  <2>3. /\ OnlyItself(p) /\ pc'[p] \in {"idle", "down"}
        /\ changedIds'[p] \in {changedIds[p], {}}
    BY <1>8 DEF Remove, Die, Quit, Exit, Forget, Go, OnlyItself, IInv, TypeInv
  <2> QED BY <2>1, <2>2, <2>3, BlindStep
<1> QED BY <1>1, <1>2, <1>3, <1>4, <1>5, <1>6, <1>7, <1>8 DEF Step

LEMMA ReadersStep == IInv /\ ReadersInv /\ [Next]_vars => ReadersInv'
<1> SUFFICES ASSUME IInv, ReadersInv, [Next]_vars PROVE ReadersInv'
  OBVIOUS
<1>1. CASE UNCHANGED vars
  BY <1>1 DEF vars, disk, work, life, ReadersInv, OneName, ReaderInv, Sighted, Alone, Temporaries
<1>2. ASSUME NEW p \in Processes, Step(p) PROVE ReadersInv'
  BY <1>2, ProcessSees
<1>3. ASSUME NEW p \in Processes, \/ \E c \in Contents : Persist(p, c)
                                  \/ \E i \in Identities : Load(p, i)
                                  \/ \E q \in Pids : Start(p, q)
      PROVE  ReadersInv'
  <2>1. /\ OnlyItself(p) /\ changedIds' = changedIds /\ UNCHANGED disk
        /\ pc'[p] \in {"exists", "inspect", "idle"}
    BY <1>3 DEF Persist, Load, Begin, Start, Go, OnlyItself, IInv, TypeInv, work
  <2> QED BY <2>1, DiskIsMild, StillSees, MildStep DEF ReadersInv
<1>4. CASE PowerLoss
  <2>1. \A n \in Names : temporary'[n] \in {temporary[n], None}
    BY <1>4 DEF PowerLoss
  <2>2. \A q \in Processes : ReaderInv(q)'
    BY <1>4 DEF PowerLoss, Down, ReaderInv
  <2> QED BY <2>1, <2>2, NamesOnlyGo DEF ReadersInv
<1> QED BY <1>1, <1>2, <1>3, <1>4 DEF Next

LEMMA ReadersStart == Init => ReadersInv
BY DEF Init, Down, ReadersInv, OneName, ReaderInv

(* An artifact changes once under its readers, when its publisher's        *)
(* temporary name goes away, whoever dies and whenever power is lost: a    *)
(* process that tries again is not told so again.                          *)
THEOREM ChangesAreAlwaysSeenOnce == Spec => ChangesAreSeenOnce
<1>1. IInv /\ ReadersInv /\ [Next]_vars
      => [\A p \in Processes : NoticeChange(p) => job[p].id \notin changedIds[p]]_vars
  BY ChangeIsTheName
<1> QED BY <1>1, InitialStep, InductiveStep, ReadersStart, ReadersStep, PTL
        DEF Spec, ChangesAreSeenOnce

-----------------------------------------------------------------------------
(* The store implements a write-once map                                   *)

Stored == [i \in Identities |-> IF final[i] = None THEN None ELSE data[final[i]]]
Told == [p \in Processes |-> [verdict |-> answer[p].verdict, content |-> answer[p].content]]
Same == Stored' = Stored /\ Told' = Told /\ losses' = losses

(* The map the store stands for changes only with the names.               *)
LEMMA NamesAreTheMap ==
  ASSUME NEW p \in Processes, Gentle(p), final' = final
  PROVE  Stored' = Stored
BY DEF Gentle, Keeps, Stored

LEMMA DiskIsTheMap ==
  ASSUME UNCHANGED disk
  PROVE  Stored' = Stored
BY DEF disk, Stored

(* An answer that can be relied upon confirms what the map holds, or fails.*)
LEMMA TellStep ==
  ASSUME IInv, NEW p \in Processes, NEW what \in Answered, Reliable(what),
         answer' = [answer EXCEPT ![p] = what], Stored' = Stored, losses' = losses
  PROVE  WriteOnce!Next
<1>1. Told' = [Told EXCEPT ![p] = [verdict |-> what.verdict, content |-> what.content]]
  BY DEF Told, IInv, TypeInv
<1>2. CASE what.verdict = "failed" /\ what.content = None
  <2>1. WriteOnce!Fail(p)
    BY <1>1, <1>2 DEF WriteOnce!Fail, Told, Stored
  <2> QED BY <2>1 DEF WriteOnce!Next
<1>3. CASE what.verdict \in {"stored", "loaded"} /\ Stores(what.content)
  <2>1. Identity[what.content] \in Identities /\ Stored[Identity[what.content]] = what.content
    BY <1>3 DEF Stores, Identities, Stored
  <2>2. WriteOnce!Confirm(p, what.content)
    BY <1>1, <1>3, <2>1 DEF WriteOnce!Confirm, Told, Stored
  <2> QED BY <1>3, <2>2 DEF WriteOnce!Next, Stores
<1> QED BY <1>2, <1>3 DEF Reliable

LEMMA AskStep ==
  ASSUME IInv, NEW p \in Processes, answer' = [answer EXCEPT ![p] = Nothing], Stored' = Stored,
         losses' = losses
  PROVE  WriteOnce!Next
<1>1. Told' = [Told EXCEPT ![p] = [verdict |-> None, content |-> None]]
  BY DEF Told, IInv, TypeInv, Nothing, Said
<1>2. WriteOnce!Ask(p)
  BY <1>1 DEF WriteOnce!Ask, WriteOnce!Unanswered, Told, Stored
<1> QED BY <1>2 DEF WriteOnce!Next

(* Who concludes answers at once or after the removal.                     *)
LEMMA ConcludeTells ==
  ASSUME IInv, NEW p \in Processes, NEW what \in Answered, Conclude(p, what),
         Reliable(what), UNCHANGED disk, losses' = losses
  PROVE  WriteOnce!Next \/ Same
<1>1. CASE making[p]
  BY <1>1, DiskIsTheMap DEF Conclude, Same, Told
<1>2. CASE ~making[p]
  BY <1>2, DiskIsTheMap, TellStep DEF Conclude
<1> QED BY <1>1, <1>2

(* A name that appears publishes the content of the artifact.              *)
LEMMA LinkPublishes ==
  ASSUME IInv, NEW p \in Processes, Link(p), losses' = losses
  PROVE  WriteOnce!Next \/ Same
<1>1. /\ Asked(job[p]) /\ job[p].kind = "persist" /\ making[p]
      /\ mine[p] \in Inodes /\ data[mine[p]] = job[p].content
  BY DEF Link, IInv, ProcessInv, Working, Places, Filling
<1>2. data' = data /\ answer' = answer
  BY <1>1 DEF Link, Conclude
<1>3. CASE final' = final
  BY <1>2, <1>3 DEF Same, Stored, Told
<1>4. CASE final[job[p].id] = None /\ final' = [final EXCEPT ![job[p].id] = mine[p]]
  <2>1. PICK c \in Contents : c = job[p].content /\ Identity[c] = job[p].id
    BY <1>1 DEF Asked
  <2>2. Identity[c] \in Identities /\ mine[p] # None
    BY <1>1, <2>1, StoreParameters DEF Identities
  <2>3. Stored[Identity[c]] = None
    BY <1>4, <2>1, <2>2 DEF Stored
  <2>4. Stored' = [Stored EXCEPT ![Identity[c]] = c]
    BY <1>1, <1>2, <1>4, <2>1, <2>2 DEF Stored, IInv, TypeInv
  <2>5. Told' = Told
    BY <1>2 DEF Told
  <2>6. WriteOnce!Publish(c)
    BY <2>3, <2>4, <2>5 DEF WriteOnce!Publish, Stored, Told
  <2> QED BY <2>6 DEF WriteOnce!Next
<1> QED BY <1>3, <1>4 DEF Link

LEMMA PowerForgets ==
  ASSUME IInv, PowerLoss
  PROVE  WriteOnce!Next
<1>1. \A i \in Identities : Stored'[i] \in {Stored[i], None}
  BY PowerStep DEF Stored
<1>2. DOMAIN Stored' = WriteOnce!Identities
  BY DEF Stored, Identities, WriteOnce!Identities
<1>3. Told' = [q \in Processes |-> [verdict |-> None, content |-> None]]
  BY DEF PowerLoss, Told, Nothing, Said
<1>4. WriteOnce!Forget
  BY <1>1, <1>2, <1>3
  DEF PowerLoss, WriteOnce!Forget, WriteOnce!Identities, WriteOnce!Unanswered, Identities, Stored, Told
<1> QED BY <1>4 DEF WriteOnce!Next

(* Every step of a process is a step of the map, or none.                  *)
LEMMA ProcessImplements ==
  ASSUME IInv, NEW p \in Processes, Step(p), losses' = losses
  PROVE  WriteOnce!Next \/ Same
<1>1. CASE CheckExists(p) \/ Open(p) \/ IOFails(p)
  BY <1>1, DiskIsTheMap DEF CheckExists, Open, IOFails, Same, Told
<1>2. CASE Create(p) \/ Write(p) \/ Sync(p)
  <2>1. Gentle(p) /\ final' = final /\ answer' = answer
    BY <1>2, CreateStep, FillStep DEF Create, Write, Sync, disk
  <2> QED BY <2>1, NamesAreTheMap DEF Same, Told
<1>3. CASE Link(p)
  BY <1>3, LinkPublishes
<1>4. CASE Inspect(p) \/ NoticeChange(p) \/ Read(p)
  <2>1. \A r \in Reasons : Failed(r) \in Answered /\ Reliable(Failed(r))
    BY AnswerTypes DEF Reliable, Failed, Said
  <2>2. CASE NoticeChange(p) \/ (Inspect(p) /\ Conclude(p, Failed("missing")))
    BY <2>1, <2>2, ConcludeTells DEF Inspect, NoticeChange, Reasons
  <2>3. CASE Inspect(p) /\ UNCHANGED answer
    BY <2>3, DiskIsTheMap DEF Inspect, Same, Told
  <2>4. CASE Read(p)
    BY <2>4, JudgeReliable, ConcludeTells DEF Read
  <2> QED BY <1>4, <2>2, <2>3, <2>4 DEF Inspect
<1>5. CASE Remove(p)
  <2>1. Stored' = Stored
    BY <1>5, RemoveStep, NamesAreTheMap DEF Remove
  <2>2. outcome[p] \in Answered /\ Reliable(outcome[p])
    BY <1>5 DEF Remove, IInv, TypeInv, ProcessInv
  <2>3. answer' = [answer EXCEPT ![p] = outcome[p]]
    BY <1>5 DEF Remove
  <2> QED BY <2>1, <2>2, <2>3, TellStep
<1>6. CASE Die(p) \/ Quit(p)
  BY <1>6, ExitStep, NamesAreTheMap, AskStep DEF Die, Quit, Exit
<1> QED BY <1>1, <1>2, <1>3, <1>4, <1>5, <1>6 DEF Step

(* Every step of the store is a step of the map, or none.                  *)
LEMMA StepImplements ==
  ASSUME IInv, [Next]_vars
  PROVE  WriteOnce!Next \/ Same
<1>1. CASE UNCHANGED vars
  BY <1>1, DiskIsTheMap DEF vars, life, Same, Told
<1>2. ASSUME NEW p \in Processes, \/ \E c \in Contents : Persist(p, c)
                                  \/ \E i \in Identities : Load(p, i)
      PROVE  WriteOnce!Next
  BY <1>2, DiskIsTheMap, AskStep DEF Persist, Load, Begin, life
<1>3. ASSUME NEW p \in Processes, NEW q \in Pids, Start(p, q) PROVE Same
  BY <1>3, DiskIsTheMap DEF Start, Same, Told
<1>4. CASE losses' = losses
  BY <1>1, <1>2, <1>3, <1>4, ProcessImplements, PowerForgets DEF Next
<1>5. CASE PowerLoss
  BY <1>5, PowerForgets
<1> QED BY <1>4, <1>5, LossesStep

(* The store is a write-once map: of all publishers of an identity one     *)
(* content prevails for good, and every answer given is true of the map,   *)
(* through any deaths, failing calls and losses of power.                  *)
THEOREM StoreImplementsWriteOnce == Spec => ImplementsWriteOnce
<1>1. Init => WriteOnce!Init
  <2> SUFFICES ASSUME Init PROVE WriteOnce!Init
    OBVIOUS
  <2>1. Stored = [i \in Identities |-> None]
    BY DEF Init, Stored
  <2>2. Told = [q \in Processes |-> [verdict |-> None, content |-> None]]
    BY DEF Init, Told, Nothing, Said
  <2>3. losses = 0
    BY DEF Init
  <2> QED BY <2>1, <2>2, <2>3
      DEF WriteOnce!Init, WriteOnce!Identities, WriteOnce!Unanswered, Identities, Stored, Told
<1>2. IInv /\ [Next]_vars => [WriteOnce!Next]_WriteOnce!storeVars
  <2> SUFFICES ASSUME IInv, [Next]_vars PROVE [WriteOnce!Next]_WriteOnce!storeVars
    OBVIOUS
  <2> QED BY StepImplements DEF Same, WriteOnce!storeVars, Stored, Told
<1> QED BY <1>1, <1>2, Invariant, PTL DEF Spec, ImplementsWriteOnce, WriteOnce!Spec
=============================================================================
