---------------------------- MODULE ArtifactStore ----------------------------
(***************************************************************************)
(* The store of plans, receipts and reports                                *)
(* (src/src/execution/artifact/store.rs and read_bounded_file of           *)
(* private_fs.rs), as several CodeAtlas processes use one state directory. *)
(* An artifact is published by writing, syncing and hard-linking a         *)
(* temporary file; a reader compares the metadata of the file before and   *)
(* after reading it.  One step is one call to the file system.  Processes  *)
(* die and restart, under any process id that is free; power is lost.      *)
(* A file's ctime is represented by what changes it here: its data and the *)
(* temporary names linked to it.                                           *)
(***************************************************************************)
EXTENDS Integers, FiniteSets

CONSTANTS
  Processes,
  Contents,     (* the serialized artifacts                                *)
  Identity,     (* the identity each content hashes to                     *)
  Pids,         (* process ids the system hands out                        *)
  Inodes,       (* a bound of the model: files that exist at once          *)
  MaxAttempts,  (* a bound of the model: temporary names of one process    *)
  MaxFaults,    (* a bound of the model: what goes wrong in a behaviour    *)
  None

Identities == {Identity[c] : c \in Contents}
Names == Identities \X Pids \X (1..MaxAttempts)   \* .{id}.json.{pid}.{sequence}.tmp

ASSUME StoreParameters ==
  /\ Identity \in [Contents -> Identities]
  /\ MaxAttempts \in Nat /\ MaxFaults \in Nat
  /\ None \notin Contents \cup Inodes \cup {"empty", "partial", "changed"}
  /\ Contents \cap {"empty", "partial"} = {}

VARIABLES
  data,       (* what a file holds: "empty", "partial" or a content        *)
  synced,     (* the files whose data is on the disk                       *)
  final,      (* the file under {id}.json, or None                         *)
  temporary,  (* the file under a temporary name, or None                  *)
  settled,    (* the identities whose directory entry is on the disk       *)
  pc,         (* where a process stands                                    *)
  job,        (* what it is doing: [kind, id, content]                     *)
  pid, seq,   (* its process id and its TEMPORARY_SEQUENCE                 *)
  making,     (* it has a temporary name to remove                         *)
  mine,       (* the file it created, while it has the descriptor          *)
  seen,       (* the metadata it last saw                                  *)
  outcome,    (* what it will answer once its temporary name is gone       *)
  answer,     (* what it last answered                                     *)
  faults,     (* counts towards MaxFaults                                  *)
  losses,     (* history: how often the power was lost                     *)
  changedIds  (* history: identities it was told had changed               *)

disk == <<data, synced, final, temporary, settled>>
work == <<job, making, mine, seen, outcome>>
life == <<pid, faults, losses>>
vars == <<disk, pc, work, seq, answer, life, changedIds>>

Places == {"down", "idle", "exists", "create", "write", "sync", "link",
           "inspect", "open", "read", "remove"}
Verdicts == {"stored", "loaded", "failed"}
Reasons == {"io", "taken", "missing", "changed", "invalid", "collision"}
Said(verdict, content, reason) ==
  [verdict |-> verdict, content |-> content, reason |-> reason]
Nothing == Said(None, None, None)
Failed(reason) == Said("failed", None, reason)
NoJob == [kind |-> None, id |-> None, content |-> None]
Stamp(file) ==
  [file |-> file, data |-> data[file], names |-> {n \in Names : temporary[n] = file}]
Unseen == [file |-> None, data |-> None, names |-> {}]

Down == [p \in Processes |-> "down"]
Live == {p \in Processes : pc[p] # "down"}

(* A file exists while a name or a descriptor leads to it.                 *)
Exists(file) ==
  \/ \E i \in Identities : final[i] = file
  \/ \E n \in Names : temporary[n] = file
  \/ \E p \in Processes : mine[p] = file
Free == {f \in Inodes : ~Exists(f)}
Leftover == {n \in Names : temporary[n] # None}
NameOf(p) == <<job[p].id, pid[p], seq[p]>>
NextName(p) == <<job[p].id, pid[p], seq[p] + 1>>

-----------------------------------------------------------------------------
Init ==
  /\ data = [f \in Inodes |-> "empty"]
  /\ synced = {}
  /\ final = [i \in Identities |-> None]
  /\ temporary = [n \in Names |-> None]
  /\ settled = {}
  /\ pc = Down
  /\ job = [p \in Processes |-> NoJob]
  /\ pid = [p \in Processes |-> None]
  /\ seq = [p \in Processes |-> 0]
  /\ making = [p \in Processes |-> FALSE]
  /\ mine = [p \in Processes |-> None]
  /\ seen = [p \in Processes |-> Unseen]
  /\ outcome = [p \in Processes |-> Nothing]
  /\ answer = [p \in Processes |-> Nothing]
  /\ faults = 0 /\ losses = 0
  /\ changedIds = [p \in Processes |-> {}]

Go(p, place) == pc' = [pc EXCEPT ![p] = place]

(* What a process knew of its operation.                                   *)
Forget(p) ==
  /\ job' = [job EXCEPT ![p] = NoJob]
  /\ making' = [making EXCEPT ![p] = FALSE]
  /\ mine' = [mine EXCEPT ![p] = None]
  /\ seen' = [seen EXCEPT ![p] = Unseen]
  /\ outcome' = [outcome EXCEPT ![p] = Nothing]

(* An operation ends; inside the closure of write_private_immutable the    *)
(* temporary name is removed first.                                        *)
Conclude(p, what) ==
  /\ IF making[p]
     THEN /\ Go(p, "remove")
          /\ outcome' = [outcome EXCEPT ![p] = what]
          /\ UNCHANGED <<answer, job>>
     ELSE /\ Go(p, "idle")
          /\ answer' = [answer EXCEPT ![p] = what]
          /\ job' = [job EXCEPT ![p] = NoJob]
          /\ UNCHANGED outcome
  /\ seen' = [seen EXCEPT ![p] = Unseen]
  /\ changedIds' = IF what.reason = "changed"
                   THEN [changedIds EXCEPT ![p] = @ \cup {job[p].id}]
                   ELSE changedIds

-----------------------------------------------------------------------------
(* persist and load                                                        *)

Begin(p, kind, id, content, place) ==
  /\ pc[p] = "idle"
  /\ job' = [job EXCEPT ![p] = [kind |-> kind, id |-> id, content |-> content]]
  /\ answer' = [answer EXCEPT ![p] = Nothing]
  /\ Go(p, place)
  /\ UNCHANGED <<disk, making, mine, seen, outcome, seq, life, changedIds>>

Persist(p, c) == Begin(p, "persist", Identity[c], c, "exists")
Load(p, i) == Begin(p, "load", i, None, "inspect")

CheckExists(p) ==
  /\ pc[p] = "exists"
  /\ Go(p, IF final[job[p].id] # None THEN "inspect" ELSE "create")
  /\ UNCHANGED <<disk, work, seq, answer, life, changedIds>>

(* create_private_file: create_new refuses a name that is taken, and the   *)
(* name is removed all the same.                                           *)
Create(p) ==
  /\ pc[p] = "create" /\ seq[p] < MaxAttempts
  /\ seq' = [seq EXCEPT ![p] = seq[p] + 1]
  /\ making' = [making EXCEPT ![p] = TRUE]
  /\ \/ /\ temporary[NextName(p)] # None
        /\ outcome' = [outcome EXCEPT ![p] = Failed("taken")]
        /\ Go(p, "remove")
        /\ UNCHANGED <<disk, mine>>
     \/ /\ temporary[NextName(p)] = None
        /\ \E f \in Free :
             /\ f = CHOOSE g \in Free : TRUE
             /\ temporary' = [temporary EXCEPT ![NextName(p)] = f]
             /\ data' = [data EXCEPT ![f] = "empty"]
             /\ synced' = synced \ {f}
             /\ mine' = [mine EXCEPT ![p] = f]
        /\ Go(p, "write")
        /\ UNCHANGED <<final, settled, outcome>>
  /\ UNCHANGED <<job, seen, answer, life, changedIds>>

(* write_all                                                               *)
Write(p) ==
  /\ pc[p] = "write"
  /\ \/ /\ data[mine[p]] = "empty"
        /\ data' = [data EXCEPT ![mine[p]] = "partial"]
        /\ UNCHANGED pc
     \/ /\ data[mine[p]] = "partial"
        /\ data' = [data EXCEPT ![mine[p]] = job[p].content]
        /\ Go(p, "sync")
  /\ UNCHANGED <<synced, final, temporary, settled, work, seq, answer, life, changedIds>>

(* Mutant: the file is published without being synced.                     *)
SyncLater(p) ==
  /\ pc[p] = "sync"
  /\ Go(p, "link")
  /\ UNCHANGED <<disk, work, seq, answer, life, changedIds>>

(* sync_all                                                                *)
Sync(p) ==
  /\ pc[p] = "sync"
  /\ synced' = synced \cup {mine[p]}
  /\ Go(p, "link")
  /\ UNCHANGED <<data, final, temporary, settled, work, seq, answer, life, changedIds>>

(* Mutant: the temporary is renamed over whatever is there.                *)
LinkOver(p) ==
  /\ pc[p] = "link"
  /\ final' = [final EXCEPT ![job[p].id] = mine[p]]
  /\ Conclude(p, Said("stored", job[p].content, None))
  /\ UNCHANGED <<data, synced, temporary, settled, making, mine, seq, life>>

(* Mutant: who finds the name taken reads without having looked.           *)
LinkUnchecked(p) ==
  /\ pc[p] = "link"
  /\ \/ /\ final[job[p].id] = None
        /\ final' = [final EXCEPT ![job[p].id] = mine[p]]
        /\ Conclude(p, Said("stored", job[p].content, None))
     \/ /\ final[job[p].id] # None
        /\ Go(p, "read")
        /\ UNCHANGED <<final, job, seen, outcome, answer, changedIds>>
  /\ UNCHANGED <<data, synced, temporary, settled, making, mine, seq, life>>

(* hard_link: of two publishers one finds the name taken and compares.     *)
Link(p) ==
  /\ pc[p] = "link"
  /\ \/ /\ final[job[p].id] = None
        /\ final' = [final EXCEPT ![job[p].id] = mine[p]]
        /\ Conclude(p, Said("stored", job[p].content, None))
     \/ /\ final[job[p].id] # None
        /\ Go(p, "inspect")
        /\ UNCHANGED <<final, job, seen, outcome, answer, changedIds>>
  /\ UNCHANGED <<data, synced, temporary, settled, making, mine, seq, life>>

(* The disk is full, or refuses.                                           *)
IOFails(p) ==
  /\ pc[p] \in {"write", "sync", "link"} /\ faults < MaxFaults
  /\ faults' = faults + 1
  /\ outcome' = [outcome EXCEPT ![p] = Failed("io")]
  /\ Go(p, "remove")
  /\ UNCHANGED <<disk, job, making, mine, seen, seq, answer, pid, losses, changedIds>>

-----------------------------------------------------------------------------
(* verify_private_managed_file and read_bounded_file                       *)

Inspect(p) ==
  /\ pc[p] = "inspect"
  /\ \/ /\ final[job[p].id] = None
        /\ Conclude(p, Failed("missing"))
     \/ /\ final[job[p].id] # None
        /\ seen' = [seen EXCEPT ![p] = Stamp(final[job[p].id])]
        /\ Go(p, "open")
        /\ UNCHANGED <<job, outcome, answer, changedIds>>
  /\ UNCHANGED <<disk, making, mine, seq, life>>

(* The file system's clock is coarse: a change may leave the ctime as it   *)
(* was, but no ctime changes without a cause.                              *)
Differs(p, file) == Stamp(file) # seen[p]

NoticeChange(p) ==
  /\ \/ pc[p] = "open" /\ Differs(p, final[job[p].id])
     \/ pc[p] = "read" /\ Differs(p, seen[p].file)
  /\ Conclude(p, Failed("changed"))
  /\ UNCHANGED <<disk, making, mine, seq, life>>

Open(p) ==
  /\ pc[p] = "open"
  /\ seen' = [seen EXCEPT ![p] = Stamp(final[job[p].id])]
  /\ Go(p, "read")
  /\ UNCHANGED <<disk, job, making, mine, outcome, seq, answer, life, changedIds>>

(* Mutant: a publisher takes what it found for its own.                    *)
JudgeTrusting(p, content) ==
  IF job[p].kind = "persist" THEN Said("stored", job[p].content, None)
  ELSE Said("loaded", content, None)

(* What was read must be the artifact: its own bytes for a publisher, a    *)
(* content that hashes to the identity for a reader.                       *)
Judge(p, content) ==
  CASE job[p].kind = "persist" /\ content = job[p].content -> Said("stored", content, None)
    [] job[p].kind = "persist" /\ content # job[p].content -> Failed("collision")
    [] job[p].kind = "load" /\ content \in Contents /\ Identity[content] = job[p].id
         -> Said("loaded", content, None)
    [] OTHER -> Failed("invalid")

Read(p) ==
  /\ pc[p] = "read"
  /\ Conclude(p, Judge(p, data[seen[p].file]))
  /\ UNCHANGED <<disk, making, mine, seq, life>>

-----------------------------------------------------------------------------
(* A file that no name and no descriptor leads to is gone.                 *)
Reclaim ==
  /\ data' = [f \in Inodes |-> IF Exists(f)' THEN data[f] ELSE "empty"]
  /\ synced' = {f \in synced : Exists(f)'}

(* The temporary name is removed however the closure ended; that the       *)
(* removal fails is ignored.                                               *)
Remove(p) ==
  /\ pc[p] = "remove"
  /\ \/ /\ temporary' = [temporary EXCEPT ![NameOf(p)] = None]
        /\ UNCHANGED faults
     \/ /\ faults < MaxFaults
        /\ faults' = faults + 1
        /\ UNCHANGED temporary
  /\ answer' = [answer EXCEPT ![p] = outcome[p]]
  /\ Forget(p)
  /\ Go(p, "idle")
  /\ UNCHANGED <<final, settled, seq, pid, losses, changedIds>>
  /\ Reclaim

-----------------------------------------------------------------------------
(* The environment                                                         *)

Start(p, q) ==
  /\ pc[p] = "down" /\ \A r \in Live : pid[r] # q
  /\ pid' = [pid EXCEPT ![p] = q]
  /\ Go(p, "idle")
  /\ UNCHANGED <<disk, work, seq, answer, faults, losses, changedIds>>

(* The end of a process, wherever it stands.                               *)
Exit(p) ==
  /\ Forget(p)
  /\ pid' = [pid EXCEPT ![p] = None]
  /\ seq' = [seq EXCEPT ![p] = 0]
  /\ answer' = [answer EXCEPT ![p] = Nothing]
  /\ changedIds' = [changedIds EXCEPT ![p] = {}]
  /\ Go(p, "down")
  /\ UNCHANGED <<final, temporary, settled, losses>>
  /\ Reclaim

Die(p) ==
  /\ pc[p] \notin {"down", "idle"} /\ faults < MaxFaults
  /\ faults' = faults + 1
  /\ Exit(p)

Quit(p) == pc[p] = "idle" /\ Exit(p) /\ UNCHANGED faults

(* Every process is gone; data that was not synced may be torn, directory  *)
(* entries made since the last loss may be missing.  (A removal that is    *)
(* lost is a process that died before it.)                                 *)
PowerLoss ==
  /\ faults < MaxFaults /\ Live # {}
  /\ faults' = faults + 1 /\ losses' = losses + 1
  /\ \E gone \in SUBSET (Identities \ settled), lost \in SUBSET Leftover :
       /\ final' = [i \in Identities |-> IF i \in gone THEN None ELSE final[i]]
       /\ temporary' = [n \in Names |-> IF n \in lost THEN None ELSE temporary[n]]
  /\ settled' = {i \in Identities : final'[i] # None}
  /\ mine' = [p \in Processes |-> None]
  /\ \E torn \in SUBSET {f \in Inodes : Exists(f)' /\ f \notin synced} :
       data' = [f \in Inodes |-> IF f \in torn THEN "partial"
                                 ELSE IF Exists(f)' THEN data[f] ELSE "empty"]
  /\ synced' = {f \in Inodes : Exists(f)'}
  /\ pc' = Down
  /\ job' = [p \in Processes |-> NoJob]
  /\ pid' = [p \in Processes |-> None]
  /\ seq' = [p \in Processes |-> 0]
  /\ making' = [p \in Processes |-> FALSE]
  /\ seen' = [p \in Processes |-> Unseen]
  /\ outcome' = [p \in Processes |-> Nothing]
  /\ answer' = [p \in Processes |-> Nothing]
  /\ changedIds' = [p \in Processes |-> {}]

Step(p) ==
  \/ CheckExists(p) \/ Create(p) \/ Write(p) \/ Sync(p) \/ Link(p) \/ IOFails(p)
  \/ Inspect(p) \/ NoticeChange(p) \/ Open(p) \/ Read(p) \/ Remove(p)
  \/ Die(p) \/ Quit(p)

Next ==
  \/ \E p \in Processes : Step(p)
  \/ \E p \in Processes, c \in Contents : Persist(p, c)
  \/ \E p \in Processes, i \in Identities : Load(p, i)
  \/ \E p \in Processes, q \in Pids : Start(p, q)
  \/ PowerLoss

Spec == Init /\ [][Next]_vars

-----------------------------------------------------------------------------
(* Properties                                                              *)

Answered == [verdict : Verdicts \cup {None}, content : Contents \cup {None},
             reason : Reasons \cup {None}]
Jobs == [kind : {"persist", "load", None}, id : Identities \cup {None},
         content : Contents \cup {None}]
Data == {"empty", "partial"} \cup Contents

(* Types.  A process past its creation has a file of its own; one that     *)
(* reads has seen the file it reads.                                       *)
TypeOK ==
  /\ data \in [Inodes -> Data] /\ synced \subseteq Inodes
  /\ final \in [Identities -> Inodes \cup {None}]
  /\ temporary \in [Names -> Inodes \cup {None}]
  /\ settled \subseteq Identities
  /\ pc \in [Processes -> Places]
  /\ job \in [Processes -> Jobs]
  /\ pid \in [Processes -> Pids \cup {None}] /\ seq \in [Processes -> 0..MaxAttempts]
  /\ making \in [Processes -> BOOLEAN]
  /\ mine \in [Processes -> Inodes \cup {None}]
  /\ seen \in [Processes -> [file : Inodes \cup {None}, data : Data \cup {None},
                             names : SUBSET Names]]
  /\ outcome \in [Processes -> Answered] /\ answer \in [Processes -> Answered]
  /\ faults \in 0..MaxFaults /\ losses \in Nat
  /\ changedIds \in [Processes -> SUBSET Identities]
  /\ \A p \in Processes :
       /\ pc[p] \in {"write", "sync", "link"} => mine[p] \in Inodes
       /\ pc[p] = "read" => seen[p].file \in Inodes

(* Whatever is found under an identity is a complete artifact of that      *)
(* identity, also after a death between any two calls and after a loss of  *)
(* power: sync_all comes before hard_link, and the name is linked last.    *)
PublishedIsComplete ==
  \A i \in Identities :
    final[i] # None => /\ data[final[i]] \in Contents
                       /\ Identity[data[final[i]]] = i

(* A process is told only once that an artifact changed under it: the only *)
(* change an artifact can show is that its publisher's temporary name goes *)
(* away, so that trying again succeeds.                                    *)
ChangesAreSeenOnce ==
  [][\A p \in Processes : NoticeChange(p) => job[p].id \notin changedIds[p]]_vars

(* The store is a write-once map whose answers can be relied upon, and     *)
(* which forgets only when the power is lost: the two count the same losses.*)
WriteOnce == INSTANCE WriteOnceStore WITH
  stored <- [i \in Identities |-> IF final[i] = None THEN None ELSE data[final[i]]],
  answer <- [p \in Processes |-> [verdict |-> answer[p].verdict,
                                  content |-> answer[p].content]]
ImplementsWriteOnce == WriteOnce!Spec
=============================================================================
