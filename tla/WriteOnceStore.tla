--------------------------- MODULE WriteOnceStore ---------------------------
(***************************************************************************)
(* What the artifact store promises to the commands that use it: under an  *)
(* identity there is nothing or one content, for good; whoever is told     *)
(* that an artifact is stored or is given one can rely on exactly that     *)
(* content.  An operation may always fail.  Only a loss of power may       *)
(* forget an artifact, never alter one.  ArtifactStore implements it.      *)
(***************************************************************************)
EXTENDS Naturals

CONSTANTS
  Processes,
  Contents,    (* the serialized artifacts                                 *)
  Identity,    (* the identity each content hashes to                      *)
  None

VARIABLES
  stored,      (* the content under an identity, or None                   *)
  answer,      (* what a process was last told: [verdict, content]         *)
  losses       (* how often the power was lost                             *)

storeVars == <<stored, answer, losses>>

Identities == {Identity[c] : c \in Contents}
Unanswered == [verdict |-> None, content |-> None]

Init ==
  /\ stored = [i \in Identities |-> None]
  /\ answer = [p \in Processes |-> Unanswered]
  /\ losses = 0

Publish(c) ==
  /\ stored[Identity[c]] = None
  /\ stored' = [stored EXCEPT ![Identity[c]] = c]
  /\ UNCHANGED <<answer, losses>>

(* A process asks for something else, or dies.                             *)
Ask(p) ==
  /\ answer' = [answer EXCEPT ![p] = Unanswered]
  /\ UNCHANGED <<stored, losses>>

Confirm(p, c) ==
  /\ stored[Identity[c]] = c
  /\ \E verdict \in {"stored", "loaded"} :
       answer' = [answer EXCEPT ![p] = [verdict |-> verdict, content |-> c]]
  /\ UNCHANGED <<stored, losses>>

Fail(p) ==
  /\ answer' = [answer EXCEPT ![p] = [verdict |-> "failed", content |-> None]]
  /\ UNCHANGED <<stored, losses>>

(* The power is lost.                                                      *)
Forget ==
  /\ losses' = losses + 1
  /\ \A i \in Identities : stored'[i] \in {stored[i], None}
  /\ DOMAIN stored' = Identities
  /\ answer' = [p \in Processes |-> Unanswered]

Next ==
  \/ \E c \in Contents : Publish(c)
  \/ \E p \in Processes : Ask(p) \/ Fail(p)
  \/ \E p \in Processes, c \in Contents : Confirm(p, c)
  \/ Forget

Spec == Init /\ [][Next]_storeVars
=============================================================================
