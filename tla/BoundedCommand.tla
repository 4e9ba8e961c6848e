--------------------------- MODULE BoundedCommand ---------------------------
(***************************************************************************)
(* run_bounded_command (src/src/execution/sandbox/mod.rs): a child process *)
(* whose two output streams are captured by two tasks under one ceiling,   *)
(* and which is killed when its time is over, its output is exhausted or   *)
(* its execution is cancelled.  Bytes are counted, not modelled; one step  *)
(* of a reader is one load or one compare-and-swap of the shared counter.  *)
(***************************************************************************)
EXTENDS Integers, FiniteSets

CONSTANTS
  MaxOutput,   (* max_output_bytes                                         *)
  MaxWritten,  (* a bound of the model: bytes the child writes             *)
  BufferSize   (* the most a reader takes at once                          *)

ASSUME CommandParameters ==
  /\ MaxOutput \in Nat \ {0} /\ MaxWritten \in Nat /\ BufferSize \in Nat \ {0}

VARIABLES
  command,    (* where run_bounded_command stands                          *)
  why,        (* the flags of its result                                   *)
  child,      (* the state of the child process                            *)
  heir,       (* a process of the child's that keeps the pipes             *)
  written,    (* bytes written to each pipe                                *)
  pending,    (* those a reader has not taken                              *)
  reader,     (* where each reader stands                                  *)
  count,      (* what it took from the pipe                                *)
  loaded,     (* what it saw in the counter                                *)
  captured,   (* what it kept                                              *)
  consumed,   (* the shared counter                                        *)
  full        (* the capture_failed watch                                  *)

streams == <<written, pending>>
capture == <<reader, count, loaded, captured, consumed, full>>
commandVars == <<command, why, child, heir, streams, capture>>

Streams == {"stdout", "stderr"}
Flags == {"timed out", "output exhausted", "cancelled"}
InProgress == {"selecting", "killing", "joining"}
Writing == child = "running" \/ heir
Total(f) == f["stdout"] + f["stderr"]
Lesser(a, b) == IF a <= b THEN a ELSE b

CommandInit ==
  /\ command = "none" /\ why = {} /\ child = "none" /\ heir = FALSE
  /\ written = [s \in Streams |-> 0] /\ pending = [s \in Streams |-> 0]
  /\ reader = [s \in Streams |-> "none"]
  /\ count = [s \in Streams |-> 0] /\ loaded = [s \in Streams |-> 0]
  /\ captured = [s \in Streams |-> 0]
  /\ consumed = 0 /\ full = FALSE

(* The command is spawned, or cannot be.                                   *)
Spawn ==
  /\ command' \in {"selecting", "error"}
  /\ child' = IF command' = "error" THEN "none" ELSE "running"
  /\ reader' = [s \in Streams |-> IF command' = "error" THEN "none" ELSE "reading"]
  /\ heir' \in (IF command' = "error" THEN {FALSE} ELSE BOOLEAN)
  /\ why' = {} /\ consumed' = 0 /\ full' = FALSE
  /\ written' = [s \in Streams |-> 0] /\ pending' = [s \in Streams |-> 0]
  /\ count' = [s \in Streams |-> 0] /\ loaded' = [s \in Streams |-> 0]
  /\ captured' = [s \in Streams |-> 0]

-----------------------------------------------------------------------------
(* The child                                                               *)

(* A pipe whose reader is gone takes nothing.                              *)
Write(s) ==
  /\ Writing /\ Total(written) < MaxWritten
  /\ reader[s] \in {"reading", "loading", "swapping"}
  /\ written' = [written EXCEPT ![s] = @ + 1]
  /\ pending' = [pending EXCEPT ![s] = @ + 1]
  /\ UNCHANGED <<command, why, child, heir, capture>>

ExitChild ==
  /\ child = "running"
  /\ child' = "exited"
  /\ UNCHANGED <<command, why, heir, streams, capture>>

ExitHeir ==
  /\ heir
  /\ heir' = FALSE
  /\ UNCHANGED <<command, why, child, streams, capture>>

-----------------------------------------------------------------------------
(* read_bounded_stream                                                     *)

Goes(s, place) == reader' = [reader EXCEPT ![s] = place]

Read(s) ==
  /\ reader[s] = "reading" /\ pending[s] > 0
  /\ count' = [count EXCEPT ![s] = Lesser(pending[s], BufferSize)]
  /\ pending' = [pending EXCEPT ![s] = @ - count'[s]]
  /\ Goes(s, "loading")
  /\ UNCHANGED <<command, why, child, heir, written, loaded, captured, consumed, full>>

EndOfStream(s) ==
  /\ reader[s] = "reading" /\ pending[s] = 0 /\ ~Writing
  /\ Goes(s, "done")
  /\ UNCHANGED <<command, why, child, heir, streams, count, loaded, captured, consumed, full>>

ReadFails(s) ==
  /\ reader[s] = "reading"
  /\ full' = TRUE
  /\ Goes(s, "failed")
  /\ UNCHANGED <<command, why, child, heir, streams, count, loaded, captured, consumed>>

LoadConsumed(s) ==
  /\ reader[s] = "loading"
  /\ loaded' = [loaded EXCEPT ![s] = consumed]
  /\ Goes(s, "swapping")
  /\ UNCHANGED <<command, why, child, heir, streams, count, captured, consumed, full>>

Accepted(s) == Lesser(count[s], MaxOutput - loaded[s])

(* The reservation succeeded: a cut-off stream is reported and left.       *)
Keep(s) ==
  /\ captured' = [captured EXCEPT ![s] = @ + Accepted(s)]
  /\ full' = (full \/ Accepted(s) # count[s])
  /\ Goes(s, IF Accepted(s) = count[s] THEN "reading" ELSE "done")
  /\ count' = [count EXCEPT ![s] = 0]
  /\ loaded' = [loaded EXCEPT ![s] = 0]

(* Mutant: the counter is stored, whoever changed it in between.           *)
StoreConsumed(s) ==
  /\ reader[s] = "swapping"
  /\ consumed' = loaded[s] + Accepted(s)
  /\ Keep(s)
  /\ UNCHANGED <<command, why, child, heir, streams>>

(* compare_exchange: another reader's reservation makes it start over.     *)
SwapConsumed(s) ==
  /\ reader[s] = "swapping"
  /\ \/ /\ consumed = loaded[s]
        /\ consumed' = consumed + Accepted(s)
        /\ Keep(s)
     \/ /\ consumed # loaded[s]
        /\ Goes(s, "loading")
        /\ UNCHANGED <<count, loaded, captured, consumed, full>>
  /\ UNCHANGED <<command, why, child, heir, streams>>

-----------------------------------------------------------------------------
(* run_bounded_command_inner                                               *)

(* child.wait: the status is there, the child is reaped.                   *)
SeeExit ==
  /\ command = "selecting" /\ child = "exited"
  /\ child' = "reaped" /\ command' = "joining"
  /\ UNCHANGED <<why, heir, streams, capture>>

Terminate(flag) ==
  /\ command = "selecting"
  /\ command' = "killing" /\ why' = {flag}
  /\ UNCHANGED <<child, heir, streams, capture>>

TimeOut == Terminate("timed out")
SeeCaptureFailure == full /\ Terminate("output exhausted")
SeeCancellation(isCancelled) == isCancelled /\ Terminate("cancelled")

(* Mutant: the child is signalled and left.                                *)
KillUnreaped ==
  /\ command = "killing"
  /\ child' = "exited" /\ command' = "joining"
  /\ UNCHANGED <<why, heir, streams, capture>>

(* Mutant: the child is asked to end and waited for.                       *)
AwaitChild ==
  /\ command = "killing" /\ child = "exited"
  /\ child' = "reaped" /\ command' = "joining"
  /\ UNCHANGED <<why, heir, streams, capture>>

(* terminate_child: kill, then wait.  An error of kill ends the command    *)
(* and leaves the child to kill_on_drop.                                   *)
KillChild ==
  /\ command = "killing"
  /\ \/ child' = "reaped" /\ command' = "joining"
     \/ child' = "exited" /\ command' = "error"
  /\ UNCHANGED <<why, heir, streams, capture>>

(* Mutant: the flag of the select is the whole truth.                      *)
JoinAsSelected ==
  /\ command = "joining"
  /\ \A s \in Streams : reader[s] = "done"
  /\ command' = "returned"
  /\ UNCHANGED <<why, child, heir, streams, capture>>

(* Both readers are joined; the watch is read once more.                   *)
Join ==
  /\ command = "joining"
  /\ \A s \in Streams : reader[s] = "done"
  /\ command' = "returned"
  /\ why' = IF full THEN why \cup {"output exhausted"} ELSE why
  /\ UNCHANGED <<child, heir, streams, capture>>

(* The output of stdout is looked at first: an error does not wait for     *)
(* the other reader.                                                       *)
JoinFails ==
  /\ command = "joining"
  /\ \/ reader["stdout"] = "failed"
     \/ reader["stdout"] = "done" /\ reader["stderr"] = "failed"
  /\ command' = "error"
  /\ UNCHANGED <<why, child, heir, streams, capture>>

(* The future is dropped: kill_on_drop.                                    *)
Abandon ==
  /\ command \in InProgress
  /\ command' = "dropped"
  /\ child' = IF child = "running" THEN "exited" ELSE child
  /\ UNCHANGED <<why, heir, streams, capture>>

Capture(s) == Read(s) \/ EndOfStream(s) \/ LoadConsumed(s) \/ SwapConsumed(s)
Environment == ExitChild \/ ExitHeir \/ \E s \in Streams : Write(s) \/ ReadFails(s)
Supervise(isCancelled) ==
  \/ SeeExit \/ TimeOut \/ SeeCaptureFailure \/ SeeCancellation(isCancelled)
  \/ KillChild \/ Join \/ JoinFails
=============================================================================
