# A verification development for CodeAtlas

CodeAtlas (`src/src/`, one Rust binary) is a repository analyser with an *execution kernel*: the
part that runs untrusted workloads - HTTP and code fuzzing - in containers, meters every call they
make to a target, and writes a receipt of what was done and what was cleaned up. Nearly everything
else is a pure function over source text; the kernel is where tasks interleave, timers race, steps
fail half-way and evidence can become untrue. The models are about the kernel.

## Inventory

| Component | State | Operations | Interacts with | What makes it correct |
|---|---|---|---|---|
| Call budget, `execution/budget.rs` | a ledger of numbered calls, two allowances, two pacing clocks, in-flight count behind a mutex; a semaphore; the watches `admission_closed` and `cancelled` | `reserve_call`, `CallPermit::finish` and its drop, `cancel`, `stop_normal_admission`, `snapshot` | called by the proxy, the broker, the interrupt handler, the scheduler and every cancellable command | permits never leak or double, allowances never mix, calls are paced and in time, every reservation ends |
| Lease registry, `execution/lease.rs` | a stack of cleanup actions, a list of evidence | register, complete the latest as verified, release the latest, release all | runner, workload, container | evidence is true, complete, and each resource is accounted for once |
| Runner, `execution/runner.rs`, `isolation.rs` | the run's outcome, reasons, evidence | one execution from scratch directory to persisted receipt | scheduler, leases, budget, store, adapter | a judged run is clean and was not stopped |
| Workload and container orchestration, `execution/workload.rs`, `sandbox/container.rs` | the container, the transports, ready and start markers | start transports, create, start, clean up, settle | leases, budget, docker client, harness | nothing is left behind unaccounted |
| Enforcing proxy, `execution/proxy.rs` | listener, connections under a semaphore, their requests, the expected peer, the shutdown watch | start, serve, handle a request, shut down, corroborate the peer | budget, container, managed server | every forwarded call has a permit, what a client was told is what the receipt says, one server is reached, shutdown ends |
| Call-permit broker, `execution/call_permit.rs` | listener, connection handlers | start, serve, shut down | budget, in-container harness | every grant is settled once; shutdown ends |
| Interrupts and scheduler, `cancellation.rs`, `scheduler.rs` | the active budget, an interrupted flag, a runtime | register, drop, interrupt, run, run_blocking | budget | an interrupt reaches the execution that is active |
| Bounded command output, `sandbox/mod.rs` | bytes consumed, a child process | run with a deadline and an output ceiling | docker client | never more than the ceiling, child reaped |
| Artifact store, `artifact/store.rs`, `private_fs.rs` | immutable files under the identity of their content, temporary names | persist, load, verified reading | all commands, other processes | content under an identity is complete and never changes |
| In-container harness, `sandbox/container/workload_harness.py` | markers, child processes | ready, start, result | container orchestration | starts only after the host says so |
| Context slices and inspection pages, `context_slice/slice.rs`, `inspection/projection.rs` | none but what a continuation cursor carries between two commands | make a page, continue from a cursor | source graph | the pages of one reading make one graph |
| Code fuzzing `fuzz/`, HTTP `http/`, PostgreSQL `postgres/` | plans, corpora, reports | plan, run, replay, minimise, diff | kernel, store | replay is faithful to the plan |
| Source analysis `analysis/`, `domain/`, `languages/`, dead code, architecture, lexicon, packages, configuration, testing, outputs, command line | none that outlives a command | pure transformations | each other, by value | answers agree with their definitions |

The hard behaviours, each at its line, are the `hazards` of `PROJECT.json`.

## Modules

```
CallLedger          what a budget promises, without time, locks or tasks
   ^ refined by
CallBudget          budget.rs                 CallBudgetProofs CallRefinementProofs
   MCCallBudget     instances for TLC
PermitBroker        call_permit.rs and the harness's side of its protocol, over an INSTANCE
                    of CallLedger             PermitBrokerProofs
   MCPermitBroker   instances for TLC
EnforcingProxy      proxy.rs, over an INSTANCE of CallLedger
                                              EnforcingProxyProofs
   MCEnforcingProxy instance for TLC
LeaseRegistry       lease.rs
   ^ extended by
WorkloadRun         runner.rs, workload.rs, sandbox/container.rs, isolation.rs
                                              WorkloadRunProofs
   MCWorkloadRun    instance for TLC
WriteOnceStore      what the artifact store promises
   ^ refined by
ArtifactStore       artifact/store.rs, private_fs.rs
                                              ArtifactStoreProofs
   MCArtifactStore  instance for TLC
InterruptRegistry   cancellation.rs, scheduler.rs
BoundedCommand      sandbox/mod.rs
   ^ both extended by
InterruptedCommands executions under interrupts, one running a command
                                              InterruptedCommandsProofs
GraphPages          inspection/projection.rs, context_slice/slice.rs
                                              GraphPagesProofs
   MCHost           InterruptedCommands and GraphPages, side by side in one run
```

### CallBudget

State corresponds one to one to `BudgetState` and `CallBudget`: `normalConsumed`,
`cleanupConsumed`, `calls` (the `BTreeMap` of `PendingCall`, whose keys are always `1..n`),
`inFlight`, `peak`, `normalNext`, `cleanupNext` (0 for `None`), `lastAdmitted` (`-Interval` for
`None`), `termination`, the watches `closed` and `cancelled`, and the semaphore as the number of
`available` permits and the set of tasks that hold one. Per task there is the place in
`reserve_call` (`pc`) and its local variables. `lastNormal` is a history variable, used only by
properties.

| Place | Code |
|---|---|
| `idle` | not in `reserve_call` |
| `allocate` | at the ledger's mutex in `allocate_call` |
| `acquire` | in the select of `wait_for_concurrency` |
| `slot` | in the select of `wait_for_admission`, holding a permit |
| `calling` | owns a `CallPermit` |
| `terminate`, `close` | in `terminate`, before the mutex and before the watch |
| `abandon` | before `finish_call(.., Cancelled, false)` |
| `release` | the ledger is settled, the semaphore permit not yet given back |

What is one step and why:

* `Request` merges `stop_normal_admission` of a cleanup call with the reading of the clock: only
  the closing is visible to others, and the clock may move before it just as well.
* `Allocate`, `Exhaust` and `RefuseClosed` are the one critical section of `allocate_call`; the
  watch it reads is only ever set, so a closing that arrives inside the section is one that
  arrives after it.
* `Acquire` is the semaphore's branch with `schedule_admission` and the early check of
  `wait_for_admission`: nothing suspends between the three. `Instant::now` is read just before
  the mutex of `schedule_admission`; a clock that moves in between is one that moved before.
* `Admit` is the timer's branch with the second critical section of `reserve_call`. `TimeOut` and
  `ObserveClosed` are the other branches of the two selects. A select has no order, so any branch
  that is ready may win, in particular the timer over a closed admission.
* `terminate` is two steps for a task (mutex, watch) and three for `cancel` (mutex, `cancelled`,
  `closed`), with everybody else in between.
* `finish` is two steps, ledger and semaphore. `Abort` drops whatever the task owns at an await:
  the proxy and the broker abort their connection tasks so.

The semaphore's queue is not modelled: any waiter may be served, which allows more than tokio's
order does. `peak_calls_per_second_milli` is left out. `CallPermitError::SchedulerClosed` cannot
happen, as neither the semaphore nor the watches are ever closed.

`PlanAccepted` is what `CallBudget::new` checks before it builds a budget (with no time for normal
calls it only accepts cleanup calls). `Prompt` says how timers behave: with `TRUE` the clock moves
only when no task could run, so that a due timer is noticed at its time; with `FALSE` a task may be
arbitrarily late. Pacing and deadlines are claims about the first, accounting about both.

`CallLedger` is the abstract specification: calls are entered while their allowance lasts, become
active while fewer than `max_concurrency` are, and are settled once, a call that was never made
only as cancelled; normal calls are entered only while admission is open, cleanup calls only after
it closed. `ImplementsLedger` maps a call to its disposition, or to `active` while a task owns its
permit.

### LeaseRegistry and WorkloadRun

`LeaseRegistry` is the stack and the evidence. A caller that cleaned up by itself says so with
`CompleteLatestVerified`; `ReleaseLatest(fate)` runs the cleanup, which removes the resource,
cannot verify it, or fails (`Fates`). Both take whatever lease is on top.

`WorkloadRun` follows one execution (`stage`) over the real state of its resources (`world`): the
scratch directory, the probe's container, the broker's and the proxy's sockets, the workload's
container. A plan may ask for neither transport, either or both (`uses`). `step` is where
`run_container_case` stands. The conformance probe runs several cases one after the other, each
with a lease of its own that is gone before the next; one stands for all. What fails is chosen
freely wherever the code has an error path: the daemon may have created a container whose creation
failed, a cleanup that fails may have removed its resource, a proxy that fails after binding
leaves its socket, and removing the scratch directory takes the sockets in it along. The workload's
future can be dropped at any of its awaits until the start marker is written (`AbandonStartup`).
The outcome is decided by `FinalizeOutcome` from the termination as of the budget's snapshot. No
termination arrives after that snapshot: the scheduler outlives it by one statement, and what an
interrupt could still do in that window is not modelled.

Left out of `WorkloadRun`: contents of reasons, links and evidence, resource sampling, panics outside cleanup
actions, and a crash of the whole process (nothing of a run survives it but the scratch directory
and a container, which no later run looks for).

### PermitBroker

A harness thread (`place` of a client) connects and asks (`Ask`), waits for its answer, makes its
call, reports a disposition (`Report`) and waits for the acknowledgement; it asks no more once it
was denied (`done`) or found its connection closed (`gone`). This is `call_permit` of
`fuzz/code/runtime_support.py` and `request_permit` of the Rust harness. All threads live in one
process, so `Kill` stops them all; what was written before can still be read by the broker.

`broker` is where `serve_permits` stands: `serving` in its select, `draining` after `abort_all`,
`stopped` when it returned, `failed` when it returned an error. A `handler` is the task behind one
of the `ConnectionLimit` semaphore permits; its `place` is the await it stands at, or the stretch
between two awaits it is running through:

| Place | Code |
|---|---|
| `request`, `reserving`, `completion` | suspended in the first select, in `reserve_call`, in the second select |
| `granting`, `acking` | running, with an admitted permit or after `finish`, up to the write |
| `returning`, `failing` | running, after its last write or its error, until its task has ended |

A task between two awaits occupies one of the runtime's `Workers`; every other step of a task that
wakes up needs a worker that is left (`Resumes`). That is what bounds how many handlers can be late
in giving their connections back. Writes of a few bytes to a socket do not suspend.

The budget is the ledger: `Enter`, `Activate` and `Settle` of `CallLedger` are the broker's view
of `reserve_call`, `finish` and the drop of a permit. Pacing is left out, so a reservation may take
any time; `Terminate` is the budget's own end by its deadline or its exhaustion. Other users of the
budget appear as `Cancel` and `CloseAdmission`. Harnesses ask for normal calls only. Malformed
frames are left out: no harness writes them.

An aborted handler that was still reserving leaves its entry without a disposition, which the
ledger allows; an admitted permit is always settled.

### EnforcingProxy

`serve_proxy` is `server`: it joins finished connections and waits for a connection permit
(`seeking`), holds one and waits for a client (`accepting`), has left its loop and aborted its
connections (`draining`), and returned (`ended`, or `failed` when `accept` did). The listener is
`conn`: a client is `queued` until it is accepted, then in its TLS handshake, then speaking HTTP/1
or HTTP/2. A request is a program counter:

| Place | Code |
|---|---|
| `spawned` | at the start of `handle_request` |
| `reserving` | in `reserve_call`, with an entry in the ledger |
| `forwarding`, `sent` | owns a permit: before and after the upstream connection whose peer was checked |
| `closing`, `lapsed` | `reserve_call` ends the budget, for an allowance or a deadline, before and after it closes admission |
| `cancelling`, `announced`, `expiring` | a timed out call in `budget.cancel()`: after the cause, after the watch, after closing admission (then `finish`) |
| `answered`, `told` | the response is made, the response is with the client |
| `dropped` | its future was dropped |

The protocol decides what an abort does: an HTTP/1 request is part of its connection's future and
goes with it, wherever it awaits; an HTTP/2 request is a task that hyper spawned, which ends when
it notices that its connection is gone (`DropStream`), at any later time. Nothing suspends
inside `cancel` or `terminate`, so that a request which ends the budget cannot be dropped there.

The budget is the ledger, as for the broker, with its watch `cancelled` and whether a termination
is recorded (`terminated`). A call's timeout calls `cancel`, whose three statements are three steps
(`TimeOut`, `Announce`, `CloseAdmission`) before the call itself ends (`Expire`): in between, other
requests see the watch, are admitted, answer, or time out as well. `Doom` and `CloseDoomed` are the
two steps of `terminate` for a request that finds its allowance spent or its deadline passed. Who
ends the budget from outside the proxy is `outside`: an interrupt in the three steps of `cancel`, a
deadline or an allowance in two, or a cleanup call, which closes admission and ends nothing.

`corroborate_managed_server_peer` is `Corroborate`: the process the container inspection names,
which need not be the one that listens. `listening` is the process behind the upstream
socket, which may be replaced at any time (`Rebind`), and `reached` a history of where calls went.
`Snapshot` is the budget's snapshot as the runner takes it after `shutdown`. Left out: what makes a
request acceptable (origins, paths, header and body limits are one choice between `Reject` and
`Forward`), TLS, and the certificates.

### ArtifactStore and WriteOnceStore

Several processes use one state directory. A step is one call to the file system: `exists`,
`create_new`, `write_all` in two, `sync_all`, `hard_link`, the first `metadata`, `open` with the
second, the read with the third, `remove_file`. Names and files are separate, so that a file is the
same under its temporary and its final name. A process dies between any two calls (`Die`), keeps
what it left on the disk, and is started again under any process id that is free, with
`TEMPORARY_SEQUENCE` at zero; a loss of power ends all processes, forgets directory entries made
since the last one and tears what was not synced (`losses` counts them). `IOFails` is a full or failing disk, and the
removal of the temporary name may fail unnoticed. A ctime is what changes it in this system: the
file's data and the temporary names linked to it; the clock behind it is coarse, so that a change
may also stay unnoticed. `job`, `outcome` and `answer` are what a caller asked, what it will be
told once the temporary name is gone, and what it was told.

`WriteOnceStore` is the promise: nothing or one content under an identity, an answer only for what
is stored, and only a loss of power may forget: `Forget` counts in `losses`, which no other action
of the map changes. `ImplementsWriteOnce` maps an identity to the data of the file its name leads
to, and the losses to the losses, so that a step which forgets is one that lost power.

Left out: the private directories' permissions and ownership checks, which are one `io` failure.

### InterruptRegistry, BoundedCommand and InterruptedCommands

`InterruptRegistry` is `ACTIVE_BUDGET` and `INTERRUPTED`. The registry holds a weak reference, so
what matters is who still owns a budget: an execution from its registration until its scheduler
drops it, and the handler while it cancels it (`held`). `Register` is the section under the mutex,
`SwapFlag` the swap after it; `cancel_active` is `Interrupt` (the flag), `FindBudget` (the upgrade)
and `CancelHeld`. `scheduler.rs` drops the budget before the registration (`DropBudget`,
`DropRegistration`), in the order of its fields.

`BoundedCommand` is one child process with two pipes, two reader tasks and `run_bounded_command`:
`selecting` in its select, `killing`, `joining`, and its ends. A reader's loop is `Read`,
`LoadConsumed` and `SwapConsumed`, whose compare-and-swap fails when the other reader came between.
A process that inherited the pipes (`heir`) keeps them open after the child is gone. Bytes are
counted. Readers that an error of the command leaves behind are not followed.

`InterruptedCommands` runs such a command in one of the executions, with its budget's cancellation.

### GraphPages

A reader of a context slice calls the command once for each page. `PageOf` is what a page contains
- `expand`, the window of `page_size` nodes, the edges and contexts a page owns - and `Fresh` is `decode_cursor`. Between two pages the source or the request may change, and the
reader starts over when its cursor is refused. The reference definition (`WithinDepth`) speaks of
walks and knows nothing of layers or pages. Digests are injective; the content of nodes is left out.

## What is checked

| Run | Instance | Question | Result |
|---|---|---|---|
| `budget_late` | 2 tasks, 1 normal and 1 cleanup call, 2 permits, late timers, both tasks abortable, a cancellation | `TypeOK`, `PermitsAccounted`, `AllowancesKept`, `ImplementsLedger` | hold |
| `budget_prompt` | 3 tasks, 2 normal and 2 cleanup calls, 2 permits, interval 2, prompt timers | `SlotsSpaced`, `NormalCallsPaced`, `AdmittedInTime`, `CleanupSlotsFit` | hold |
| `budget_live` | 2 tasks, 1 permit, late timers, fairness | `EveryReservationEnds`, `TerminationDrains` | hold |
| `budget_burst` | 2 tasks, prompt timers | `OneAdmissionClock`, as the design states it | violated |
| `run_cleanup` | all transports, all failures | `JudgedRunsAreClean`, `EvidenceIsTrue`, `ReceiptAccountsForAll`, `StoppedRunsAreNotJudged`, `ScratchGoesLast`, `TypeOK` | hold |
| `run_evidence` | the same | `VerifiedMeansGone`, as the design states it | violated |
| `run_leased` | the same | `LeasedBeforeVisible`, as the design states it | violated |
| `broker_turns` | 2 clients, 2 calls to have, 3 connections, 2 workers | `TypeOK`, `GrantsAreHeld`, `CallsAreGranted`, `RecordedAsReported`, `OrderlyClientsAreServed` | hold |
| `broker_live` | 2 clients, 1 call, 2 connections, 1 worker, fairness | `RequestsAreAnswered`, `ShutdownEnds` | hold |
| `proxy_serve` | 2 requests with 2 calls and 2 permits, or 3 clients for 2 connections, or 2 servers; fairness | `TypeOK`, `ToldIsRecorded`, `CancelledCallsStopTheRun`, `OnePeer`, `ShutdownEnds`, `CancelledRunsDrain`, `ClientsAreServed` | hold |
| `store_publish` | 2 processes, 2 contents of one identity, 2 process ids, 4 files, 2 temporary names each, 2 faults | `TypeOK`, `PublishedIsComplete`, `ChangesAreSeenOnce`, `ImplementsWriteOnce` | hold |
| `host_parts` | 2 executions and 1 interrupt, a command with a ceiling of 1 byte and 2 bytes to write; 3 nodes, 1 change between pages; fairness | `TypeOK`, `InterruptsAreHeard`, `CaptureIsBounded`, `UnflaggedOutputIsWhole`, `CommandEnds`, `PagesMakeOneGraph` | hold |

Bounds. The budget's clock stops at `Horizon`, the run's deadline: nothing is paced or timed after
it. `budget_late` needs two tasks to make two reservations meet in every place, a cleanup call to
close admission under a normal one, and one call per allowance so that both are exhausted; aborting
is what multiplies its states. `budget_prompt` has a third task so that two slots are waited for
while a permit is contended, an interval longer than a tick so that a slot can fall between ticks,
and a cleanup reservation (2 * 2 ticks in 7 - 2) that is the tightest the code accepts.
`budget_live` has fewer permits than tasks, so that one waits for the other, and a cleanup call, so
that admission closes without a termination too. Tasks are symmetric; symmetry is not used with
liveness. The theorems below cover every other value. `WorkloadRun` has
no bound: it is the code's own finite structure. `broker_turns` has two calls for two clients, so
that a client can come back while its last handler is still returning, a denial, and the tightest
capacity of `OrderlyClientsAreServed` (two clients, two workers, three connections): a fourth
connection at once would end the broker. Two reported dispositions (`Answers`) tell a recorded
report from a guessed one. `proxy_serve` is three kinds of behaviour in one run (`part` of
`MCEnforcingProxy`), because their product is out of reach. In `calls`, one connection and two
requests which both hold a permit, so that one is in flight, or about to be admitted, at each step of
the other's timeout, with everybody else who can end the budget; the accepting loop does not fail. In
`clients`, three clients for two connections and one request, so that a client waits for the permit
of another. In `peers`, one connection with two requests and two servers, of which the second takes
the socket over, and no shutdown. What a part leaves out is never something fairness asks for.
`store_publish` has two contents of one identity, which no two artifacts have, so that a collision
is refused rather than assumed away; two temporary names per process, so that a process meets the name a dead one left
under its process id and still gets on; and two faults, so that a loss of power can follow a death
or a failing call. One identity is enough, as no step concerns two. In `host_parts` a ceiling of one
byte is the smallest that two readers can both believe to be free, and a second execution registers
under the interrupt of the first; three nodes make slices of up to three pages, over all graphs of
six edges with a cycle, a loop and a link to the outside. The two parts of `host_parts` share
nothing: a behaviour is one of either (`part`), so that the run is their sum and not their product. `broker_live` has one call, so that one client is denied, and one
worker, so that every step waits for it.

`OrderlyClientsAreServed` is a condition on the plan: the broker refuses a connection beyond its
capacity by ending itself, and that cannot happen to clients that take turns when
`clients + workers - 1` connections are allowed. Today's harness is one sequential client, for
which this is `max_open_files - 2 >= min(max_concurrency, available_parallelism)`; the code itself
requires only `max_open_files > 2`. It also shows that no denial, completed call or late return is
taken for a failure of the broker.

What the violations show:

* `run_evidence`: when the workload's startup is abandoned - `ready?` in
  `execute_container_workload` returns while the container's future is pending - its lease stays
  on top, and `run_workload` then completes *that* lease as verified for the proxy or the broker it
  just stopped. The receipt records a verified release of a container whose cleanup never ran. The
  run is reported as partial, which is why `JudgedRunsAreClean` still holds; and the transport's
  own lease is later released with true evidence. `EvidenceIsTrue` is the part that survives:
  without an abandoned startup the evidence is right.
* `run_leased`: the scratch directory is created, then made private, then leased.
* `budget_burst`: the cleanup clock starts from the last *admitted* call. A normal call that waits
  for its slot when a cleanup call closes admission may win its select at the same instant.

Fairness. `broker_live` assumes that the runtime polls every task that can run, that the deadline
passes, that a cancellation goes on to close admission (the next statement of `terminate`), and
that a client waiting for bytes sees its connection close. No client has to ask or report, and
nobody has to shut down or cancel. `budget_live` assumes that the runtime keeps polling a task that
can run, that time passes, and that a caller that owns a permit finishes it: both callers in the code bound the call
by the permit's deadline and by the cancellation. Nobody is obliged to reserve, cancel or abort.
`proxy_serve` assumes that the accepting loop and the requests are polled, that each
connection ends in the end (its handshake, its headers and its whole life have timeouts), that
a call's deadline passes, and that whoever began to end the budget goes on to the next statement; no
client has to send anything, and nobody has to shut down, interrupt or time out before its time.
`CommandEnds` assumes that the timer fires, the readers are polled and whoever inherited the pipes
lets go of them, while the child may run for ever.

`WorkloadRun`, the store and the pages have no liveness. That a whole run ends is not checked: some
of its awaits have no timeout, above all the joins of the transports' tasks (`proxy.rs:223`, called
at `workload.rs:173` and `192`) and of a killed child's readers (`sandbox/mod.rs:97`), and a model
in which every await returns would assume what is asked. What is checked is that the awaited parts
return: `ShutdownEnds` for the broker and the proxy, `CommandEnds` for a command.

What the models show besides, where no document of the repository says otherwise clearly enough to
call it a divergence:

* HTTP/2 requests outlive the proxy's shutdown until they notice that their connection is gone. A
  snapshot taken in between records their calls as cancelled; none of them can be answered, which
  is why `ToldIsRecorded` holds. (`src/proposals/codeatlas-execution-kernel-http-fuzz.md:393`
  has cancellation drain owned tasks.)
* The first timeout of a call cancels the whole execution, not that call. Its watch is set before
  admission closes, so that another call can end as cancelled, or a new one be admitted, while
  admission is still open; `CancelledCallsStopTheRun` says that this happens only while somebody
  stands between the two statements, and `CancelledRunsDrain` that nothing remains of it.
* With few open files, one idle connection keeps all others waiting until its timeout.
* A registration's drop finds itself current only while the interrupt handler still owns its
  budget, because the budget is dropped first. Hence `INTERRUPTED` normally stays set after an
  interrupted execution, and the next execution of the same process is cancelled at its
  registration; and a handler that still owns the budget makes a registration be refused.
* A reader of an intact artifact can be told that it changed, when the publisher removes its
  temporary name meanwhile; `ChangesAreSeenOnce` says that this does not repeat.

## What is proved

Each component has an inductive invariant `IInv` (theorem `Invariant`), of which its type invariant
is a part (`TypeCorrect`), and the properties follow from it or from an invariant that extends it.
The theorems hold for all values of the constants that the named assumptions allow.

### The budget

The theorems of `CallBudgetProofs` and `CallRefinementProofs` hold for every
plan `PlanAccepted` allows, any finite set of tasks and any horizon.

* `Invariant`: `Spec => []IInv`, with `IInv == TypeOK /\ NumberingInv /\ PermitInv`. The checked
  invariants are not inductive alone: that `finish_call` finds its entry needs that a reservation
  past the ledger has a number inside it (`NumberingInv`), and that a permit is given back once
  needs to know which places own one (`PermitInv`: a task in `slot`, `calling` or `release` does, a
  task in `idle`, `allocate` or `acquire` does not, and `inFlight` counts those calling). Each
  action is a step, each conjunct it disturbs a step below it.
* `TypeCorrect`, `PermitsAreAccounted`, `AllowancesAreKept` follow from it.
* `SlotsAreSpaced` needs that a slot being waited for lies at least an interval before its clock
  (`SlotInv`).
* `CallsAreAdmittedInTime` and `NormalCallsArePaced` assume `Prompt` and use that no timer is
  overdue (`DueInv`): the clock does not pass a task that can run. The second also needs that the
  last normal admission lies an interval before the normal clock and before every normal slot that
  is waited for (`NormalInv`).
* `CleanupSlotsAlwaysFit`, for any `Prompt`: the last cleanup slot is bounded by the normal
  deadline plus one interval for each cleanup call that has had a slot, counting the calls
  of the ledger that are cleanup calls and not waiting for a permit (`CleanupInv`); with the check of
  `CallBudget::new` that bound is before the run's deadline.
* `BudgetImplementsLedger`: `Spec => Ledger!Spec` under the mapping of `CallBudget`. It needs that
  a call is owned by one reservation of its own kind and has no disposition while that reservation
  is not released (`OwnerInv`, which makes the calls in flight and the tasks that make them
  equinumerous), and that the counters count the entries of their kind (`CountInv`). `Allocate` is
  `Enter`, `Admit` is `Activate`, `Abandon`, `Finish` and the abort of a call are `Settle`, closing
  admission is `Close`; every other action is a stutter of the ledger.

### The run

`WorkloadRunProofs` has no constant but the resources of a run; what it adds to `run_cleanup` is
the argument, and an independence from TLC.

* The place of the run determines its stack of leases, up to one: an abandoned startup leaves the
  container's lease on top, and every later completion by position is off by that one (`StackInv`).
  While nothing was abandoned, whoever completes the latest lease completes its own, which makes
  the evidence true (`TruthInv`, `EvidenceIsAlwaysTrue`).
* A resource is leased before it exists, or it is the scratch directory that could not be made
  private, or a socket whose start failed and which lies in a leased scratch directory
  (`AccountInv`). Nothing is leased or recorded twice (`OnceInv`, `FreshInv`):
  `ReceiptsAccountForAll`.
* An abandoned run has an error, and a run with an error is never complete (`CompleteInv`). With
  the two above, `JudgedRunsAreAlwaysClean`.
* The snapshot is the termination, which nobody changes after it (`VerdictInv`):
  `StoppedRunsAreNeverJudged`.
* The scratch directory is the lowest lease, even with the wrong lease on top:
  `ScratchAlwaysGoesLast`.

### The broker

`PermitBrokerProofs`, for a finite set of clients (`FiniteClients`), any number of connections,
workers and calls:

* a handler's place goes with the place of the client it serves and with the status of its call:
  who owns a permit stands in `granting` or `completion`, two handlers never have one call, a
  client that calls is served by a handler in `completion` (`GrantsAreAlwaysHeld`,
  `CallsAreAlwaysGranted`, `ReportsAreRecorded`);
* `OrderlyClientsAreAlwaysServed` counts: handlers that serve a client are no more than the
  clients, handlers that are returning occupy a worker each, and the broker's own step occupies
  one, so that with `clients + workers - 1` connections a slot is left when a client comes;
* `BrokerKeepsTheLedger`: `Spec => Ledger!Spec`. Every step is one step of the ledger or none. The
  actions call the ledger's by name; what has to be proved is that the call they settle is an entry
  of the ledger, and that what a client reports is one of its dispositions.

### The proxy

`EnforcingProxyProofs`, for any number of clients, requests, servers and permits:

* the place of a request goes with the status of its call, and no two requests have one call; the
  snapshot is taken only after the loop ended, and a loop that ended without an error has no
  connection left by which an answer could still be delivered (`ToldIsAlwaysRecorded`);
* a call that was made ends as cancelled only by steps that see the watch set, or by a timeout that
  has set it and closed admission itself; the watch is set after the cause is recorded, and between
  the watch and the closing of admission stands the request, or the interrupt, that set it
  (`StopInv`, `CancelledCallsAlwaysStopTheRun`);
* a call goes to the expected peer only, which is fixed once (`OnePeerIsReached`);
* `ProxyKeepsTheLedger`: `Spec => Ledger!Spec`, as for the broker. `LedgersAreLimited` is about the
  ledger itself: its two allowances and the concurrency of the plan bound whoever writes to it, and
  it has no cleanup call while normal ones are admitted (`LedgerInv`). The two together give
  `ProxyCallsAreLimited`, and, with the steps of the ledger, `ProxyCallsSettleOnce`: of a timeout, a
  dropped stream and a late answer only one settles a call. That the ledger may stand for the budget
  here is `BudgetImplementsLedger`.

### The store

`ArtifactStoreProofs`, for any processes, contents, process ids, files and bounds:

* a file being filled has one owner and no identity; a file that is linked to an identity is
  complete, of that identity, and synced, so that a loss of power cannot tear it
  (`PublishedIsAlwaysComplete`);
* a process that is about to answer knows something of the store that no other process can undo,
  and a loss of power undoes the process as well (`StoreImplementsWriteOnce`): `Link` is `Publish`,
  a conclusive `Read` and the removal after it are `Confirm`, a loss of power is `Forget`, all
  others are stutters or `Ask`. Only a loss of power counts as one (`LossesStep`);
* a file is created under one temporary name and never gets another, so that a reader has seen a
  published artifact as it is up to that one name; once the name is gone, which is what a reader is
  told, nothing is left to change (`ReadersInv`, `ChangesAreAlwaysSeenOnce`).

### Interrupts and commands

`InterruptedCommandsProofs`, for any number of executions, interrupts, bytes and any ceiling. The
registry and the command have an invariant each, which a step of the other cannot disturb:

* a registered execution can be found, and an interrupt it has not heard is still in the handler's
  hands (`InterruptsAreAlwaysHeard`);
* the shared counter equals what the readers kept, and each byte written is kept, taken or in the
  pipe until the ceiling was noticed (`CapturesAreBounded`, `UnflaggedOutputIsAll`).

### Pages

`GraphPagesProofs`, for any finite set of nodes, any links, contexts and requests (`GraphParameters`
says what `validate_request` lets through) and any number of changes:

* `SlicesAreComplete` is about `expand` alone. After `k` rounds what is included is within distance
  `k` of the roots, the frontier holds whatever is at that distance and no less, and the order lists
  what is included, each node once. This goes by induction over the rounds; the library's induction
  theorems take an operator as a parameter, which the provers cannot instantiate, so that induction
  is stated here of a set (`SetInduction`), from the well-ordering of the natural numbers.
* The pages of a reading are windows of one slice, each beginning where the one before it ends, and
  the cursor of a reading that has not come to its end carries the graph, the request and the end of
  the last window (`ReadingInv`, theorem `Invariant`). `Fresh` makes the next page a window of the
  same slice although source and request may have changed.
* Windows that follow each other and cover the slice own each node once; an edge goes with the node
  it leaves, a context with the first of its roots, and so both are on one page
  (`SlicesAreOneGraph`).
* `ReadingsAreShort` is the part of "a reading comes to its end" that is a safety property: a page
  that leaves more is full, and the cursor of a reading that goes on is before the end, so that each
  page after the first brings a node (`ShortInv`), and there are at most as many pages as the slice
  has nodes, or one.

### Only model-checked

Liveness (`EveryReservationEnds`, `TerminationDrains`, `RequestsAreAnswered`, the
`ShutdownEnds` of broker and proxy, `CancelledRunsDrain`, `ClientsAreServed`, `CommandEnds`), which is beyond the prover:
it has no rule for fairness and `ENABLED`. Every invariant, action property and refinement that a
passing run checks is also a theorem.

## Not modelled

* The in-container harness beyond its side of the permit protocol and its markers, and the
  conformance probes: one process that starts others, whose effects on the host are already
  everything `WorkloadRun` allows.
* Execution plans, policies and limits: validation of values, without state. What the kernel relies
  on is in the assumptions `PlanAccepted` and `LimitsAccepted`.
* Code fuzzing, HTTP contracts and fuzzing, PostgreSQL inspection: generation, minimisation and
  comparison of cases; their concurrency is the kernel's.
* Source analysis, dead code, architecture, lexicon, packages, configuration, testing impact,
  schemas and outputs, which are most of the lines of this repository: pure transformations of
  source text through parsers, tables of words and templates. They keep no state, run in one
  thread, and their properties are about the meaning of several languages; a model of them would be
  either a transcription or about something else. The paging of slices is the part of them that
  spans several commands.
* Command line, installer and build tasks: wiring.

## Plan

Done: the budget and its abstract ledger, the registry of leases and the run, the broker, the
proxy, the store and its write-once map, interrupts and commands, pages; and the proofs of all of
them.

Left, in this order:

1. The broker and the proxy over one budget, for the order in which the handlers of both meet one
   cancellation.
2. The harness's children and markers, to replace the free choice of `RunContainer`.
3. Reachability over a source graph (`analysis/`, `dead_code`) against a reference definition, as
   for the pages.
4. Limits of a plan (`execution/policy.rs`), and that every accepted plan satisfies `PlanAccepted` and
   `LimitsAccepted`.
