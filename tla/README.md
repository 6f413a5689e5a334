# Verification of the Better Colab controller

TLA+ models of the durable part of Better Colab (`src/src/better_colab`): TLC
checks them on small instances, TLAPS proves the safety properties for every
value of the constants. `PROJECT.json` is the index: components, runs, mutants,
the map from each definition to the lines it models, findings, hazards and
theorems.

## 1. The system

Better Colab runs Python on a Google Colab kernel and keeps a durable record of
every execution. A command line client talks over a Unix socket to one
controller process per user; the controller owns one worker thread per session,
which owns the websocket to that session's kernel. Everything that must survive
is in one SQLite database and in spool files beside it.

| component | state | operations | interacts with |
|---|---|---|---|
| execution states (`models.py`, `storage.py`, `kernel_transport.py`) | none | transition graph, terminal rules | used by everything below |
| durable store, executions (`storage.py`) | execution rows, evidence columns, source spool, output index | create, begin/confirm dispatch, transition, evidence, output, cancel, timeout, reconcile, force | one transaction per call, called from the event loop and from every worker |
| kernel transport (`kernel_transport.py`) | websocket client, two event queues, live proof | connect, prepare, send, next_event, interrupt, close | external: Jupyter kernel, Colab runtime |
| kernel worker (`execution.py`, `_KernelWorker`) | FIFO, current item, transport, connection id, stop_event | run, recover, batch, probe, transport_close, failure handlers | store, transport, coordinator callbacks |
| coordinator (`execution.py`, `ExecutionCoordinator`) | workers, scheduled set, pending count, leases | submit, recover, submit_batch, cancel, acquire/release lease, close | controller loop, workers |
| batches (`storage.py`, `execution.py`) | parent row, member rows in order | create, run, stop on error, cancel, resume | the worker's FIFO |
| leases and probes (`execution.py`, `controller.py`) | lease per session, connection rows | acquire, close the transport, release, health probe | admission of starts, the worker's queue |
| controller server (`controller.py`) | locks, topics, writers, shutdown flag | requests, waits, notifications, stop, close, reconcile and resume | clients, coordinator, store |
| startup election (`controller_client.py`, `controller.py`) | startup lock, lifetime lock, socket, pid file | ensure_running, spawn, wait | several client processes, controller processes |
| output spool and paging (`storage.py`) | spool bytes, event index, artifacts | append, finalize, read page, prune | worker writes, a forced stop finalizes beside it, clients read, other processes prune |
| sessions, keep-alive (`client.py`, `keep_alive.py`, `colab_cli/commands`) | a row in each of two registries, daemon pid, assigned VMs | ensure, new, run, exec, console, stop, sync, import, keep alive | Colab service, the controller's worker |
| notebooks (`notebooks.py`, `notebook_commands.py`) | notebook file | inspect, page cells, update, assign ids, run cells, write outputs back | executions, output pages, an editor |
| command line, typed models, protocol | none | parse, format, frame | controller client |
| retained upstream CLI (`src/src/colab_cli`) | state file, tokens, history | one-shot commands | Colab service |

What is hard here, and not reached by unit tests: two threads and several
processes commit to the same rows; every handler may be cut by a crash between
two commits; the two Jupyter channels are unordered relative to each other and
may be lost; `send` and `interrupt` may fail after they took effect; reads are
used after somebody else changed the row; failure handlers can fail themselves.
`PROJECT.json` "hazards" lists these at their lines.

What makes each part correct:

* *executions*: no request is sent twice; a settled row tells what the kernel
  did, or says that nobody knows; complete output is complete; every accepted
  execution settles and always has an owner; source text does not outlive its
  dispatch; first accepted, first dispatched.
* *batches*: children run in order and only as the policy allows; the parent's
  verdict agrees with its children; a cancel reaches everything; the parent
  settles.
* *startup*: one controller at most; a serving controller is reachable; a client
  that needs one gets one.
* *leases*: a command that holds the lease has the kernel to itself, nobody else
  ends its lease, and readiness is proved on the connection there is now.
* *waits*: no wake-up is lost, topics end up showing the row, and a stop ends.
* *output*: what is indexed can be read; pages neither skip nor repeat; a digest
  that claims completeness covers everything.
* *sessions*: no VM is forgotten but by an error nobody handles, a recorded one
  is kept alive, a daemon ends after its VM, a kernel is recorded only with its
  own VM.
* *notebooks*: output is attached only to the cell it was computed for, whole;
  ids stay unique; the outputs rebuilt are those the messages described, JSON
  and images in the form they were sent.

## 2. The modules

| module | models |
|---|---|
| `ExecutionStates` | states, transition graph, terminal rules |
| `ExecutionStore` | transactions on an execution row |
| `KernelLink` | transport, channels, kernel and runtime (external) |
| `ExecutionWorker` | `_run_one`, `_recover_one` and the failure handlers, one action per commit, send or receive |
| `ExecutionLifecycle` | composition of the four: event loop, stops, crashes, restart |
| `DurableExecution` | abstract promise to a client; `ExecutionLifecycle` implements it |
| `BatchScheduler` | parents, members, batch loop, cancel, resume |
| `StartupElection` | clients, locks, sockets, controller processes |
| `SessionLease` | leases, probes, transport close, admission of starts |
| `WaitNotify` | waits, topics, publications, the shutdown that waits for connections |
| `OutputSpool` | append, crash, finalize, page, prune |
| `OutputLog` | abstract append-only log; `OutputSpool` implements it |
| `SessionRegistry` | both session registries, keep-alive daemons, VMs |
| `NotebookDocument` | the notebook file under commands, an editor and executions |
| `OutputRendering` | kernel messages to stored rows and back to cell outputs |
| `ExecutionLifecycleProofs` | theorems about `ExecutionLifecycle`, and that it implements `DurableExecution` |
| `BatchSchedulerProofs`, `StartupElectionProofs`, `SessionLeaseProofs`, `WaitNotifyProofs`, `OutputSpoolProofs`, `SessionRegistryProofs` | theorems about the module of that name |
| `NotebookDocumentProofs` | theorems about write-back: `NotebookDocument` and `OutputRendering` |
| `MC*` | model values and definitions for TLC |

Every part whose operations change shared state has its module, and every safety
property the runs check is proved (section 4).

### Executions

`ExecutionStore` has one operator per store method; its guard is the method's
error path. `ExecutionLifecycle` extends `ExecutionWorker`, which extends
`KernelLink` and `ExecutionStore`.

| variable | code |
|---|---|
| `state`, `ev`, `src`, `qat` and the other store variables | columns of `executions`, the source spool file, `queued_at` |
| `kq`, `shell`, `iopub`, `kout`, `answers` | what the kernel was given, what is on the way back, and (history) what it printed and answered |
| `fifo`, `pc`, `cur`, `mode`, `proof`, `target`, `handler` | `_KernelWorker.items`, the place in `_run_one`/`_recover_one`, the live `ExecutionProof`, the terminal about to be committed, the failure handler in progress |
| `torn` | executions whose output spool is longer than `output_byte_size` |
| `refusal` (history) | whether `submit` last refused the queued row, in this process (`standing`), or did so before (`past`) |
| `lpc`, `todo`, `work`, `step`, `goal`, `stopping` | place in the request the event loop serves, and the rows a multi-row routine still has to visit |
| `sent` (history) | how often the request was handed to the transport |

A kernel reply is its status; an output is a count; a message is its kind and
its parent. Timestamps are reduced to the order of acceptance. The event loop
runs one request at a time, as asyncio does for handlers without await; the
worker interleaves with it between any two commits. `Crash` may happen anywhere,
and `CrashInTransaction` between a file operation and the commit it belongs to.
A crash inside an append makes the row `torn` until the next append truncates
the file. `finalize_output` raises on a torn row that has indexed output
(`CanFinalizeOutput`); each of its callers then does what the code makes of the
error: the worker goes to its failure handler and, when that fails as well, ends
(`pc = "dead"`), a forced stop is off, and a new process ends while it
reconciles (`RoutineRaises`). `Submit` looks for a lease a second time, after
the row was committed, and may be refused (`SessionLeased`).

### Batches

`BatchScheduler` keeps one session's worker and reduces a child's own lifecycle
to the row moves that `ExecutionWorker` shows it can make: `Begin` (row read,
source, connection, dispatch), then `Watch` and `Event`. What the batch loop can
see of it is kept: it returns or raises. `pc` walks `_run_batch`
(`open, start, member, after, stopread, stopcommit, stopped, close, final`) and
`_batch_internal_failure` (`failed`, then `stopread` with `failing`);
`stop_queued_execution` is its two steps. `request_batch_cancel` is
`CancelBatch`, `CancelParent` and one `CancelMember` per transaction. The
"recovered" outcomes of a restart are chosen from what durable evidence can
prove (`Reconciled`). `torn` is as above: `CrashInAppend` adds to it, the next
output takes it away (`Heals`), and `TornRaises`, `ForceRaises` and `BootFails`
are the three places where `finalize_output` raises. An orderly stop
(`StopWhenIdle`) is granted while nothing is unsettled, and starts on open
connections are served until `CloseCoordinator`. `left` remembers the rows the
worker turned away from before they were settled (`Leave`: at `stop_event`, at
an output that cannot be finalized, at a failed interrupt of an unconfirmed
dispatch), `refused` the work that `submit` or `submit_batch` refused.

### Startup

`StartupElection` has any number of clients in `ensure_running` and controller
processes in `start`/`run`/`close`. A lock is its owner, a path the process it
was created by. The probe of the lifetime lock, its release, the two unlinks and
the spawn are separate steps. A deadline that passes although a controller is
starting or closing is the fault "timeout"; one that passes when nobody will
ever answer needs no fault.

### Leases and probes

`SessionLease` has the request threads of `acquire_session_lease`,
`release_session_lease` and `probe_session`, the start request of the event
loop, and one worker with its queue. `lease`, `hasWorker` and `queue` are
`_leases`, `_workers` and `items`; each is locked for one access only, so the
look at the lease (`StartCheck`, `Submit`, `ProbeCheck`), the creation of a row
and the `put` are separate steps. `AwaitClose` is `close_transport` with its
limit of five seconds. `ProbeSend`, `KernelAnswers`, `ProbeObserve` and
`ProbeRecord` are the readiness proof; a probe's answers stay in `msgs`, where a
later probe may still meet them. A client may be killed while it holds the
lease, and a restart forgets all leases.

### Waits

`WaitNotify` is the asyncio loop in segments between awaits. A handler that has
read the store and not yet acted keeps the loop (`busy`), while workers, in
their threads, `Commit` and then `Notify` (`call_soon_threadsafe`, the counter
`posted`). `PublishReads` and `PublishWakes` are `_publish_execution` and
`_publish_batch`. `Stop`, `Signal` and `Close` are the shutdown; `Close` needs
every connection gone, because `Server.wait_closed` does from Python 3.12 on.

### Output

`OutputSpool` is one execution's text file, its index and artifact rows and its
artifact files. A byte remembers which append wrote it and its place in its
UTF-8 character, so that a cut inside a character or a mixture of two appends
can be seen. File and database are written in separate steps, a crash may fall
between any two, and a failed transaction truncates the file as the code does.
The worker and the forced stop finalize in the same steps (`Finalize*`: read,
hash, stat, copy, insert, index, commit). `Page*` is `read_output_page` and the
client that follows `next_cursor`; `Prune*` is another process. The mapping to
`OutputLog`: the text is the committed prefix of the file, sealed is
`output_finalized_at` set, dropped is no row.

### Sessions

`SessionRegistry` is one session name: its row in `sessions.json` (`json`) and
in the durable store (`db`), the VMs assigned at Colab (`vms`), a daemon per
endpoint, and commands in steps of one call to Colab, one write of a registry,
one process started or killed. An error is an alternative of the step that makes
the call, with the handler the command has for it or, for the retained commands,
none (`Aborts`). An error that takes a VM from its command or its row adds that
VM, and no other, to `excused` (`Excuse`): an answer to an assignment that is
lost, a pre-flight, a write or a spawn that fails outside the handlers of the
retained commands, a failed unassign, a killed command, a row that is
overwritten, a session pruned on a 401 or 404 while its VM lives. `dirty`
remembers that commands overlapped or that a request slipped past the lease: the
code gives no guarantee then (section 5), and the safety properties ask for
none. A ping of a daemon returns, also when its read times out
(`DaemonPings`), is refused with a 4xx of any kind whether or not the VM is
there (`DaemonRefused`), or fails in another way (`DaemonMisses`); a daemon may
also end by itself (`DaemonEnds`).

### Notebooks

`NotebookDocument` is the file as a sequence of cells with an identity, a source
and outputs. Every mutating command is a snapshot, checks and a replacement of
the whole file, without a lock; an editor may save in between. A hash is what it
is a hash of.

`OutputRendering` follows messages through `append_output_event` (`MessageRows`:
rows per MIME representation and chunk, artifacts above a limit; `Rows`: the
whole-text artifact) and back through `_notebook_outputs` (`Reading`), and
compares with what the messages say by themselves (`Shown`). The inner loops of
`_notebook_outputs` that collect the rows of one stream, error or display are
the row being of the group read so far (`Continues`). `AsArtifact` says which
representations are files. A representation is `raw` when storing it leaves it
as it is although showing it converts it back: a string displayed as JSON, which
`_append_mime_output` does not encode, and what is no strict base64 displayed as
an image, which `_decode_binary_representation` does not decode. The end of a
group of JSON reads its text (`Ended`, `Loads`) and may fail, and then nothing
is written (`Raises`); an image is encoded again (`RenderedOutputs`).
`MessagesAssumption` is
what `_normalize_output` makes of a message: text has one representation, and
the representations of a display are the entries of a dict. Its specification is
`LogSpec`, so that it can be read beside `NotebookDocument` in one proof module.

## 3. Runs

Passing runs. `CHECK_DEADLOCK FALSE` in all of them: when every execution is
settled and the budgets are used, the system rests.

| run | instance | shows |
|---|---|---|
| `lifecycle_one` | one timed execution, replies ok, error and abort, any two of: lost wire, failed send, failed connection, crash (also inside a transaction or an append), kernel restart, kernel replaced, refused submission; fair | `AtMostOnce`, `TerminalTruth`, `CompleteMeansAll`, `SourceDiscarded`, `Settles`, and refinement of `DurableExecution` (`PromiseKept`) |
| `lifecycle_two` | two executions on one wire, also malformed replies, a repeated key, one fault of: lost wire, crash, failed send, removed session, refused submission, forced or orderly stop, failed interrupt | `TypeOK`, `PromiseInv` (the inductive invariant), `ScheduledOnce`, `NoOrphan`, `FifoDispatch`, `ProofNotLost` |
| `batch` | batch of two and a standalone execution, any two of: failed connection, crash (also inside an append), forced stop, orderly stop, refused submission, failed interrupt, the standalone start; fair | `BatchInv` (`BatchVerdict`), `MemberSentOnce`, `ChildOrder`, `BatchSettles` |
| `election` | two clients, three processes, each of slow answer, timeout, killed client, stop and crash at most once; fair | `ElectionInv`, `Reachable`, `UnlinkOnlyStale`, `GetsController` |
| `session_lease` | two commands, one prober, one execution, three ids, one crash or killed client | `LeaseInv` (`LeaseKept`), `CleanExclusive`, `ReadyIsCurrent` |
| `wait_notify` | one waiting client, one that starts, cancels, notifies and stops, a batch with one member, one more topic, three calls; fair | `WaitInv` (`NoLostWakeup`), `PayloadSettles`, `WaitAnswered`, `BoundedStop` |
| `output_spool` | two texts whose last character straddles the chunk limit, one rich event, two page budgets, two crashes or failed transactions | `SpoolInv` (`IndexBacked`), `CompleteDigest`, `PagesFaithful`, refinement of `OutputLog` (`ImplementsLog`) |
| `sessions` | one process, two commands, two VMs; fair daemons | `RegistryInv` (`NoLeak`), `RowKept`, `KernelMatches`, `DaemonStops` |
| `notebook` | two commands at a time, three in all, one execution, two cells with any of three ids or none, one edit | `OutputsProven`, `CellsPaged`, `IdsSound` |
| `rendering` | every log of up to four of fifteen messages | `NothingLost`, `RenderedFaithfully` |

`Settles` is checked with well-formed replies: a reply whose status is none of
`ok`, `error` and `aborted` is no proof, and the code then waits for as long as
the connection lasts. Likewise a removed session is left to `lifecycle_two`: its
recovery waits until the session exists again. It excepts, as the code makes it
(section 5), a row that a lease keeps out of the queue of a process that goes on
serving, and a spool that stays torn; `BatchSettles` likewise.

**Bounds.** `MaxFaults` bounds how many faults happen, `MaxOut` how many outputs
a kernel prints per execution; `MaxCalls`, `MaxCmds`, `MaxOps`, `MaxEdits`,
`MaxAppends`, `MaxRich`, `MaxMessages` the requests, commands, edits, outputs
and messages; `MaxIds` and `MaxVMs` the names handed out. One execution with two
faults reaches every pair of failures of the lifecycle (a lost wire and then a
crash, a failed send and then a replaced kernel); crossing two executions needs
two rows but only one fault. A batch of two has a member before and after a
failure. Two faults of a batch are, for example, a
crash inside an append and a forced stop over the torn row, or an orderly stop
and the standalone start that overtakes it. In the lifecycle, whose runs have
either two faults or forced stops, a forced stop over a torn row is left to the
proofs. Three servers are one more than a crash and a stop use up. Two lease clients are a holder and one
that would take the lease from it. Two appends of five bytes over chunks of four
make every cut of the code: inside a text, between texts, and before a character
that does not fit. One process in `sessions` because overlapping commands set
`dirty`, under which the safety properties say nothing; two commands allocate
and then use, release, replace or prune, and every command may be cut or fail at
each of its steps. None of these bounds is in the theorems.

**Symmetry** is used only in runs without liveness: over executions in
`lifecycle_two` (no timed one) and over clients in `session_lease`, which no
definition tells apart.

**Fairness.** Weak fairness of the worker thread and of the event loop's own
steps (threads are scheduled), of the kernel and of delivery on a wire that
holds (a program that ends is answered), of booting a controller (the next
client starts one). Requests, faults and deaths are never assumed.
`BatchSettles` uses strong fairness for "the kernel answers", because the loop
polls with a timeout and a poll that finds nothing is a step. `GetsController`
assumes that a client repeats a call that failed with the retryable
`CONTROLLER_START_TIMEOUT`, and that a process that was started runs; it assumes
neither that a controller goes on serving nor that one dies. `WaitNotify`: the
loop runs while a task is ready or a timeout is due, and a worker that has
committed goes on to notify; not that executions end. `SessionRegistry`: a
daemon goes on with its loop (weak fairness of `DaemonChecks`), and of the pings
for a VM that is gone not all fail without an answer: one that reaches the
backend is refused (strong fairness of `DaemonRefused` while the VM is gone,
beside `DaemonMisses`). That read timeouts do not wipe out each refusal before
the next is not assumed but a case of `DaemonStops`.

## 4. What is proved

For every set of executions, keys, clients, processes, batches and texts, every
limit and every fault budget, from the named assumptions on the constants only:

| theorem | property |
|---|---|
| `TypeCorrect` | `TypeOK` of the composed lifecycle |
| `PromiseInvariant` | `PromiseInv` |
| `KeepsPromise` | `PromiseKept`: the lifecycle implements `DurableExecution` |
| `SentAtMostOnce`, `VerdictsTrue` | `AtMostOnce`, `TerminalTruth` |
| `SourcesDiscarded` | `SourceDiscarded` |
| `EachScheduledOnce`, `NothingOrphaned` | `ScheduledOnce`, `NoOrphan` |
| `FirstAcceptedFirst` | `FifoDispatch` |
| `CompleteOutputIsAll` | `CompleteMeansAll` |
| `ProofKept` | `ProofNotLost` |
| `MembersSentOnce` | `MemberSentOnce` of batches |
| `BatchesTruthful`, `MembersInOrder` | `BatchInv`, `ChildOrder` |
| `OneControllerAtATime` | `ElectionInv` |
| `ServingReachable`, `OnlyStaleUnlinked` | `Reachable`, `UnlinkOnlyStale` |
| `LeaseNeverStolen`, `LeaseIsExclusive`, `ReadinessIsCurrent` | `LeaseInv`, `CleanExclusive`, `ReadyIsCurrent` |
| `NoWakeupLost`, `TopicsSettle` | `WaitInv`, `PayloadSettles` |
| `SpoolStaysReadable`, `DigestsComplete`, `PagesFollowIndex` | `SpoolInv`, `CompleteDigest`, `PagesFaithful` |
| `SpoolIsLog` | `ImplementsLog`: the spool implements `OutputLog` |
| `NothingLeaks`, `SessionsKept`, `KernelIsOwn` | `RegistryInv`, `RowKept`, `KernelMatches` |
| `WrittenBackIsProven`, `CommandsKeepIds`, `PagesAreTheNotebook` | `OutputsProven`, `IdsSound`, `CellsPaged` |
| `TextKept`, `ShownFaithfully` | `NothingLost`, `RenderedFaithfully` |

The pattern is the same everywhere. A property is seldom inductive, because it
depends on what an actor is about to do with something it read earlier; the
inductive invariant says, for each place where an actor holds something in its
hands, which earlier event it rests on or which rows it still agrees with. TLC
checked each invariant on the instances of section 3 before its proof was
written. Below each invariant there is a lemma per action, or per group of
actions that disturb the same part of it.

*The lifecycle: what was sent and answered.* `PromiseInv` consists of
`AboutToSend` (a worker about to send holds a row that was never sent),
`Watching` (one that observes has sent), `KernelTold` and `WireTruth` (what the
kernel has was sent, what is on the wire was answered), `MemoryTruth` and
`RowTruth` (the reply in the live proof and in the row was answered),
`TargetTruth` and `GoalTruth` (the terminal about to be committed by the worker,
or by a restart or forced stop, is justified). `TypeCorrect` comes first and is
used as a hypothesis; then each action preserves each part it can disturb, and
each action maps to a step of `DurableExecution` or a stutter.

*The lifecycle: who has a row.* `SourceDiscarded` is inductive beside the types.
`ScheduledOnce` and `NoOrphan` follow from `ScheduleInv`: the row in the worker's
hand is in a state its place allows or somebody else settled it (`InPlace`), an
item of the queue waits for a row in the state it was queued for (`Queue`), no
other unsettled row exists while the controller serves than those `NoOrphan`
names (`Owned`), a timeout is only recorded for a confirmed dispatch (`Intended`), and the routine of a new
process leaves disconnected rows only (`Reconciled`). That `Resume` lists every
row once is a counting argument on sequences of distinct `queued_at`
(`OrderedLists`).

*The lifecycle: dispatch order.* `FifoInv`, over `ScheduleInv`: no two rows have
one `queued_at` (`Dated`); the queue is in the order of `queued_at`, and the row
in hand, while it may still be dispatched, comes before it (`InLine`); the
worker is told to stop only when nothing more is accepted (`Closing`), and even
then no queued row is forgotten (`Remembered`); the row between its commit and
its submission is the newest (`Newest`), so appending it keeps the order. After
a restart the order is that of `Resume`.

*The lifecycle: complete output.* What a kernel printed is at any moment in the
index, in the worker's hand or on the wire. `CompleteInv` says so while the
worker watches over a wire that holds or over which the end was seen
(`NothingSlips`); that idle comes last on its channel (`Channels`); that nothing
of a request exists before it was sent (`Unsent`); that a row settled by a proof
has everything (`RowsQuiet`); and that wherever the wire broke before, the row
is marked incomplete before anybody can settle it (`Marked` for the worker,
`MarkedByLoop` for a restart and a forced stop). The proof uses `PromiseInv` and
`ScheduleInv`.

*The lifecycle: a proof is kept.* `ProofNotLost` rests on `ProvenInv`: a row has
no evidence before it runs (`Fresh`); the memory of a worker that watches a row
holds at least what the row holds (`Covered`), and a message it records it has
observed first (`Heard`); so after the evidence that completes a proof the worker
goes on to settle the row on it, or the process dies and the next one does so
before it serves (`Settling`). The proof uses `ScheduleInv`, for whose hand a row is in.

*Batches.* `MemberSentOnce` needs that a batch without a parent row has no
member rows, and that batches do not share members (`BatchAssumption`; the
controller creates a new row for each member). The verdicts and the order need
`BatchProof`: what the loop has passed is settled, and finished unless it
remembers a failure, or was left (`Progress`); a batch is stopped for a reason
that will show, and what is still active then comes after a member that was left
(`Stopping`); and an active member that was not left comes after members that
were passed and, while the process serves, is the one the worker watches
(`Strict`). That a new process
submits every unfinished parent once needs finitely many batches.

*Startup.* `ElectionInv` is inductive as it stands. While no start outlives its
client's deadline, `StartInv` adds that an elected client which unlinks or
spawns has no living controller beside it, that a controller on its way up has a
client that waits for it, and that the paths name the living controller. Faults are counted, so
the condition held before if it holds now (`PromptBefore`).

*Leases.* `LeaseInductive`: a token belongs to one command (`Tokens`), which owns
the lease from the grant to the release (`OwnedKept`); behind a clean request the
queue holds nothing but the close request, which is in it, in hand or done
(`Alone`); and the proof a probe has collected consists of answers to its own
request over this connection (`Probing`).

*Waits.* "Whoever is blocked on a settled row will be woken" is not inductive:
the row may settle between the handler's read and its wait. `WaitInv` adds
`ReadHeard`, the same promise to the handler that has read and not yet blocked.
The proof rests on two lemmas: a row that stops being active does so with a
publication owed or posted, which only `PublishReads` takes away (`RowStep`);
and while a segment holds the loop no other one runs (`BusyStep`).
`PayloadSettles` needs `PublishInv`: what a publication has read is still the
row, or another publication is on its way. `WaitAssumption` keeps clients, rows
and the idle loop apart and gives each row one batch at most.

*Output.* `SpoolProof` says where the file stands at each step of an append
(`Transaction`), that an artifact in an actor's hands is its own (`Hands`), that
while the output claims to be complete the worker alone finalizes it, over a
file that no longer changes (`Settled`), and that what a reader has is the part
of the index between two cursors (`Paged`). The loop over the chunks of a text
is a step per INSERT of the model, so it needs no induction; that every chunk
ends at a character needs that texts are whole characters (`WholeCharacters`)
and that no character is longer than the chunk limit (`SpoolAssumption`).

*Sessions.* `RegistryProof` is well-formedness and, while commands do not
overlap (`~dirty`), `Tidy`: what the running command holds agrees at each of its
places with the rows and the assigned VMs (`Held`), a VM that is not excused is
known (`Known`) and, unless it is being allocated or released, has a daemon that
finds its row or ended by itself (`Kept`), and the lease keeps the worker from
writing a kernel into a row that was replaced since it read it (`WorkerAgrees`).

*Notebooks.* `NotebookInv` says what a process holds between its snapshot and its
write: a notebook about to replace the file has sound ids and proven outputs,
and a settled row that was read before the output is still the row (`Held`).
It rests on rows that do not change once settled (`RowsSettle`), so a proof in
any copy of the notebook stays one. `CellsPaged` follows from `Begun`: what the
reader has is a beginning of the one snapshot its pages are of.
`NotebookAssumption` tells a missing id from every id.

*What a cell shows.* The prover cannot use the library's induction theorems,
which take an operator; `FromZero` and `OneMore` state induction over numbers
and over sequences for sets instead, and every recursive function of
`OutputRendering` is known from a lemma that says how it goes on by one element
(`FlattenAppend`, `ReadingAppend`, `UptoIs`). The rows of a message can then be
read as if each representation had one row (`ReadMessage`), and the whole-text
row at the end changes nothing (`WholeTextShowsNothing`). `NothingLostInv` says
of a log without clears, updates, artifacts and errors in a row that the text of
the outputs so far is the text said so far, and `LoadsInv` of every log that
JSON which cannot be read was a string or merged with JSON (`Explained`).
`FaithfulInv` says, while rows tell
messages apart, that the outputs rebuilt so far are, item by item, what the
messages say (`ShownItems`: text and display id), that an open clear is pending
for both, and that the group being read is the last message's (`Follows`). A
new message moves both sides alike: it clears (`ClearFollows`), adds outputs
(`NewFollows`), goes on with a stream (`JoinFollows`) or replaces the last output
of its display id (`UpdateFollows`). The work is on the side of the messages,
where `Shown` looks at the log as a whole: `Facts` collects what its maxima are,
and `SlotKept` and the `Step` lemmas say which slots another message disturbs.

Only model-checked: all liveness (`Settles`, `BatchSettles`, `GetsController`,
`WaitAnswered`, `BoundedStop`, `DaemonStops`), which is out of the prover's
reach.

## 5. Findings

Each is a run that TLC must find violated, and a quoted statement of the
repository (`PROJECT.json` "findings").

| run | what the code does |
|---|---|
| `spool_crash` | bytes of an append whose process died before its commit stay in the spool until another append; a recovery that settles without new output fails the length check of `finalize_output` (`storage.py:2419`) and ends the worker thread |
| `stop_completes` | a forced stop settles rows without publishing them, so a client that waits without a limit is never woken, and `close` awaits its connection (`controller.py:144`) before it would close it |

Other behaviours the models show, which the properties allow for:

* *Executions.* One whose send fails becomes `unknown` with `output_complete`
  true (`execution.py:1059`; README.md:166-168 says otherwise). A failed
  interrupt of an unconfirmed dispatch leaves the row without an owner
  (`execution.py:1108`; docs/09:120-121). A start whose `submit` meets a lease
  granted since the row was committed (`execution.py:1219`) is answered with an
  error, and its row stays queued with nobody to run it, until the start is
  repeated or the controller restarts; later starts overtake it when the lease
  ends. Hence `refusal` in `NoOrphan`, `FifoDispatch` and `Settles`. After a
  crash inside an append, a row with a durable proof makes
  `reconcile_after_restart` raise, and every new controller ends while it starts
  (`storage.py:2419`); without such a proof the recovery ends the worker thread
  instead, unless more output arrives first. Hence `torn` in `Settles`.
  `_internal_failure` can fail itself,
  when a crash inside a cancel left a queued row without its source and another
  cancel races the handler (`execution.py:333`). Hence `pc = "dead"` in
  `NoOrphan` and `BatchSettles`.
* *Batches.* Cancels that race the batch loop and then its failure handler end
  the worker thread without any fault (`execution.py:307`). `_run_one` returns early
  at `stop_event`; the batch loop then counts the unsettled child as a success,
  dispatches the next one and may mark the batch finished (`execution.py:988`,
  `:1029`; docs/09:132-133), after a forced stop as after an orderly one whose
  answer a start on another connection overtook. A child whose output cannot be
  finalized stays disconnected under a parent in `error` (`execution.py:295`).
  Hence `left` in `BatchVerdict` and `ChildOrder`. `submit_batch` may be refused
  like `submit` (`execution.py:1267`); hence `refused` in `BatchSettles`. A batch cancel recorded between the
  worker's read of the queued parent and `set_batch_state("running")`
  (`execution.py:976`) is overwritten: the members are cancelled, the parent
  ends in `error`. A crash inside `request_batch_cancel` (`storage.py:2915`)
  leaves queued members that the next controller dispatches; hence `requested`
  in `ChildOrder`. Cancelling one member while the worker opens it makes
  `_run_one` raise, and the rest of the batch is stopped whatever
  `continue_on_error` says. `_reconcile_and_resume` submits unfinished batches
  before recoveries (`controller.py:1150`; docs/08:93-94).
* *Startup.* After a client's deadline the next one may unlink the socket of the
  living controller that the first one started (`controller_client.py:163`).
* *Leases.* docs/13:38-39 promises exclusivity. It is not kept for a request
  that passed its check before the grant, nor across a restart, which forgets
  leases; a killed client's lease stays until the restart. A start that is
  refused at `submit` leaves its row queued and unscheduled (above). Hence
  `clean` and `epoch` in `CleanExclusive`.
* *Sessions.* Two concurrent ensures both allocate; a failing ensure deletes
  whichever row is under the name, without the lease; `colab new` overwrites a
  row; `console` and `run --keep` add a pruned session again; `sync` prunes what
  is under the name by then. Hence `dirty`. A retained command catches only
  `ColabRequestError` at the pre-flight (`session.py:272`, `run.py:325`): without
  an answer, or when the token cannot be refreshed, it ends with the VM assigned
  and no row, although `session.py:261-265` speaks of never leaking a billable
  assignment; it also does so when `StateStore.add` fails, and leaves a row
  without a daemon when `Popen` fails. `is_terminal_error` (`utils.py:37-46`)
  takes any 401 or 404, or a text that contains one, for a lost session, so that
  `exec`, `repl`, `run` and `console` prune the row of a VM that lives. A stop
  that fails at unassign has already killed the daemon. Hence `excused`. Any two
  refusals in a row end a daemon, also 401, 403 or 429 for a VM that lives
  (`keep_alive.py:61`, `session.py:719`); hence `ended` in `RowKept`. A read
  timeout counts as success (`client.py:310`) and wipes out the refusal before
  it, so a daemon whose VM is gone goes on while timeouts and refusals alternate;
  hence `Forgets` in `DaemonStops`.
* *Notebooks.* An edit between a command's snapshot and its replacement of the
  file is lost (docs/12:40-41). Consecutive displays of one MIME type and no
  display id are merged; an update with several representations replaces only
  the last one's output; of adjacent errors only the last traceback is written
  back. Hence the conditions in `NothingLost` and `RenderedFaithfully`. Two
  JSON displays merged into one text, and a string displayed as JSON, which is
  stored without quotes (`storage.py:2053`), make `json.loads` raise
  (`notebooks.py:610`), and the whole write-back fails; or they read as another
  value when the text happens to be JSON (`"1"`, or two numbers), which the
  model counts as a failure. What is no strict base64, a value that ends in a
  newline say, is stored as it is (`storage.py:2117`) and encoded once more
  (`notebooks.py:499`). Hence `JsonString`, `JsonClash` and `ShownAsSent`.

`UnlinkOnlyStale` and `Reachable` are stated without early deadlines for the
same reason. In all these properties the exception names the one row, member or
VM that the behaviour touches, where the state can tell it.

## 6. What is not modelled

* One worker per model. Workers of different sessions share only the store,
  whose transactions are per row.
* Storage errors (a full disk, a locked database) other than a crash or a
  failure around a commit; schema migration, one sequential transaction.
* The command line, typed models, envelopes, framing and authentication:
  parsing, formatting and I/O without concurrency of their own.
* Of the retained upstream CLI, what does not change the session registry: file
  transfer, drive and utility commands, history, updates, private files.
* The plugin, skill, integration scripts and release tooling of the repository.
