--------------------------- MODULE BatchScheduler ---------------------------
(***************************************************************************)
(* Ordered batches on one session's worker: a parent row, its member       *)
(* executions, the batch loop of the worker (_run_batch), the requests of  *)
(* the controller's event loop, and what a restart makes of an unfinished  *)
(* parent.  Standalone executions share the worker's queue.                *)
(*                                                                         *)
(* A member is run by _run_one and recovered by _recover_one, whose        *)
(* details are in ExecutionWorker.  Here they are reduced to the moves of  *)
(* the row that module allows ("begin", then the observation loop "watch"  *)
(* and "event"), to what their caller can see of them (they return or they *)
(* raise), and to the races that decide which.                             *)
(***************************************************************************)
EXTENDS Naturals, Sequences, FiniteSets, ExecutionStates

CONSTANTS
  Batches,      \* batch ids
  Members,      \* the member executions of each batch, in notebook order
  Faults, MaxFaults   \* the kinds of disturbance, and how many of them happen

MembersOf(b) == {Members[b][i] : i \in DOMAIN Members[b]}

\* Every batch creates rows of its own, and there are finitely many.
ASSUME BatchAssumption ==
  /\ Members \in [Batches -> Seq(Executions)]
  /\ \A b, c \in Batches : b # c => MembersOf(b) \cap MembersOf(c) = {}
  /\ \A b \in Batches : \A i, j \in DOMAIN Members[b] :
       Members[b][i] = Members[b][j] => i = j
  /\ Batches \cap Executions = {} /\ None \notin Batches
  /\ IsFiniteSet(Batches)
  /\ MaxFaults \in Nat

VARIABLES
  bstate,     \* execution_batches.state, "absent" without a row
  cont,       \* the batches started with continue_on_error
  state,      \* executions.state
  intent,     \* the active rows with a recorded cancel
  lost,       \* queued rows whose source spool a crash removed
  torn,       \* rows whose output spool holds more than their index
  left,       \* history: rows the worker turned away from, unsettled
  order,      \* batches and executions by creation time
  fifo,       \* the worker's queue
  pc, batch, child, pos, spos, saw, failing, final,   \* _run_batch
  stop,       \* the worker's stop_event
  lpc, job, cpos, todo, stopping,                     \* the event loop
  faults,
  requested,  \* history: the batches whose cancel was recorded
  refused,    \* history: work committed, but refused by this process's queue
  sent        \* history: how often each member was sent

rowVars == <<bstate, cont, state, intent, lost, torn, left, order>>
batchVars == <<pc, batch, child, pos, spos, saw, failing, final>>
serverVars == <<lpc, job, cpos, todo, stopping>>
vars == <<rowVars, fifo, batchVars, stop, serverVars, faults, requested, refused,
          sent>>

BatchTerminal == {"finished", "error", "interrupted"}
BatchActive == {"queued", "running", "cancelling"}
Failures == TerminalStates \ {"finished"}

IsMember(e) == \E b \in Batches : e \in MembersOf(b)
Standalone == {e \in Executions : ~IsMember(e)}
Work == Batches \cup Executions
Items == [kind : {"batch", "execute", "recover", "stop"}, id : Work \cup {None}]

TypeOK ==
  /\ bstate \in [Batches -> {"absent"} \cup BatchActive \cup BatchTerminal]
  /\ cont \subseteq Batches
  /\ state \in [Executions -> ExecStates]
  /\ intent \subseteq Executions /\ lost \subseteq Executions
  /\ torn \subseteq Executions /\ left \subseteq Executions
  /\ order \in Seq(Work) /\ fifo \in Seq(Items)
  /\ pc \in {"idle", "open", "start", "member", "begin", "watch", "event",
             "after", "stopread", "stopcommit", "stopped", "failed", "close",
             "final", "exited", "dead"}
  /\ batch \in Batches \cup {None} /\ child \in Executions \cup {None}
  /\ pos \in Nat /\ spos \in Nat /\ saw \in BOOLEAN /\ failing \in BOOLEAN
  /\ final \in BatchTerminal
  /\ stop \in BOOLEAN /\ stopping \in BOOLEAN
  /\ lpc \in {"down", "ready", "submit", "cancel", "force", "joining"}
  /\ job \in Work \cup {None} /\ cpos \in Nat /\ todo \subseteq Executions
  /\ faults \in 0..MaxFaults
  /\ requested \subseteq Batches /\ refused \subseteq Work
  /\ sent \in [Executions -> Nat]
  \* the loops stay within the batch
  /\ pc \in {"after", "stopcommit"} => batch \in Batches
  /\ batch \in Batches => pos <= Len(Members[batch]) + 1
  /\ pc = "after" => pos \in DOMAIN Members[batch]
  /\ pc = "stopcommit" => spos \in DOMAIN Members[batch]

Init ==
  /\ bstate = [b \in Batches |-> "absent"] /\ cont = {}
  /\ state = [e \in Executions |-> "absent"]
  /\ intent = {} /\ lost = {} /\ torn = {} /\ left = {}
  /\ order = <<>> /\ fifo = <<>>
  /\ pc = "idle" /\ batch = None /\ child = None /\ pos = 1 /\ spos = 1
  /\ saw = FALSE /\ failing = FALSE /\ final = "error" /\ stop = FALSE
  /\ lpc = "down" /\ job = None /\ cpos = 0 /\ todo = {} /\ stopping = FALSE
  /\ faults = 0 /\ requested = {} /\ refused = {} /\ sent = [e \in Executions |-> 0]

\* What disturbs a batch is bounded: faults, stops, leases and the standalone
\* executions that are accepted beside it.
Fault(kind) ==
  /\ kind \in Faults /\ faults < MaxFaults
  /\ faults' = faults + 1

-----------------------------------------------------------------------------
(***************************************************************************)
(* Store transactions.                                                     *)
(***************************************************************************)

\* set_batch_state: a settled parent stays as it is, anything else moves.
SetBatchState(b, s) ==
  /\ bstate' = [bstate EXCEPT ![b] = IF @ \in BatchTerminal THEN @ ELSE s]
  /\ UNCHANGED <<cont, state, intent, lost, torn, left, order>>

SetState(e, s) ==
  /\ state' = [state EXCEPT ![e] = s]
  /\ UNCHANGED <<bstate, cont, intent, lost, torn, left, order>>

\* request_execution_cancel on a row in any state.
CancelRow(e) ==
  /\ state' = [state EXCEPT ![e] = IF @ = "queued" THEN "interrupted" ELSE @]
  /\ intent' = IF state[e] \in ActiveStates THEN intent \cup {e} ELSE intent
  /\ UNCHANGED <<bstate, cont, lost, torn, left, order>>

-----------------------------------------------------------------------------
(***************************************************************************)
(* The worker.                                                             *)
(***************************************************************************)
Go(place) ==
  /\ pc' = place
  /\ UNCHANGED <<batch, child, pos, spos, saw, failing, final>>

Released(place) ==
  /\ pc' = place /\ batch' = None /\ child' = None /\ pos' = 1 /\ spos' = 1
  /\ saw' = FALSE /\ failing' = FALSE /\ final' = "error"

WorkerOnly == UNCHANGED <<stop, serverVars, requested, refused>>

TakeItem ==
  /\ pc = "idle" /\ fifo # <<>>
  /\ fifo' = Tail(fifo)
  /\ LET item == Head(fifo) IN
       CASE item.kind = "stop" -> Released("exited")
         [] item.kind = "batch" ->
              /\ pc' = "open" /\ batch' = item.id
              /\ UNCHANGED <<child, pos, spos, saw, failing, final>>
         [] item.kind = "execute" /\ state[item.id] = "queued" ->
              /\ pc' = "begin" /\ child' = item.id
              /\ UNCHANGED <<batch, pos, spos, saw, failing, final>>
         [] item.kind = "recover" /\ state[item.id] = "disconnected" ->
              /\ pc' = "watch" /\ child' = item.id
              /\ UNCHANGED <<batch, pos, spos, saw, failing, final>>
         [] OTHER -> Released("idle")
  /\ WorkerOnly /\ UNCHANGED <<rowVars, faults, sent>>

\* _run_one and _recover_one return to the batch loop, or to the queue.
ChildReturns ==
  IF batch = None THEN Released("idle")
  ELSE /\ pc' = "after" /\ child' = None
       /\ UNCHANGED <<batch, pos, spos, saw, failing, final>>

(***************************************************************************)
(* They raise: a batch enters _batch_internal_failure, which knows nothing *)
(* of the child; a standalone execution is settled by _internal_failure.   *)
(***************************************************************************)
ChildRaises ==
  IF batch # None
  THEN /\ pc' = "failed" /\ failing' = TRUE /\ child' = None
       /\ UNCHANGED <<batch, pos, spos, saw, final, rowVars>>
  ELSE /\ Released("idle")
       /\ SetState(child, CASE state[child] = "queued" -> "interrupted"
                            [] state[child] \in ActiveStates -> "unknown"
                            [] OTHER -> state[child])

(***************************************************************************)
(* The row was read as queued; its source, the connection and the dispatch *)
(* follow.  If a cancel came first, reading the source raises, and a       *)
(* dispatch that comes later fails quietly.  stop_event is not looked at.  *)
(***************************************************************************)
Begin ==
  /\ pc = "begin"
  /\ \/ /\ state[child] = "queued" /\ child \notin lost
        /\ SetState(child, "dispatching")
        /\ sent' = [sent EXCEPT ![child] = @ + 1]
        /\ Go("watch") /\ faults' = faults
     \/ /\ state[child] = "queued" /\ child \notin lost
        /\ Fault("connect")
        /\ SetState(child, "interrupted") /\ ChildReturns /\ sent' = sent
     \/ /\ state[child] # "queued" \/ child \in lost
        /\ ChildRaises /\ UNCHANGED <<sent, faults>>
     \/ /\ state[child] # "queued"
        /\ ChildReturns /\ UNCHANGED <<rowVars, sent, faults>>
  /\ WorkerOnly /\ UNCHANGED fifo

\* The worker turns to other work while the row is not settled.
Leave(e) ==
  /\ left' = left \cup {e}
  /\ UNCHANGED <<bstate, cont, state, intent, lost, torn, order>>

\* The head of the observation loops: a worker told to stop leaves the child.
Watch ==
  /\ pc = "watch"
  /\ \/ state[child] \in TerminalStates /\ ChildReturns /\ UNCHANGED rowVars
     \/ state[child] \notin TerminalStates /\ stop /\ ChildReturns /\ Leave(child)
     \/ state[child] \notin TerminalStates /\ ~stop /\ Go("event") /\ UNCHANGED rowVars
  /\ WorkerOnly /\ UNCHANGED <<fifo, sent, faults>>

\* The outcomes an observed reply can prove for the child.
Provable(e) ==
  {"finished", "error"}
    \cup (IF e \in intent THEN {"interrupted"} ELSE {})
    \cup (IF e \in Timed THEN {"timed_out"} ELSE {})

Settles(s) ==
  child \notin torn /\ SetState(child, s) /\ ChildReturns /\ faults' = faults

(***************************************************************************)
(* finalize_output raises on a spool longer than its index.  A batch goes  *)
(* to its failure handler and leaves the child as it is; for a standalone  *)
(* execution _internal_failure raises the same error again and the worker  *)
(* thread ends.                                                            *)
(***************************************************************************)
TornRaises ==
  /\ child \in torn /\ faults' = faults
  /\ IF batch # None
     THEN /\ pc' = "failed" /\ failing' = TRUE /\ child' = None
          /\ UNCHANGED <<batch, pos, spos, saw, final>>
          /\ Leave(child)
     ELSE Released("dead") /\ UNCHANGED rowVars

\* An output event is appended where the index ends: what was too much goes.
Heals ==
  /\ torn' = torn \ {child}
  /\ UNCHANGED <<bstate, cont, state, intent, lost, left, order>>

Event ==
  /\ pc = "event"
  /\ \/ /\ state[child] = "dispatching"
        /\ SetState(child, "running") /\ Go("watch") /\ faults' = faults
     \/ /\ state[child] \in {"dispatching", "disconnected"}
        /\ Settles("unknown")
     \/ /\ state[child] \in {"running", "disconnected"}
        /\ \E s \in Provable(child) : Settles(s)
     \/ state[child] = "disconnected" /\ TornRaises
     \/ /\ state[child] = "running"          \* the connection is lost
        /\ SetState(child, "disconnected") /\ Go("watch") /\ faults' = faults
     \/ /\ child \in intent \ torn /\ Fault("interrupt")     \* _ambiguous_interrupt
        /\ state[child] \in ActiveStates /\ ChildReturns
        /\ IF state[child] = "dispatching" THEN Leave(child)
                                          ELSE SetState(child, "unknown")
     \/ /\ state[child] \in {"running", "disconnected"}      \* output
        /\ Heals /\ Go("watch") /\ faults' = faults
     \/ Go("watch") /\ UNCHANGED <<rowVars, faults>>        \* no event yet
     \/ /\ state[child] \in TerminalStates   \* settled behind its back
        /\ ChildRaises /\ faults' = faults
  /\ WorkerOnly /\ UNCHANGED <<fifo, sent>>

-----------------------------------------------------------------------------
\* _run_batch reads the parent ...
OpenBatch ==
  /\ pc = "open"
  /\ CASE bstate[batch] \in BatchTerminal -> Released("idle")
       [] bstate[batch] = "queued"        -> Go("start")
       [] OTHER                           -> Go("member")
  /\ WorkerOnly /\ UNCHANGED <<rowVars, fifo, sent, faults>>

\* ... and moves a parent it read as queued to running.
StartRunning ==
  /\ pc = "start"
  /\ SetBatchState(batch, "running") /\ Go("member")
  /\ WorkerOnly /\ UNCHANGED <<fifo, sent, faults>>

NextMember ==
  /\ pc = "member"
  /\ IF pos > Len(Members[batch]) THEN Go("close")
     ELSE LET e == Members[batch][pos] IN
          /\ pc' = CASE state[e] = "queued"       -> "begin"
                     [] state[e] = "disconnected" -> "watch"
                     [] OTHER                     -> "after"
          /\ child' = IF pc' = "after" THEN None ELSE e
          /\ UNCHANGED <<batch, pos, spos, saw, failing, final>>
  /\ WorkerOnly /\ UNCHANGED <<rowVars, fifo, sent, faults>>

\* Mutants: a failed member is ignored; a failure is forgotten.
IgnoreFailure ==
  /\ pc = "after"
  /\ saw' = (saw \/ state[Members[batch][pos]] \in Failures)
  /\ pc' = "member" /\ pos' = pos + 1
  /\ UNCHANGED <<batch, child, spos, failing, final>>
  /\ WorkerOnly /\ UNCHANGED <<rowVars, fifo, sent, faults>>

ForgetFailure ==
  /\ pc = "after"
  /\ pc' = "member" /\ pos' = pos + 1 /\ saw' = FALSE
  /\ UNCHANGED <<batch, child, spos, failing, final>>
  /\ WorkerOnly /\ UNCHANGED <<rowVars, fifo, sent, faults>>

\* After a member: stop the rest, or go on to the next one.
AfterMember ==
  /\ pc = "after"
  /\ LET failed == state[Members[batch][pos]] \in Failures IN
       /\ saw' = (saw \/ failed)
       /\ IF failed /\ batch \notin cont /\ bstate[batch] # "cancelling"
          THEN pc' = "stopread" /\ spos' = pos + 1 /\ pos' = pos
          ELSE pc' = "member" /\ pos' = pos + 1 /\ spos' = spos
  /\ UNCHANGED <<batch, child, failing, final>>
  /\ WorkerOnly /\ UNCHANGED <<rowVars, fifo, sent, faults>>

\* stop_queued_execution: a read, and then a transition that may be too late.
StopRead ==
  /\ pc = "stopread"
  /\ IF spos > Len(Members[batch]) THEN Go("stopped")
     ELSE IF state[Members[batch][spos]] = "queued" THEN Go("stopcommit")
     ELSE /\ spos' = spos + 1
          /\ UNCHANGED <<pc, batch, child, pos, saw, failing, final>>
  /\ WorkerOnly /\ UNCHANGED <<rowVars, fifo, sent, faults>>

StopCommit ==
  /\ pc = "stopcommit"
  /\ IF state[Members[batch][spos]] = "queued"
     THEN /\ SetState(Members[batch][spos], "interrupted")
          /\ pc' = "stopread" /\ spos' = spos + 1
          /\ UNCHANGED <<batch, child, pos, saw, failing, final>>
     ELSE /\ UNCHANGED rowVars
          /\ IF failing THEN Released("dead")
             ELSE /\ pc' = "failed" /\ failing' = TRUE
                  /\ UNCHANGED <<batch, child, pos, spos, saw, final>>
  /\ WorkerOnly /\ UNCHANGED <<fifo, sent, faults>>

BatchStopped ==
  /\ pc = "stopped"
  /\ SetBatchState(batch, "error") /\ Released("idle")
  /\ WorkerOnly /\ UNCHANGED <<fifo, sent, faults>>

\* _batch_internal_failure: stop whatever is still queued.
BatchFailed ==
  /\ pc = "failed"
  /\ IF bstate[batch] \in BatchTerminal THEN Released("idle")
     ELSE /\ pc' = "stopread" /\ spos' = 1
          /\ UNCHANGED <<batch, child, pos, saw, failing, final>>
  /\ WorkerOnly /\ UNCHANGED <<rowVars, fifo, sent, faults>>

CloseBatch ==
  /\ pc = "close"
  /\ pc' = "final"
  /\ final' = CASE bstate[batch] = "cancelling" -> "interrupted"
                [] bstate[batch] # "cancelling" /\ saw -> "error"
                [] OTHER -> "finished"
  /\ UNCHANGED <<batch, child, pos, spos, saw, failing>>
  /\ WorkerOnly /\ UNCHANGED <<rowVars, fifo, sent, faults>>

FinishBatch ==
  /\ pc = "final"
  /\ SetBatchState(batch, final) /\ Released("idle")
  /\ WorkerOnly /\ UNCHANGED <<fifo, sent, faults>>

Worker ==
  \/ TakeItem \/ Begin \/ Watch \/ Event \/ OpenBatch \/ StartRunning
  \/ NextMember \/ AfterMember \/ StopRead \/ StopCommit \/ BatchStopped
  \/ BatchFailed \/ CloseBatch \/ FinishBatch

-----------------------------------------------------------------------------
(***************************************************************************)
(* The event loop.                                                         *)
(***************************************************************************)
ServerOnly == UNCHANGED <<batchVars, stop>>

\* create_batch_executions: the parent and every member in one transaction.
StartBatch(b) ==
  /\ lpc = "ready" /\ bstate[b] = "absent"
  /\ bstate' = [bstate EXCEPT ![b] = "queued"]
  /\ cont' \in {cont, cont \cup {b}}
  /\ state' = [e \in Executions |-> IF e \in MembersOf(b) THEN "queued" ELSE state[e]]
  /\ order' = Append(order, b) \o Members[b]
  /\ lpc' = "submit" /\ job' = b
  /\ ServerOnly
  /\ UNCHANGED <<intent, lost, torn, left, fifo, cpos, todo, stopping, faults, requested,
                 refused, sent>>

StartOne(e) ==
  /\ lpc = "ready" /\ e \in Standalone /\ state[e] = "absent" /\ Fault("standalone")
  /\ state' = [state EXCEPT ![e] = "queued"]
  /\ order' = Append(order, e)
  /\ lpc' = "submit" /\ job' = e
  /\ ServerOnly
  /\ UNCHANGED <<bstate, cont, intent, lost, torn, left, fifo, cpos, todo, stopping,
                 requested, refused, sent>>

Item(w) == [kind |-> IF w \in Batches THEN "batch" ELSE "execute", id |-> w]

\* The rows are committed.  submit then looks for a lease again, and one that
\* was granted meanwhile refuses the work that a restart alone will find.
Submit ==
  /\ lpc = "submit"
  /\ \/ /\ fifo' = Append(fifo, Item(job))
        /\ UNCHANGED <<faults, refused>>
     \/ /\ Fault("lease") /\ refused' = refused \cup {job}
        /\ fifo' = fifo
  /\ lpc' = "ready" /\ job' = None
  /\ ServerOnly
  /\ UNCHANGED <<rowVars, cpos, todo, stopping, requested, sent>>

CancelOne(e) ==
  /\ lpc = "ready" /\ state[e] \notin {"absent"} \cup TerminalStates
  /\ CancelRow(e)
  /\ ServerOnly
  /\ UNCHANGED <<fifo, serverVars, faults, requested, refused, sent>>

(***************************************************************************)
(* request_batch_cancel: read the parent, record the intent, then cancel   *)
(* each member in a transaction of its own.                                *)
(***************************************************************************)
CancelBatch(b) ==
  /\ lpc = "ready" /\ bstate[b] \in BatchActive
  /\ lpc' = "cancel" /\ job' = b /\ cpos' = 0
  /\ ServerOnly
  /\ UNCHANGED <<rowVars, fifo, todo, stopping, faults, requested, refused, sent>>

CancelParent ==
  /\ lpc = "cancel" /\ cpos = 0
  /\ SetBatchState(job, "cancelling")
  /\ requested' = requested \cup {job}
  /\ cpos' = 1
  /\ ServerOnly
  /\ UNCHANGED <<fifo, lpc, job, todo, stopping, faults, refused, sent>>

CancelMember ==
  /\ lpc = "cancel" /\ cpos > 0
  /\ IF cpos <= Len(Members[job])
     THEN CancelRow(Members[job][cpos]) /\ cpos' = cpos + 1 /\ UNCHANGED <<lpc, job>>
     ELSE lpc' = "ready" /\ job' = None /\ cpos' = 0 /\ UNCHANGED rowVars
  /\ ServerOnly
  /\ UNCHANGED <<fifo, todo, stopping, faults, requested, refused, sent>>

\* A forced stop, row by row; its finer steps are in ExecutionLifecycle.
ForceStop ==
  /\ lpc = "ready" /\ Fault("force")
  /\ lpc' = "force" /\ todo' = {e \in Executions : state[e] \in ActiveStates}
  /\ ServerOnly
  /\ UNCHANGED <<rowVars, fifo, job, cpos, stopping, requested, refused, sent>>

ForceRow ==
  /\ lpc = "force"
  /\ \E e \in todo :
       /\ state[e] \in ActiveStates => e \notin torn
       /\ SetState(e, IF state[e] \in ActiveStates THEN "unknown" ELSE state[e])
       /\ todo' = todo \ {e}
  /\ ServerOnly
  /\ UNCHANGED <<fifo, lpc, job, cpos, stopping, faults, requested, refused, sent>>

ForceDone ==
  /\ lpc = "force" /\ todo = {}
  /\ lpc' = "ready" /\ stopping' = TRUE
  /\ ServerOnly
  /\ UNCHANGED <<rowVars, fifo, job, cpos, todo, faults, requested, refused, sent>>

\* A row that cannot be finalized fails the request: the stop is off.
ForceRaises ==
  /\ lpc = "force" /\ \E e \in todo \cap torn : state[e] \in ActiveStates
  /\ lpc' = "ready" /\ todo' = {}
  /\ ServerOnly
  /\ UNCHANGED <<rowVars, fifo, job, cpos, stopping, faults, requested, refused, sent>>

\* controller.stop of an idle controller.  What other connections ask for is
\* still served until the coordinator is closed.
StopWhenIdle ==
  /\ lpc = "ready" /\ Fault("stop")
  /\ \A e \in Executions : state[e] \in {"absent"} \cup TerminalStates
  /\ stopping' = TRUE
  /\ ServerOnly
  /\ UNCHANGED <<rowVars, fifo, lpc, job, cpos, todo, requested, refused, sent>>

CloseCoordinator ==
  /\ lpc = "ready" /\ stopping
  /\ stop' = TRUE /\ fifo' = Append(fifo, [kind |-> "stop", id |-> None])
  /\ lpc' = "joining"
  /\ UNCHANGED <<rowVars, batchVars, job, cpos, todo, stopping, faults,
                 requested, refused, sent>>

ProcessEnds ==
  /\ Released("idle") /\ fifo' = <<>> /\ stop' = FALSE
  /\ lpc' = "down" /\ job' = None /\ cpos' = 0 /\ todo' = {}
  /\ stopping' = FALSE /\ refused' = {}
  /\ UNCHANGED <<bstate, cont, state, intent, left, order, requested, sent>>

Exit == lpc = "joining" /\ ProcessEnds /\ UNCHANGED <<lost, torn, faults>>

Crash == lpc # "down" /\ Fault("crash") /\ ProcessEnds /\ UNCHANGED <<lost, torn>>

\* The process dies between the write to the spool and the commit of its index.
CrashInAppend ==
  /\ pc = "event" /\ state[child] \in {"running", "disconnected"} /\ Fault("crash")
  /\ torn' = torn \cup {child}
  /\ ProcessEnds /\ UNCHANGED lost

\* A cancel unlinks the source before its transaction commits.
CrashInCancel ==
  /\ lpc \in {"ready", "cancel"} /\ Fault("crash")
  /\ \E e \in Executions : state[e] = "queued" /\ lost' = lost \cup {e}
  /\ ProcessEnds /\ UNCHANGED torn

-----------------------------------------------------------------------------
\* Mutant: an interrupted dispatch goes back to the queue.
RequeueDispatch(e) ==
  CASE state[e] = "dispatching" -> {"queued"}
    [] state[e] \in {"running", "disconnected"} ->
         {"disconnected"} \cup (IF e \in torn THEN {} ELSE Provable(e))
    [] OTHER -> {state[e]}

\* What reconcile_after_restart may make of a row: durable proof settles it,
\* unless its spool cannot be finalized.
Reconciled(e) ==
  CASE state[e] = "dispatching" -> {"unknown"}
    [] state[e] \in {"running", "disconnected"} ->
         {"disconnected"} \cup (IF e \in torn THEN {} ELSE Provable(e))
    [] OTHER -> {state[e]}

ItemsOf(kind, q) == [i \in 1..Len(q) |-> [kind |-> kind, id |-> q[i]]]

\* The rows of an unfinished parent are left to it.
Owned(e) == \E b \in Batches : bstate[b] \in BatchActive /\ e \in MembersOf(b)

\* A set of work in the order of its creation.
Before(v, w) == \E i, j \in DOMAIN order : i < j /\ order[i] = v /\ order[j] = w
InOrder(W) ==
  {q \in [1..Cardinality(W) -> W] : \A i, j \in DOMAIN q : i < j => Before(q[i], q[j])}

RowsIn(rows, s) == InOrder({e \in Executions : ~Owned(e) /\ rows[e] = s})

UnfinishedParents == InOrder({b \in Batches : bstate[b] \in BatchActive})

\* Mutant: parents are not resumed.
ResumeRowsOnly(parents, recover, execute) ==
  ItemsOf("recover", recover) \o ItemsOf("execute", execute)

(***************************************************************************)
(* _reconcile_and_resume: unfinished parents first, then the recoveries    *)
(* and then the queued rows that belong to none of them.                   *)
(***************************************************************************)
Resumed(parents, recover, execute) ==
  ItemsOf("batch", parents) \o ItemsOf("recover", recover) \o ItemsOf("execute", execute)

Boot ==
  /\ lpc = "down"
  /\ \E rows \in [Executions -> ExecStates] :
       /\ \A e \in Executions : rows[e] \in Reconciled(e)
       /\ state' = rows
       /\ \E p \in UnfinishedParents, r \in RowsIn(rows, "disconnected"),
             q \in RowsIn(rows, "queued") : fifo' = Resumed(p, r, q)
  /\ lpc' = "ready"
  /\ ServerOnly
  /\ UNCHANGED <<bstate, cont, intent, lost, torn, left, order, job, cpos, todo, stopping,
                 faults, requested, refused, sent>>

\* Proof of a row that cannot be finalized ends the new process while it
\* starts; the rows before it are reconciled.
BootFails ==
  /\ lpc = "down"
  /\ \E bad \in torn, rows \in [Executions -> ExecStates] :
       /\ state[bad] \in {"running", "disconnected"} /\ rows[bad] = state[bad]
       /\ \A e \in Executions : rows[e] \in {state[e]} \cup Reconciled(e)
       /\ state' = rows
  /\ ServerOnly
  /\ UNCHANGED <<bstate, cont, intent, lost, torn, left, order, fifo, serverVars,
                 faults, requested, refused, sent>>

-----------------------------------------------------------------------------
Server ==
  \/ \E b \in Batches : StartBatch(b) \/ CancelBatch(b)
  \/ \E e \in Executions : StartOne(e) \/ CancelOne(e)
  \/ Submit \/ CancelParent \/ CancelMember
  \/ ForceStop \/ ForceRow \/ ForceRaises \/ ForceDone \/ StopWhenIdle
  \/ CloseCoordinator \/ Exit \/ Crash \/ CrashInAppend \/ CrashInCancel
  \/ Boot \/ BootFails

Next == Worker \/ Server

Spec == Init /\ [][Next]_vars

(***************************************************************************)
(* The worker and the event loop go on with what they began, the kernel    *)
(* answers (an event is not postponed for ever) and a new controller is    *)
(* started when there is none.  Requests and faults are never guaranteed.  *)
(***************************************************************************)
Answered == Event /\ (state[child] \in ActiveStates => pc' # "watch" \/ state' # state)

Fairness ==
  /\ WF_vars(Worker)
  /\ SF_vars(Answered)
  /\ WF_vars(Submit \/ CancelParent \/ CancelMember \/ ForceRow \/ ForceRaises
             \/ ForceDone \/ CloseCoordinator \/ Exit \/ Boot)

FairSpec == Spec /\ Fairness

-----------------------------------------------------------------------------
(***************************************************************************)
(* What a batch promises.                                                  *)
(***************************************************************************)

(***************************************************************************)
(* The worker may turn away from a child that is not settled: when it is   *)
(* told to stop, when an interrupt of a dispatch that was not confirmed    *)
(* fails, and when the child's output cannot be finalized.  left names     *)
(* these children, one by one; everything else the batch has passed is     *)
(* settled.                                                                *)
(***************************************************************************)
Passed(e) == state[e] \in TerminalStates \/ e \in left

\* Members run one at a time and in order, across restarts, cancels, forced
\* stops and broken spools: a member is dispatched only after every earlier
\* one was passed, and unless the batch continues on error or is being
\* cancelled, after every earlier one that the worker did not leave finished.
ChildOrder ==
  [][\A b \in Batches : \A j \in DOMAIN Members[b] :
       state[Members[b][j]] = "queued" /\ state'[Members[b][j]] = "dispatching"
       => \A i \in 1..(j - 1) :
            /\ Passed(Members[b][i])
            /\ \/ b \in cont \cup requested
               \/ state[Members[b][i]] = "finished" \/ Members[b][i] \in left]_vars

\* A settled parent tells the truth about its members, up to the first that
\* the worker left: all of them are settled, and finished if it did; one of
\* them failed, or was left, if it is in error; it is interrupted only if its
\* cancel was requested.
BatchVerdict ==
  \A b \in Batches :
    /\ bstate[b] \in BatchTerminal => \A j \in DOMAIN Members[b] :
         state[Members[b][j]] \in TerminalStates \/ \E i \in 1..j : Members[b][i] \in left
    /\ bstate[b] = "finished" => \A e \in MembersOf(b) : state[e] = "finished" \/ e \in left
    /\ bstate[b] = "error" =>
         \E e \in MembersOf(b) : state[e] \in Failures \/ e \in left
    /\ bstate[b] = "interrupted" => b \in requested

\* The batch scheduler keeps its state well formed and its verdicts truthful.
BatchInv == TypeOK /\ BatchVerdict

\* No member is sent twice, and one that was stopped or cancelled in the
\* queue was never sent, whatever stops, crashes and restarts come between.
MemberSentOnce ==
  \A e \in Executions :
    /\ sent[e] <= 1
    /\ state[e] \in {"absent", "queued"} => sent[e] = 0
    /\ state[e] = "interrupted" /\ e \notin intent => sent[e] = 0

\* Every batch that was started settles, as long as its worker lives, a lease
\* did not keep it out of the queue of a process that goes on serving, and no
\* spool stays broken.
BatchSettles ==
  \A b \in Batches :
    \/ <>[](torn # {}) \/ <>[](b \in refused)
    \/ bstate[b] = "queued" ~> bstate[b] \in BatchTerminal \/ pc = "dead"
=============================================================================
