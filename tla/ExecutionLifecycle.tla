------------------------- MODULE ExecutionLifecycle -------------------------
(***************************************************************************)
(* The controller process around one session worker: the start and cancel  *)
(* requests its event loop serves, forced and orderly stops, crashes at    *)
(* any step, and the reconciliation a new process runs before it serves.   *)
(* It composes ExecutionStore, KernelLink and ExecutionWorker.             *)
(*                                                                         *)
(* The event loop runs a request to completion before it takes another, so *)
(* it is one process (lpc); the worker thread runs beside it and both      *)
(* commit their own transactions.  todo, work, step and goal belong to the *)
(* two store routines the loop runs over several rows:                     *)
(* reconcile_after_restart and force_uncertain_active.                     *)
(***************************************************************************)
EXTENDS ExecutionWorker

VARIABLES
  lpc,       \* "down", "reconcile", "ready", "submit", "force" or "joining"
  stopping,  \* the server's _stop_event is set
  todo,      \* rows a store routine still has to visit
  work,      \* the row it is visiting, or the id being submitted
  step,      \* "pick", "mark", "read", "disconnect", "finalize", "commit"
  goal,      \* the terminal it will commit
  refusal    \* history: whether this process's queue refused a queued row

loopVars == <<lpc, stopping, todo, work, step, goal, refusal>>
allVars == <<vars, loopVars>>

LoopTypeOK ==
  /\ lpc \in {"down", "reconcile", "ready", "submit", "force", "joining"}
  /\ stopping \in BOOLEAN
  /\ todo \subseteq Executions
  /\ work \in Executions \cup {None}
  /\ step \in {"pick", "mark", "read", "disconnect", "finalize", "commit"}
  /\ goal \in {"none"} \cup TerminalStates
  /\ refusal \in [Executions -> {"none", "standing", "past"}]
  /\ step # "pick" => lpc \in {"reconcile", "force"} /\ work \in Executions
  /\ lpc = "submit" => work \in Executions

TypeOK == StoreTypeOK /\ LinkTypeOK /\ WorkerTypeOK /\ LoopTypeOK

LoopIdle(place) ==
  /\ lpc' = place /\ todo' = {} /\ work' = None /\ step' = "pick"
  /\ goal' = "none"

Init ==
  /\ StoreInit /\ LinkInit /\ WorkerInit
  /\ lpc = "down" /\ stopping = FALSE
  /\ todo = {} /\ work = None /\ step = "pick" /\ goal = "none"
  /\ refusal = [e \in Executions |-> "none"]

-----------------------------------------------------------------------------
(***************************************************************************)
(* execution.start.  The row is committed first and handed to the worker   *)
(* second; a crash between the two leaves a queued row for the next        *)
(* process.  A repeated key finds its row and submits it again.            *)
(***************************************************************************)
StartNew(e, k) ==
  /\ lpc = "ready"
  /\ CreateExecution(e, k, session)
  /\ lpc' = "submit" /\ work' = e
  /\ UNCHANGED <<linkVars, workerVars, boundary, fifo, stop, sent,
                 stopping, todo, step, goal, refusal>>

StartAgain(k) ==
  /\ lpc = "ready"
  /\ \E e \in ExistingFor(k) : work' = e
  /\ lpc' = "submit"
  /\ UNCHANGED <<storeVars, linkVars, workerVars, boundary, fifo, stop, sent,
                 stopping, todo, step, goal, refusal>>

\* Mutant: the _scheduled set is not consulted.
SubmitAgain ==
  /\ lpc = "submit"
  /\ fifo' = IF state[work] = "queued"
             THEN Append(fifo, [kind |-> "execute", exec |-> work]) ELSE fifo
  /\ LoopIdle("ready")
  /\ UNCHANGED <<storeVars, linkVars, workerVars, boundary, stop, sent, stopping,
                 refusal>>

(***************************************************************************)
(* ExecutionCoordinator.submit: queued rows that are not scheduled already *)
(* are.  It asks for a lease again: one that was granted since the start   *)
(* request asked refuses the row, which stays queued with nobody to run it *)
(* until its start is repeated or a new process finds it.                  *)
(***************************************************************************)
Accepted ==
  /\ fifo' = IF state[work] = "queued" /\ work \notin Scheduled
             THEN Append(fifo, [kind |-> "execute", exec |-> work]) ELSE fifo
  /\ refusal' = [refusal EXCEPT ![work] = IF @ = "standing" THEN "past" ELSE @]
  /\ faults' = faults

SessionLeased ==
  /\ state[work] = "queued" /\ Fault("lease")
  /\ refusal' = [refusal EXCEPT ![work] = IF work \in Scheduled THEN @ ELSE "standing"]
  /\ fifo' = fifo

Submit ==
  /\ lpc = "submit"
  /\ Accepted \/ SessionLeased
  /\ LoopIdle("ready")
  /\ UNCHANGED <<storeVars, kernelVars, wireVars, workerVars, boundary, stop, sent,
                 stopping>>

Cancel(e) ==
  /\ lpc = "ready"
  /\ RequestCancel(e)
  /\ UNCHANGED <<linkVars, workerVars, boundary, fifo, stop, sent, loopVars>>

-----------------------------------------------------------------------------
\* A row at a time: reconcile_after_restart and force_uncertain_active.
Routine(next) ==
  /\ step' = next
  /\ UNCHANGED <<lpc, stopping, todo, work, goal, refusal>>

RowDone ==
  /\ step' = "pick" /\ todo' = todo \ {work} /\ work' = None /\ goal' = "none"
  /\ UNCHANGED <<lpc, stopping, refusal>>

\* An exception ends a forced stop; another one may be asked for.
StopRaises == LoopIdle("ready") /\ UNCHANGED <<stopping, refusal>>

\* The loop's part of a step that leaves worker, wire and queue alone.
LoopOnly == UNCHANGED <<linkVars, workerVars, boundary, fifo, stop, sent>>

\* Mutants: an interrupted dispatch is queued again; evidence is not used.
ReconcileByReplay(e) ==
  /\ lpc = "reconcile" /\ step = "pick" /\ e \in todo
  /\ state' = [state EXCEPT ![e] = "queued"]
  /\ todo' = todo \ {e}
  /\ LoopOnly
  /\ UNCHANGED <<ev, src, torn, key, qat, clock, lpc, stopping, work, step, goal,
                 refusal>>

ReconcileBlindly(e) ==
  /\ lpc = "reconcile" /\ step = "pick" /\ e \in todo
  /\ work' = e /\ step' = "mark" /\ goal' = "unknown"
  /\ LoopOnly /\ UNCHANGED <<storeVars, lpc, stopping, todo, refusal>>

(***************************************************************************)
(* reconcile: settle a row whose proof is already durable, without marking *)
(* its output; everything else is marked incomplete first.                 *)
(***************************************************************************)
ReconcileRow(e) ==
  /\ lpc = "reconcile" /\ step = "pick" /\ e \in todo
  /\ LET proven == TerminalFromEvidence(e)
         durable == state[e] # "dispatching" /\ proven # "none"
     IN /\ step' = IF durable THEN "finalize" ELSE "mark"
        /\ goal' = IF durable THEN proven ELSE "unknown"
  /\ work' = e
  /\ LoopOnly /\ UNCHANGED <<storeVars, lpc, stopping, todo, refusal>>

\* force: the list was read once; rows are visited whatever became of them.
ForceRow(e) ==
  /\ lpc = "force" /\ step = "pick" /\ e \in todo
  /\ work' = e /\ step' = "mark" /\ goal' = "unknown"
  /\ LoopOnly /\ UNCHANGED <<storeVars, lpc, stopping, todo, refusal>>

RoutineMark ==
  /\ step = "mark"
  /\ MarkOutputIncomplete(work)
  /\ Routine("read")
  /\ LoopOnly

RoutineRead ==
  /\ step = "read"
  /\ CASE state[work] = "running"     -> Routine("disconnect")
       [] state[work] = "dispatching" -> Routine("finalize")
       [] state[work] = "disconnected" ->
            (IF lpc = "force" THEN Routine("finalize") ELSE RowDone)
       [] OTHER -> RowDone
  /\ LoopOnly /\ UNCHANGED storeVars

\* A lost race raises INVALID_EXECUTION_TRANSITION and ends a forced stop.
RoutineDisconnect ==
  /\ step = "disconnect"
  /\ IF CanTransition(work, "disconnected")
     THEN TransitionExecution(work, "disconnected") /\ Routine("read")
     ELSE UNCHANGED storeVars /\ StopRaises
  /\ LoopOnly

RoutineFinalize ==
  /\ step = "finalize" /\ CanFinalizeOutput(work)
  /\ FinalizeOutput(work)
  /\ Routine("commit")
  /\ LoopOnly

RoutineCommit ==
  /\ step = "commit"
  /\ IF CanTransition(work, goal)
     THEN TransitionExecution(work, goal) /\ RowDone
     ELSE UNCHANGED storeVars /\ StopRaises
  /\ LoopOnly

-----------------------------------------------------------------------------
\* A new process: the lifetime lock is free, memory is empty.
Boot ==
  /\ lpc = "down"
  /\ lpc' = "reconcile" /\ todo' = Active
  /\ LoopOnly /\ UNCHANGED <<storeVars, stopping, work, step, goal, refusal>>

\* Mutant: rows in any order.
Unordered(S) ==
  {q \in [1..Cardinality(S) -> S] : \A x \in S : \E i \in DOMAIN q : q[i] = x}

\* The sequences that list S in the order of queued_at.
Ordered(S) ==
  {q \in [1..Cardinality(S) -> S] :
     \A i, j \in 1..Cardinality(S) : i < j => qat[q[i]] < qat[q[j]]}

ItemsOf(kind, q) == [i \in DOMAIN q |-> [kind |-> kind, exec |-> q[i]]]

\* Mutants: only queued rows are resumed; only recoveries are.
ResumeQueuedOnly ==
  /\ lpc = "reconcile" /\ step = "pick" /\ todo = {}
  /\ \E q \in Ordered(Queued) : fifo' = ItemsOf("execute", q)
  /\ LoopIdle("ready")
  /\ UNCHANGED <<storeVars, linkVars, workerVars, boundary, stop, sent, stopping,
                 refusal>>

ResumeRecoveriesOnly ==
  /\ lpc = "reconcile" /\ step = "pick" /\ todo = {}
  /\ \E r \in Ordered(Active) : fifo' = ItemsOf("recover", r)
  /\ LoopIdle("ready")
  /\ UNCHANGED <<storeVars, linkVars, workerVars, boundary, stop, sent, stopping,
                 refusal>>

\* _reconcile_and_resume: recoveries first, then the queued rows.
Resume ==
  /\ lpc = "reconcile" /\ step = "pick" /\ todo = {}
  /\ \E r \in Ordered(Active), q \in Ordered(Queued) :
       fifo' = ItemsOf("recover", r) \o ItemsOf("execute", q)
  /\ LoopIdle("ready")
  /\ UNCHANGED <<storeVars, linkVars, workerVars, boundary, stop, sent, stopping,
                 refusal>>

\* controller.stop with force, or SIGTERM/SIGINT.
ForceStop ==
  /\ lpc = "ready" /\ Fault("force")
  /\ lpc' = "force" /\ todo' = Active
  /\ UNCHANGED <<storeVars, kernelVars, wireVars, workerVars, boundary, fifo,
                 stop, sent, stopping, work, step, goal, refusal>>

ForceDone ==
  /\ lpc = "force" /\ step = "pick" /\ todo = {}
  /\ LoopIdle("ready") /\ stopping' = TRUE
  /\ LoopOnly /\ UNCHANGED <<storeVars, refusal>>

\* controller.stop without force: refused while any row is unsettled.
StopWhenIdle ==
  /\ lpc = "ready" /\ ~stopping /\ Fault("stop")
  /\ Active \cup Queued = {}
  /\ stopping' = TRUE
  /\ UNCHANGED <<storeVars, kernelVars, wireVars, workerVars, boundary, fifo,
                 stop, sent, lpc, todo, work, step, goal, refusal>>

(***************************************************************************)
(* close: connections still open are served until the coordinator closes,  *)
(* which sets the worker's stop event and queues its end marker.           *)
(***************************************************************************)
CloseCoordinator ==
  /\ lpc = "ready" /\ stopping
  /\ stop' = TRUE
  /\ fifo' = Append(fifo, [kind |-> "stop", exec |-> None])
  /\ LoopIdle("joining")
  /\ UNCHANGED <<storeVars, linkVars, workerVars, boundary, sent, stopping, refusal>>

\* The process ends: memory and the connection are gone.
ProcessEnds ==
  /\ Released("idle") /\ fifo' = <<>> /\ stop' = FALSE /\ stopping' = FALSE
  /\ LoopIdle("down") /\ refusal' = [e \in Executions |-> "none"]
  /\ CloseTransport
  /\ UNCHANGED <<kernelVars, boundary, sent>>

\* The join waits two seconds at most, whatever the worker is doing.
Exit ==
  /\ lpc = "joining"
  /\ ProcessEnds
  /\ UNCHANGED <<storeVars, faults>>

Crash ==
  /\ lpc # "down" /\ Fault("crash")
  /\ ProcessEnds
  /\ UNCHANGED storeVars

(***************************************************************************)
(* Files are not part of the transaction: a crash before the commit leaves *)
(* a spool that create_execution wrote without its row, a row whose source *)
(* a cancel, a confirmation or a terminal transition removed, or an output *)
(* spool with more than its index.                                         *)
(***************************************************************************)
CrashInTransaction ==
  /\ lpc # "down" /\ Fault("crash")
  /\ \/ \E e \in Executions :
          /\ lpc = "ready" /\ state[e] = "absent"
          /\ src' = src \cup {e} /\ torn' = torn
     \/ \E e \in Queued : lpc = "ready" /\ src' = src \ {e} /\ torn' = torn
     \/ /\ pc = "confirm" /\ CanConfirmDispatch(cur)
        /\ src' = src \ {cur} /\ torn' = torn
     \/ /\ pc = "append" /\ CanAppendOutput(cur)
        /\ src' = src /\ torn' = torn \cup {cur}
     \/ /\ pc = "commit" /\ CanTransition(cur, target)
        /\ src' = src \ {cur} /\ torn' = torn
     \/ /\ step = "commit" /\ CanTransition(work, goal)
        /\ src' = src \ {work} /\ torn' = torn
  /\ ProcessEnds
  /\ UNCHANGED <<state, ev, key, qat, clock>>

(***************************************************************************)
(* finalize_output raises on such a spool.  That ends a forced stop, and a *)
(* new process in the middle of its reconciliation.                        *)
(***************************************************************************)
RoutineRaises ==
  /\ step = "finalize" /\ ~CanFinalizeOutput(work)
  /\ IF lpc = "force" THEN StopRaises /\ LoopOnly
                      ELSE ProcessEnds /\ faults' = faults
  /\ UNCHANGED storeVars

-----------------------------------------------------------------------------
WorkerStep == Worker /\ UNCHANGED loopVars

KernelStep ==
  Kernel /\ UNCHANGED <<storeVars, workerVars, boundary, fifo, stop, sent, loopVars>>

LinkStep ==
  LinkFault /\ UNCHANGED <<storeVars, workerVars, boundary, fifo, stop, sent, loopVars>>

RoutineStep ==
  \/ \E e \in Executions : ReconcileRow(e) \/ ForceRow(e)
  \/ RoutineMark \/ RoutineRead \/ RoutineDisconnect
  \/ RoutineFinalize \/ RoutineCommit \/ RoutineRaises

LoopStep ==
  \/ \E k \in Keys \cup {None} : \E e \in Executions : StartNew(e, k)
  \/ \E k \in Keys : StartAgain(k)
  \/ Submit
  \/ \E e \in Executions : Cancel(e)
  \/ RoutineStep \/ Boot \/ Resume
  \/ ForceStop \/ ForceDone \/ StopWhenIdle \/ CloseCoordinator \/ Exit
  \/ Crash \/ CrashInTransaction

Next == WorkerStep \/ KernelStep \/ LinkStep \/ LoopStep

Spec == Init /\ [][Next]_allVars

(***************************************************************************)
(* The worker thread and the event loop run whatever they can run, the     *)
(* kernel answers what it was sent, and some client starts a controller    *)
(* when there is none.  Requests and faults are never guaranteed.          *)
(***************************************************************************)
LoopProgress ==
  Submit \/ RoutineStep \/ Boot \/ Resume \/ ForceDone \/ CloseCoordinator \/ Exit

Fairness ==
  /\ WF_allVars(WorkerStep)
  /\ WF_allVars(KernelStep)
  /\ WF_allVars(LoopProgress)

FairSpec == Spec /\ Fairness

-----------------------------------------------------------------------------
(***************************************************************************)
(* What the controller promises about executions.                          *)
(***************************************************************************)

\* An execute request is handed to the transport at most once, and never
\* while its row could still be dispatched: no restart, retry, reconnection
\* or repeated start request replays user code.
AtMostOnce ==
  \A e \in Executions :
    /\ sent[e] <= 1
    /\ state[e] \in {"absent", "queued"} => sent[e] = 0

\* A terminal state other than unknown tells what the kernel did: finished
\* and error rest on its reply, timed_out on an aborted reply of a timed
\* execution, and interrupted on an aborted reply or on never being sent.
TerminalTruth ==
  \A e \in Executions :
    /\ state[e] = "finished"    => "ok" \in answers[e]
    /\ state[e] = "error"       => answers[e] \cap {"error", "abort"} # {}
    /\ state[e] = "timed_out"   => "abort" \in answers[e] /\ e \in Timed
    /\ state[e] = "interrupted" => sent[e] = 0 \/ "abort" \in answers[e]

\* When a proven row claims complete output, every output the kernel
\* published is indexed, whatever was lost, reordered or retried on the way.
CompleteMeansAll ==
  \A e \in Executions :
    state[e] \in TerminalStates \ {"unknown"} /\ ev[e].complete
      => ev[e].out = kout[e]

\* Source text does not outlive the dispatch: once a row is confirmed or
\* settled its spool file is gone, also when a crash separated the two.
SourceDiscarded ==
  \A e \in src : state[e] \in {"absent", "queued", "dispatching"}

\* However often a start request is repeated, and whatever a new process
\* resumes, an execution is in the worker's queue or hands at most once.
ScheduledOnce ==
  \A i, j \in DOMAIN fifo :
    fifo[i].exec # None =>
      /\ fifo[i].exec # cur
      /\ fifo[i].exec = fifo[j].exec => i = j

\* While the controller serves and its worker lives, every unsettled row is
\* in the worker's hands or queue.  The exceptions are the row that
\* _ambiguous_interrupt leaves behind (cancelled, sent, not yet confirmed) and
\* the row that a lease kept out of the queue, until its start is repeated.
NoOrphan ==
  lpc = "ready" /\ ~stop /\ pc # "dead" =>
    \A e \in Active \cup Queued :
      \/ e \in Scheduled
      \/ state[e] = "dispatching" /\ ev[e].intent = "interrupted"
      \/ state[e] = "queued" /\ refusal[e] = "standing"

\* The abstract promise: every step of the controller, the worker and the
\* kernel is a step the execution's client was told about, or none at all.
Promise == INSTANCE DurableExecution
PromiseKept == Promise!Spec

(***************************************************************************)
(* The inductive invariant behind the promise.  What each actor is about   *)
(* to do rests on what another actor did before it: a hand-over on a row   *)
(* that was never sent, an answer on a request that was, a verdict on an   *)
(* answer that travelled over the wire, through the worker's memory and,   *)
(* after a crash, through the row.                                         *)
(***************************************************************************)
Handed ==
  \A e \in Executions :
    /\ sent[e] \in {0, 1}
    /\ state[e] \in {"absent", "queued"} => sent[e] = 0

AboutToSend ==
  pc = "send" => sent[cur] = 0 /\ state[cur] \in {"dispatching", "unknown"}

Watching ==
  /\ pc \in {"loop", "event", "expire", "confirm", "append", "evidence"}
       /\ mode = "run" => sent[cur] = 1
  /\ pc = "confirm" => mode = "run"
  /\ pc = "info" => mode = "recover"

KernelTold ==
  \A i \in DOMAIN kq : kq[i].exec # None => sent[kq[i].exec] = 1

Reported(q) ==
  \A i \in DOMAIN q :
    q[i].kind \in ValidReplies /\ q[i].parent.exec # None
      => q[i].kind \in answers[q[i].parent.exec]

WireTruth == Reported(shell) /\ Reported(iopub)

MemoryTruth ==
  /\ pc = "idle" => cur = None
  /\ proof.reply # "none" => cur # None /\ proof.reply \in answers[cur]
  /\ proof.want = "timed_out" => cur \in Timed
  /\ pc = "expire" => cur \in Timed

RowTruth ==
  \A e \in Executions :
    /\ ev[e].reply # "none" => ev[e].reply \in answers[e]
    /\ ev[e].intent = "timed_out" => e \in Timed

TargetTruth ==
  pc \in {"finalize", "commit"} =>
    \/ target = "unknown"
    \/ Promise!Justified(cur, target)
    \/ target = "interrupted" /\ state[cur] \in {"queued", "interrupted"}

GoalTruth ==
  /\ step = "pick" => goal = "none"
  /\ goal \notin {"none", "unknown"} =>
       work # None /\ Promise!Justified(work, goal)

PromiseInv ==
  /\ Handed /\ AboutToSend /\ Watching /\ KernelTold /\ WireTruth
  /\ MemoryTruth /\ RowTruth /\ TargetTruth /\ GoalTruth

\* Rows are dispatched in the order they were queued, across restarts: only a
\* row that a lease kept out of this process's queue is overtaken.
FifoDispatch ==
  [][\A e, f \in Executions :
       /\ state[f] = "queued" /\ state'[f] = "dispatching"
       /\ state[e] = "queued" /\ refusal[e] = "none"
       => qat[f] <= qat[e]]_state

\* Once reply and idle are committed, the row settles on what they prove: it
\* is never demoted to unknown, but by a forced stop that is visiting it.
ProofNotLost ==
  [][\A e \in Executions :
       /\ state[e] \in ActiveStates
       /\ ev[e].reply # "none" /\ ev[e].idle
       /\ state'[e] = "unknown"
       => lpc = "force" /\ work = e]_state

\* Every accepted execution settles: it is dispatched, interrupted, proved
\* or given up as unknown, however often the controller, the wire or the
\* kernel fails in between; unless a lease kept it out of the queue of a
\* process that goes on serving, or the spool of a row stays torn for good.
Settles ==
  \A e \in Executions :
    \/ <>[](refusal[e] = "standing") \/ <>[](torn # {})
    \/ state[e] = "queued" ~> state[e] \in TerminalStates
=============================================================================
