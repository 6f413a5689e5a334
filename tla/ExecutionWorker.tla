--------------------------- MODULE ExecutionWorker ---------------------------
(***************************************************************************)
(* The kernel worker thread of one session (execution.py, _KernelWorker):  *)
(* it takes work items from its FIFO and runs or recovers one execution at *)
(* a time.  Every step below is one store transaction or one transport     *)
(* call; the controller, the kernel and the faults interleave between them.*)
(*                                                                         *)
(* The error paths share their shape (read the row, mark the output        *)
(* incomplete, move to disconnected, finalize, commit a terminal, drop the *)
(* transport), so they share steps; handler says which one is running:     *)
(*   "dispatch"  _dispatch_failed         "lost"   _connection_lost        *)
(*   "interrupt" _ambiguous_interrupt     "worker" _internal_failure       *)
(*   "recovery"  _recovery_unknown        "swap"   the same, then a drop   *)
(*   "retry"     a reconnect attempt that failed: only a drop              *)
(***************************************************************************)
EXTENDS ExecutionStore, KernelLink

VARIABLES
  fifo,      \* items: the worker's queue
  pc,        \* where the worker is
  mode,      \* "run" (_run_one) or "recover" (_recover_one)
  cur,       \* the execution of the item in hand
  seen,      \* the session endpoint read for it
  handler,   \* the error path in progress, or "none"
  target,    \* the state the error path or the proof is heading for
  proof,     \* the ExecutionProof of cur
  probe,     \* the KernelIdleProof of a recovery
  boundary,  \* the id of the last kernel_info request
  msg,       \* the matched message being applied
  asked,     \* interrupt_sent
  stop,      \* stop_event
  sent       \* history: how often each execute_request was handed to send

workerVars == <<pc, mode, cur, seen, handler, target, proof, probe, msg, asked>>
vars == <<storeVars, linkVars, workerVars, boundary, fifo, stop, sent>>

Items == [kind : {"execute", "recover"}, exec : Executions]
           \cup {[kind |-> "stop", exec |-> None]}
Handlers == {"none", "dispatch", "lost", "interrupt", "worker",
             "recovery", "swap", "retry"}
Places == {"idle", "read", "source", "connect", "register", "begin",
           "send", "loop", "expire", "event", "confirm", "append",
           "evidence", "recover", "info", "handle", "mark", "disconnect", "reread", "finalize", "commit",
           "drop", "recheck", "exited", "dead"}

Proofs == [confirmed : BOOLEAN, reply : ValidReplies \cup {"none"},
           idle : BOOLEAN, want : Intents]
Probes == [info : Nat, reply : BOOLEAN, idle : BOOLEAN]

NewProof == [confirmed |-> FALSE, reply |-> "none", idle |-> FALSE,
             want |-> "none"]
NoProbe == [info |-> 0, reply |-> FALSE, idle |-> FALSE]
NoMsg == [parent |-> [exec |-> None, info |-> 0], kind |-> "idle"]

MemoryTypeOK ==
  /\ pc \in Places
  /\ mode \in {"run", "recover"}
  /\ cur \in Executions \cup {None}
  /\ seen \in Nat
  /\ handler \in Handlers
  /\ target \in {"none", "disconnected"} \cup TerminalStates
  /\ proof \in Proofs
  /\ probe \in Probes
  /\ msg \in Messages
  /\ asked \in BOOLEAN
  /\ pc \notin {"idle", "exited", "dead"} => cur \in Executions

WorkerTypeOK ==
  /\ MemoryTypeOK
  /\ fifo \in Seq(Items)
  /\ boundary \in Nat
  /\ stop \in BOOLEAN
  /\ sent \in [Executions -> Nat]

\* The worker's memory when no item is in hand.
Released(place) ==
  /\ pc' = place
  /\ cur' = None /\ seen' = 0
  /\ mode' = "run" /\ handler' = "none" /\ target' = "none"
  /\ proof' = NewProof /\ probe' = NoProbe /\ msg' = NoMsg /\ asked' = FALSE

WorkerInit ==
  /\ fifo = <<>> /\ pc = "idle" /\ cur = None /\ seen = 0
  /\ mode = "run" /\ handler = "none" /\ target = "none"
  /\ proof = NewProof /\ probe = NoProbe /\ msg = NoMsg /\ asked = FALSE
  /\ boundary = 0 /\ stop = FALSE
  /\ sent = [e \in Executions |-> 0]

Go(place) ==
  /\ pc' = place
  /\ UNCHANGED <<mode, cur, seen, handler, target, proof, probe, msg, asked>>

Finalizing(s) ==
  /\ pc' = "finalize" /\ target' = s
  /\ UNCHANGED <<mode, cur, seen, handler, proof, probe, msg, asked>>

Handle(h) ==
  /\ pc' = "handle" /\ handler' = h
  /\ UNCHANGED <<mode, cur, seen, target, proof, probe, msg, asked>>

(***************************************************************************)
(* An exception that leaves _run_one or _recover_one reaches               *)
(* _internal_failure; one that leaves _internal_failure ends the thread,   *)
(* after the finally clause has released the item.                         *)
(***************************************************************************)
Raise == IF handler = "worker" THEN Released("dead") ELSE Handle("worker")

\* The coordinator's _scheduled set: queued items and the one in hand.
Scheduled ==
  {fifo[i].exec : i \in DOMAIN fifo} \cup {cur}

-----------------------------------------------------------------------------
\* _run: block on the queue; None ends the thread.
TakeItem ==
  /\ pc = "idle" /\ fifo # <<>>
  /\ LET item == Head(fifo) IN
       IF item.kind = "stop"
       THEN Released("exited")
       ELSE /\ pc' = IF item.kind = "execute" THEN "read" ELSE "recover"
            /\ mode' = IF item.kind = "execute" THEN "run" ELSE "recover"
            /\ cur' = item.exec
            /\ UNCHANGED <<seen, handler, target, proof, probe, msg, asked>>
  /\ fifo' = Tail(fifo)
  /\ UNCHANGED <<storeVars, linkVars, boundary, stop, sent>>

\* _run_one: only a queued row is run; a vanished session interrupts it.
ReadRow ==
  /\ pc = "read"
  /\ \/ state[cur] # "queued" /\ Released("idle")
     \/ state[cur] = "queued" /\ session = 0 /\ Finalizing("interrupted")
     \/ /\ state[cur] = "queued" /\ session # 0
        /\ pc' = "source" /\ seen' = session
        /\ UNCHANGED <<mode, cur, handler, target, proof, probe, msg, asked>>
  /\ UNCHANGED <<storeVars, linkVars, boundary, fifo, stop, sent>>

ReadSource ==
  /\ pc = "source"
  /\ IF CanReadSource(cur) THEN Go("connect") ELSE Raise
  /\ UNCHANGED <<storeVars, linkVars, boundary, fifo, stop, sent>>

(***************************************************************************)
(* _ensure_transport reuses an open transport, broken or not.  A new one   *)
(* is kept even if the session row vanished before the connection could be *)
(* recorded in it and update_session_connection raises.                    *)
(***************************************************************************)
ConnectForRun ==
  /\ pc = "connect" /\ mode = "run"
  /\ \/ tr # "none" /\ UNCHANGED linkVars /\ Go("begin")
     \/ Connect(seen) /\ Go("register")
     \/ ConnectFails(seen) /\ Handle("dispatch")
  /\ UNCHANGED <<storeVars, boundary, fifo, stop, sent>>

\* A recovery only trusts the kernel that the row was dispatched to.
SameKernel == IF peer = ev[cur].kernel THEN Go("info") ELSE Handle("swap")

RegisterConnection ==
  /\ pc = "register"
  /\ IF session # 0
     THEN IF mode = "run" THEN Go("begin") ELSE SameKernel
     ELSE IF mode = "run" THEN Handle("dispatch") ELSE Go("recover")
  /\ UNCHANGED <<storeVars, linkVars, boundary, fifo, stop, sent>>

\* begin_dispatch commits the message id and identities before the send.
BeginDispatchStep ==
  /\ pc = "begin"
  /\ IF CanBeginDispatch(cur)
     THEN BeginDispatch(cur, seen, peer) /\ Go("send")
     ELSE UNCHANGED storeVars /\ Handle("dispatch")
  /\ UNCHANGED <<linkVars, boundary, fifo, stop, sent>>

Send ==
  /\ pc = "send"
  /\ \/ SendReturns(ExecRequest(cur)) /\ Go("loop")
     \/ SendRaises(ExecRequest(cur)) /\ Handle("dispatch")
  /\ sent' = [sent EXCEPT ![cur] = @ + 1]
  /\ UNCHANGED <<storeVars, boundary, fifo, stop>>

-----------------------------------------------------------------------------
(***************************************************************************)
(* The observation loop.  Both loops re-read the row first: they stop when *)
(* the controller is closing or the row is no longer theirs, and forward   *)
(* an interrupt intent to the kernel once.                                 *)
(***************************************************************************)
StillMine ==
  IF mode = "run" THEN state[cur] \notin {"absent"} \cup TerminalStates
                  ELSE state[cur] = "disconnected"

Interrupting(intent) ==
  \/ /\ InterruptReturns
     /\ pc' = "event" /\ asked' = TRUE
     /\ proof' = [proof EXCEPT !.want = RequestInterrupt(@, intent)]
     /\ UNCHANGED <<mode, cur, seen, handler, target, probe, msg>>
  \/ /\ InterruptRaises
     /\ Handle("interrupt")

Loop ==
  /\ pc = "loop"
  /\ IF stop \/ ~StillMine
     THEN Released("idle") /\ UNCHANGED linkVars
     ELSE \/ /\ ev[cur].intent # "none" /\ ~asked
             /\ Interrupting(ev[cur].intent)
          \/ /\ ev[cur].intent = "none" \/ asked
             /\ Go("event") /\ UNCHANGED linkVars
          \/ /\ ev[cur].intent = "none" /\ ~asked
             /\ cur \in Timed /\ proof.confirmed
             /\ Go("expire") /\ UNCHANGED linkVars
  /\ UNCHANGED <<storeVars, boundary, fifo, stop, sent>>

(***************************************************************************)
(* The deadline passed: request_execution_timeout, then interrupt.  The    *)
(* live loop asks for timed_out; a recovery asks for whatever intent the   *)
(* row then holds, which is none if the row was settled meanwhile.         *)
(***************************************************************************)
Expire ==
  /\ pc = "expire"
  /\ RequestTimeout(cur)
  /\ LET intent == IF mode = "run" THEN "timed_out" ELSE ev'[cur].intent IN
       IF intent = "none" THEN Go("event") /\ UNCHANGED linkVars
                          ELSE Interrupting(intent)
  /\ UNCHANGED <<boundary, fifo, stop, sent>>

\* What a matched message is good for once the dispatch is confirmed.
AfterConfirm(kind) ==
  CASE kind = "output"                       -> "append"
    [] kind \in ValidReplies \cup {"idle"}   -> "evidence"
    [] OTHER                                 -> "loop"

\* Mutants: a reply of unknown status is kept; any parent is accepted.
ObserveAnyStatus(m) ==
  /\ m.parent = ExecRequest(cur)
  /\ proof' = [proof EXCEPT
       !.confirmed = TRUE,
       !.reply = IF m.kind \in ReplyKinds /\ @ = "none" THEN m.kind ELSE @,
       !.idle = IF m.kind = "idle" THEN TRUE ELSE @]
  /\ pc' = IF mode = "run" /\ ~proof.confirmed THEN "confirm"
                                               ELSE AfterConfirm(m.kind)
  /\ msg' = IF pc' = "loop" THEN NoMsg ELSE m
  /\ UNCHANGED <<mode, cur, seen, handler, target, probe, asked>>

ObserveAnyParent(m) ==
  /\ proof' = [proof EXCEPT
       !.confirmed = TRUE,
       !.reply = IF m.kind \in ValidReplies /\ @ = "none" THEN m.kind ELSE @,
       !.idle = IF m.kind = "idle" THEN TRUE ELSE @]
  /\ pc' = IF mode = "run" /\ ~proof.confirmed THEN "confirm"
                                               ELSE AfterConfirm(m.kind)
  /\ msg' = IF pc' = "loop" THEN NoMsg ELSE m
  /\ UNCHANGED <<mode, cur, seen, handler, target, probe, asked>>

\* ExecutionProof.observe: only messages whose parent is this request count.
ObserveExecution(m) ==
  /\ m.parent = ExecRequest(cur)
  /\ proof' = [proof EXCEPT
       !.confirmed = TRUE,
       !.reply = IF m.kind \in ValidReplies /\ @ = "none" THEN m.kind ELSE @,
       !.idle = IF m.kind = "idle" THEN TRUE ELSE @]
  /\ pc' = IF mode = "run" /\ ~proof.confirmed THEN "confirm"
                                               ELSE AfterConfirm(m.kind)
  /\ msg' = IF pc' = "loop" THEN NoMsg ELSE m
  /\ UNCHANGED <<mode, cur, seen, handler, target, probe, asked>>

\* KernelIdleProof.observe: the boundary request was answered and went idle.
ObserveBoundary(m) ==
  /\ mode = "recover" /\ m.parent = InfoRequest(probe.info)
  /\ probe' = [probe EXCEPT
       !.reply = IF m.kind = "info" THEN TRUE ELSE @,
       !.idle = IF m.kind = "idle" THEN TRUE ELSE @]
  /\ IF probe'.reply /\ probe'.idle
     THEN pc' = "handle" /\ handler' = "recovery"
     ELSE pc' = "loop" /\ handler' = handler
  /\ UNCHANGED <<mode, cur, seen, target, proof, msg, asked>>

Unmatched(m) ==
  /\ m.parent # ExecRequest(cur)
  /\ mode = "recover" => m.parent # InfoRequest(probe.info)
  /\ Go("loop")

NextEvent ==
  /\ pc = "event"
  /\ \/ \E m \in {Head(q) : q \in {shell, iopub} \ {<<>>}} :
          /\ TakeMessage(m)
          /\ ObserveExecution(m) \/ ObserveBoundary(m) \/ Unmatched(m)
     \/ NextEventTimesOut /\ Go("loop") /\ UNCHANGED linkVars
     \/ /\ NextEventDisconnects /\ UNCHANGED linkVars
        /\ IF mode = "run"
           THEN Handle("lost")
           ELSE /\ pc' = "drop" /\ handler' = "retry"
                /\ UNCHANGED <<mode, cur, seen, target, proof, probe, msg, asked>>
  /\ UNCHANGED <<storeVars, boundary, fifo, stop, sent>>

ConfirmStep ==
  /\ pc = "confirm"
  /\ IF CanConfirmDispatch(cur)
     THEN ConfirmDispatch(cur) /\ Go(AfterConfirm(msg.kind))
     ELSE UNCHANGED storeVars /\ Raise
  /\ UNCHANGED <<linkVars, boundary, fifo, stop, sent>>

AppendStep ==
  /\ pc = "append"
  /\ IF CanAppendOutput(cur)
     THEN AppendOutput(cur) /\ Go("loop")
     ELSE UNCHANGED storeVars /\ Raise
  /\ UNCHANGED <<linkVars, boundary, fifo, stop, sent>>

\* record_execution_evidence, then the terminal the live proof allows.
EvidenceStep ==
  /\ pc = "evidence"
  /\ IF CanRecordEvidence(cur)
     THEN /\ RecordEvidence(cur,
               IF msg.kind \in ValidReplies THEN proof.reply ELSE "none",
               msg.kind = "idle")
          /\ LET t == TerminalState(proof.reply, proof.idle, proof.want) IN
               IF t = "none" THEN Go("loop") ELSE Finalizing(t)
     ELSE UNCHANGED storeVars /\ Raise
  /\ UNCHANGED <<linkVars, boundary, fifo, stop, sent>>

-----------------------------------------------------------------------------
(***************************************************************************)
(* _recover_one: reconnect to the same session and kernel, restore the     *)
(* committed evidence, put a kernel_info boundary behind the execution and *)
(* observe.  The execute request is never sent again.                      *)
(***************************************************************************)
Restored(r) ==
  [confirmed |-> r.confirmed, reply |-> r.reply, idle |-> r.idle,
   want |-> r.intent]

RecoverRead ==
  /\ pc = "recover"
  /\ \/ /\ stop \/ state[cur] # "disconnected"
        /\ Released("idle")
     \/ /\ ~stop /\ state[cur] = "disconnected"
        /\ mode' = "recover" /\ asked' = FALSE /\ probe' = NoProbe
        /\ proof' = Restored(ev[cur]) /\ msg' = NoMsg /\ seen' = session
        /\ IF session = 0 \/ session # ev[cur].endpoint
           THEN pc' = "handle" /\ handler' = "recovery"
           ELSE pc' = "connect" /\ handler' = "none"
        /\ UNCHANGED <<cur, target>>
  /\ UNCHANGED <<storeVars, linkVars, boundary, fifo, stop, sent>>

ConnectForRecovery ==
  /\ pc = "connect" /\ mode = "recover"
  /\ \/ tr # "none" /\ UNCHANGED linkVars /\ SameKernel
     \/ Connect(seen) /\ Go("register")
     \/ ConnectFails(seen) /\ Go("recover")
  /\ UNCHANGED <<storeVars, boundary, fifo, stop, sent>>

\* increment_reconnect_count, then the kernel_info request.
SendBoundary ==
  /\ pc = "info"
  /\ boundary' = boundary + 1
  /\ LET n == boundary + 1 IN
     \/ /\ CanCountReconnect(cur) /\ SendReturns(InfoRequest(n))
        /\ probe' = [NoProbe EXCEPT !.info = n]
        /\ pc' = "loop"
        /\ UNCHANGED <<mode, cur, seen, handler, target, proof, msg, asked>>
     \/ /\ \/ ~CanCountReconnect(cur) /\ UNCHANGED linkVars
           \/ CanCountReconnect(cur) /\ SendRaises(InfoRequest(n))
        /\ pc' = "drop" /\ handler' = "retry"
        /\ UNCHANGED <<mode, cur, seen, target, proof, probe, msg, asked>>
  /\ UNCHANGED <<storeVars, fifo, stop, sent>>

-----------------------------------------------------------------------------
\* The first step of an error path: read the row and choose what to do.
HandleStep ==
  /\ pc = "handle"
  /\ LET s == state[cur]
         Marking(t) == /\ pc' = "mark" /\ target' = t
                       /\ UNCHANGED <<mode, cur, seen, handler, proof, probe,
                                      msg, asked>>
     IN CASE handler = "dispatch" ->
               (CASE s = "queued"      -> Finalizing("interrupted")
                  [] s = "dispatching" -> Finalizing("unknown")
                  [] OTHER             -> Go("drop"))
          [] handler = "lost" ->
               (CASE proof.confirmed   -> Marking("disconnected")
                  [] ~proof.confirmed /\ s = "dispatching" -> Finalizing("unknown")
                  [] OTHER             -> Go("drop"))
          [] handler = "interrupt"     -> Marking("none")
          [] handler \in {"recovery", "swap"} ->
               IF s = "disconnected" THEN Marking("unknown")
               ELSE IF handler = "swap" THEN Go("drop") ELSE Released("idle")
          [] OTHER ->      \* "worker"
               (CASE s \in {"absent"} \cup TerminalStates -> Released("idle")
                  [] s = "queued"      -> Finalizing("interrupted")
                  [] s = "dispatching" -> Finalizing("unknown")
                  [] s = "running"     -> Marking("disconnected")
                  [] OTHER             -> Marking("unknown"))
  /\ UNCHANGED <<storeVars, linkVars, boundary, fifo, stop, sent>>

(***************************************************************************)
(* mark_output_incomplete.  _connection_lost and _ambiguous_interrupt read *)
(* the row again afterwards; the others act on what they read before.      *)
(***************************************************************************)
MarkStep ==
  /\ pc = "mark"
  /\ MarkOutputIncomplete(cur)
  /\ CASE handler \in {"lost", "interrupt"} /\ state[cur] = "running" ->
              Go("disconnect")
       [] handler = "interrupt" /\ state[cur] = "disconnected" ->
              Finalizing("unknown")
       [] handler \in {"recovery", "swap", "worker"} ->
              (IF target = "unknown" THEN Finalizing("unknown")
                                     ELSE Go("disconnect"))
       [] OTHER -> Go("drop")
  /\ UNCHANGED <<linkVars, boundary, fifo, stop, sent>>

DisconnectStep ==
  /\ pc = "disconnect"
  /\ IF CanTransition(cur, "disconnected")
     THEN /\ TransitionExecution(cur, "disconnected")
          /\ Go(IF handler = "lost" THEN "drop" ELSE "reread")
     ELSE UNCHANGED storeVars /\ Raise
  /\ UNCHANGED <<linkVars, boundary, fifo, stop, sent>>

RereadStep ==
  /\ pc = "reread"
  /\ IF state[cur] = "disconnected" THEN Finalizing("unknown") ELSE Go("drop")
  /\ UNCHANGED <<storeVars, linkVars, boundary, fifo, stop, sent>>

FinalizeStep ==
  /\ pc = "finalize"
  /\ IF CanFinalizeOutput(cur)
     THEN FinalizeOutput(cur) /\ Go("commit")
     ELSE UNCHANGED storeVars /\ Raise
  /\ UNCHANGED <<linkVars, boundary, fifo, stop, sent>>

CommitStep ==
  /\ pc = "commit"
  /\ IF CanTransition(cur, target)
     THEN /\ TransitionExecution(cur, target)
          /\ IF handler \in {"none", "recovery"} THEN Released("idle")
                                                 ELSE Go("drop")
     ELSE UNCHANGED storeVars /\ Raise
  /\ UNCHANGED <<linkVars, boundary, fifo, stop, sent>>

\* _drop_transport, and where each path goes from there.
DropStep ==
  /\ pc = "drop"
  /\ CloseTransport
  /\ CASE handler = "lost"  -> Go("recheck")
       [] handler = "retry" -> Go("recover")
       [] OTHER             -> Released("idle")
  /\ UNCHANGED <<storeVars, kernelVars, faults, boundary, fifo, stop, sent>>

\* After a lost connection, a disconnected row is recovered in place.
RecheckStep ==
  /\ pc = "recheck"
  /\ IF state[cur] = "disconnected" THEN Go("recover") ELSE Released("idle")
  /\ UNCHANGED <<storeVars, linkVars, boundary, fifo, stop, sent>>

Worker ==
  \/ TakeItem \/ ReadRow \/ ReadSource \/ ConnectForRun
  \/ RegisterConnection \/ BeginDispatchStep \/ Send \/ Loop \/ Expire
  \/ NextEvent \/ ConfirmStep \/ AppendStep \/ EvidenceStep \/ RecoverRead
  \/ ConnectForRecovery \/ SendBoundary \/ HandleStep \/ MarkStep
  \/ DisconnectStep \/ RereadStep \/ FinalizeStep \/ CommitStep \/ DropStep
  \/ RecheckStep
=============================================================================
