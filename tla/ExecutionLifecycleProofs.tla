---------------------- MODULE ExecutionLifecycleProofs ----------------------
(***************************************************************************)
(* TLAPS proofs about ExecutionLifecycle, for any number of executions,    *)
(* outputs and faults.  In this order: its types; source text does not     *)
(* outlive its dispatch; an execution is scheduled once; every unsettled   *)
(* row has somebody who will settle it; rows are dispatched in the order   *)
(* in which they were accepted; the lifecycle keeps the promise of         *)
(* DurableExecution, with AtMostOnce and TerminalTruth; and output that is *)
(* recorded as complete is all that was printed.                           *)
(***************************************************************************)
EXTENDS ExecutionLifecycle, FiniteSetTheorems, SequenceTheorems, TLAPS

\* create_execution keeps the store's types; so does each transaction below.
LEMMA CreateTypeOK ==
  ASSUME StoreTypeOK, NEW e \in Executions, NEW k \in Keys \cup {None},
         NEW n \in Nat, CreateExecution(e, k, n)
  PROVE  StoreTypeOK'
BY DEF StoreTypeOK, CreateExecution, Evidence, NewEvidence, ExecStates, Intents,
       ValidReplies, ActiveStates, TerminalStates

\* begin_dispatch.
LEMMA BeginDispatchTypeOK ==
  ASSUME StoreTypeOK, NEW e \in Executions, NEW n \in Nat, NEW m \in Nat,
         BeginDispatch(e, n, m)
  PROVE  StoreTypeOK'
<1> DEFINE row == [ev[e] EXCEPT !.endpoint = n, !.kernel = m]
<1>1. ev[e] \in Evidence
  BY DEF StoreTypeOK
<1>2. row \in Evidence
  BY <1>1 DEF Evidence
<1>3. ev' = [ev EXCEPT ![e] = row]
  BY DEF BeginDispatch, StoreTypeOK
<1>4. state' \in [Executions -> ExecStates]
  BY DEF StoreTypeOK, BeginDispatch, ExecStates, ActiveStates
<1> QED
  BY <1>2, <1>3, <1>4 DEF StoreTypeOK, BeginDispatch

\* confirm_dispatch.
LEMMA ConfirmTypeOK ==
  ASSUME StoreTypeOK, NEW e \in Executions, ConfirmDispatch(e)
  PROVE  StoreTypeOK'
<1> DEFINE row == [ev[e] EXCEPT !.confirmed = TRUE]
<1>1. ev[e] \in Evidence
  BY DEF StoreTypeOK
<1>2. row \in Evidence
  BY <1>1 DEF Evidence
<1>3. ev' = [ev EXCEPT ![e] = row]
  BY DEF ConfirmDispatch, StoreTypeOK
<1> QED
  BY <1>2, <1>3 DEF StoreTypeOK, ConfirmDispatch, ExecStates, ActiveStates

\* transition_execution, to any state of the schema.
LEMMA TransitionTypeOK ==
  ASSUME StoreTypeOK, NEW e \in Executions, NEW s \in ExecStates,
         TransitionExecution(e, s)
  PROVE  StoreTypeOK'
BY DEF StoreTypeOK, TransitionExecution

\* record_execution_evidence.
LEMMA RecordTypeOK ==
  ASSUME StoreTypeOK, NEW e \in Executions,
         NEW r \in ValidReplies \cup {"none"}, NEW i \in BOOLEAN,
         RecordEvidence(e, r, i)
  PROVE  StoreTypeOK'
<1> DEFINE row == [ev[e] EXCEPT
                     !.reply = IF r = "none" THEN ev[e].reply ELSE r,
                     !.idle  = IF i THEN TRUE ELSE ev[e].idle]
<1>1. ev[e] \in Evidence
  BY DEF StoreTypeOK
<1>2. row \in Evidence
  BY <1>1 DEF Evidence
<1>3. ev' = [ev EXCEPT ![e] = row]
  BY DEF RecordEvidence
<1> QED
  BY <1>2, <1>3 DEF StoreTypeOK, RecordEvidence

\* append_output_event.
LEMMA AppendTypeOK ==
  ASSUME StoreTypeOK, NEW e \in Executions, AppendOutput(e)
  PROVE  StoreTypeOK'
BY DEF StoreTypeOK, AppendOutput, Evidence

\* mark_output_incomplete.
LEMMA MarkTypeOK ==
  ASSUME StoreTypeOK, NEW e \in Executions, MarkOutputIncomplete(e)
  PROVE  StoreTypeOK'
<1> DEFINE row == [ev[e] EXCEPT !.complete = FALSE]
<1>1. ev[e] \in Evidence
  BY DEF StoreTypeOK
<1>2. row \in Evidence
  BY <1>1 DEF Evidence
<1>3. ev' = [ev EXCEPT ![e] = row]
  BY DEF MarkOutputIncomplete, StoreTypeOK
<1> QED
  BY <1>2, <1>3 DEF StoreTypeOK, MarkOutputIncomplete

\* finalize_output.
LEMMA FinalizeTypeOK ==
  ASSUME StoreTypeOK, NEW e \in Executions, FinalizeOutput(e)
  PROVE  StoreTypeOK'
<1> DEFINE row == [ev[e] EXCEPT !.finalized = TRUE]
<1>1. ev[e] \in Evidence
  BY DEF StoreTypeOK
<1>2. row \in Evidence
  BY <1>1 DEF Evidence
<1>3. ev' = [ev EXCEPT ![e] = row]
  BY DEF FinalizeOutput, StoreTypeOK
<1> QED
  BY <1>2, <1>3 DEF StoreTypeOK, FinalizeOutput

\* request_execution_cancel.
LEMMA CancelTypeOK ==
  ASSUME StoreTypeOK, NEW e \in Executions, RequestCancel(e)
  PROVE  StoreTypeOK'
<1> DEFINE row == [ev[e] EXCEPT
                     !.intent = "interrupted",
                     !.finalized = IF state[e] = "queued" THEN TRUE
                                   ELSE ev[e].finalized]
<1>1. ev[e] \in Evidence
  BY DEF StoreTypeOK
<1>2. row \in Evidence
  BY <1>1 DEF Evidence, Intents
<1>3. ev' = [ev EXCEPT ![e] = row]
  BY DEF RequestCancel
<1> QED
  BY <1>2, <1>3 DEF StoreTypeOK, RequestCancel, ExecStates, TerminalStates

\* request_execution_timeout.
LEMMA TimeoutTypeOK ==
  ASSUME StoreTypeOK, NEW e \in Executions, RequestTimeout(e)
  PROVE  StoreTypeOK'
BY DEF StoreTypeOK, RequestTimeout, Evidence, Intents

-----------------------------------------------------------------------------
\* A message the kernel publishes arrives or is lost: the channel stays one.
LEMMA PublishType ==
  ASSUME NEW q \in Seq(Messages), NEW m \in Messages, NEW p \in Publish(q, m)
  PROVE  p \in Seq(Messages)
<1>1. Append(q, m) \in Seq(Messages)
  BY AppendProperties
<1> QED
  BY <1>1 DEF Publish

\* What the kernel works on, and what waits behind it.
LEMMA CurrentType ==
  ASSUME LinkTypeOK, kq # <<>>
  PROVE  /\ Current \in Requests
         /\ Tail(kq) \in Seq(Requests)
         /\ Current.exec \in Executions \cup {None}
<1>1. kq \in Seq(Requests)
  BY DEF LinkTypeOK
<1>2. Head(kq) \in Requests /\ Tail(kq) \in Seq(Requests)
  BY <1>1, HeadTailProperties
<1>3. Current \in Requests
  BY <1>2 DEF Current
<1> QED
  BY <1>2, <1>3 DEF Requests

\* A step of the kernel keeps the link's types.
LEMMA KernelTypeOK ==
  ASSUME LinkTypeOK, Kernel
  PROVE  LinkTypeOK'
<1>0. kq # <<>> /\ Current \in Requests /\ Tail(kq) \in Seq(Requests)
  BY CurrentType DEF Kernel, KernelBusy, KernelOutput, KernelReply, KernelIdle,
                     Executing
<1>1. \A k \in Kinds : [parent |-> Current, kind |-> k] \in Messages
  BY <1>0 DEF Messages
<1>2. CASE KernelBusy
  BY <1>1, <1>2, PublishType DEF KernelBusy, LinkTypeOK, Kinds
<1>3. CASE KernelOutput
  <2>1. Current.exec \in Executions
    BY <1>0, <1>3 DEF KernelOutput, Executing, Requests
  <2>2. iopub' \in Seq(Messages)
    BY <1>1, <1>3, PublishType DEF KernelOutput, LinkTypeOK, Kinds
  <2> QED
    BY <1>3, <2>1, <2>2 DEF KernelOutput, LinkTypeOK
<1>4. CASE KernelReply
  <2>1. PICK r \in (IF Executing THEN Replies ELSE {"info"}) :
          /\ answers' = IF Executing
                        THEN [answers EXCEPT ![Current.exec] = @ \cup {r}]
                        ELSE answers
          /\ shell' \in Publish(shell, [parent |-> Current, kind |-> r])
    BY <1>4 DEF KernelReply
  <2>2. r \in Kinds /\ (Executing => r \in ReplyKinds)
    BY LinkAssumption DEF Kinds
  <2>3. shell' \in Seq(Messages)
    BY <1>1, <2>1, <2>2, PublishType DEF LinkTypeOK
  <2>4. answers' \in [Executions -> SUBSET ReplyKinds]
    <3>1. CASE Executing
      BY <1>0, <2>1, <2>2, <3>1 DEF Executing, Requests, LinkTypeOK
    <3>2. CASE ~Executing
      BY <2>1, <3>2 DEF LinkTypeOK
    <3> QED
      BY <3>1, <3>2
  <2> QED
    BY <1>4, <2>3, <2>4 DEF KernelReply, LinkTypeOK
<1>5. CASE KernelIdle
  <2>1. iopub' \in Seq(Messages)
    BY <1>1, <1>5, PublishType DEF KernelIdle, LinkTypeOK, Kinds
  <2> QED
    BY <1>0, <1>5, <2>1 DEF KernelIdle, LinkTypeOK
<1> QED
  BY <1>2, <1>3, <1>4, <1>5 DEF Kernel

\* The fault budget is never overdrawn.
LEMMA FaultType ==
  ASSUME LinkTypeOK, NEW k, Fault(k)
  PROVE  faults' \in 0..MaxFaults
BY LinkAssumption DEF LinkTypeOK, Fault

\* Lost wires, restarted and replaced kernels and removed sessions keep them.
LEMMA LinkFaultTypeOK ==
  ASSUME LinkTypeOK, LinkFault
  PROVE  LinkTypeOK'
<1>1. CASE WireDrop
  BY <1>1, FaultType DEF WireDrop, LinkTypeOK, kernelVars
<1>2. CASE KernelRestart
  BY <1>2, FaultType DEF KernelRestart, KernelGone, LinkTypeOK
<1>3. CASE KernelReplace
  BY <1>3, FaultType DEF KernelReplace, KernelGone, LinkTypeOK
<1>4. CASE SessionRemove
  BY <1>4, FaultType DEF SessionRemove, KernelGone, LinkTypeOK
<1>5. CASE SessionEnsure
  BY <1>5 DEF SessionEnsure, LinkTypeOK, wireVars
<1> QED
  BY <1>1, <1>2, <1>3, <1>4, <1>5 DEF LinkFault

\* So does each call of the transport, whether it returns or raises.
LEMMA CallTypeOK ==
  ASSUME LinkTypeOK
  PROVE  /\ InterruptReturns \/ InterruptRaises => LinkTypeOK'
         /\ \A n : Connect(n) \/ ConnectFails(n) => LinkTypeOK'
         /\ \A r \in Requests : SendReturns(r) \/ SendRaises(r) => LinkTypeOK'
         /\ \A m : TakeMessage(m) => LinkTypeOK' /\ m \in Messages
         /\ CloseTransport /\ UNCHANGED <<kernelVars, faults>> => LinkTypeOK'
         /\ UNCHANGED linkVars => LinkTypeOK'
<1>0. \A n : Connect(n) \/ ConnectFails(n) => LinkTypeOK'
  BY FaultType DEF Connect, ConnectFails, LinkTypeOK, kernelVars, wireVars
<1>1. InterruptReturns \/ InterruptRaises => LinkTypeOK'
  BY FaultType DEF InterruptReturns, InterruptRaises, LinkTypeOK, linkVars,
                   kernelVars, wireVars
<1>2. ASSUME NEW r \in Requests, SendReturns(r) \/ SendRaises(r)
      PROVE  LinkTypeOK'
  <2>1. Append(kq, r) \in Seq(Requests)
    BY AppendProperties DEF LinkTypeOK
  <2>2. kq' \in Seq(Requests) /\ faults' \in 0..MaxFaults
    BY <1>2, <2>1, FaultType DEF SendReturns, SendRaises, LinkTypeOK
  <2> QED
    BY <1>2, <2>2 DEF SendReturns, SendRaises, LinkTypeOK, wireVars
<1>3. ASSUME NEW m, TakeMessage(m)
      PROVE  LinkTypeOK' /\ m \in Messages
  <2>1. /\ shell # <<>> => Head(shell) \in Messages /\ Tail(shell) \in Seq(Messages)
        /\ iopub # <<>> => Head(iopub) \in Messages /\ Tail(iopub) \in Seq(Messages)
    BY HeadTailProperties DEF LinkTypeOK
  <2> QED
    BY <1>3, <2>1 DEF TakeMessage, LinkTypeOK, kernelVars
<1>4. CloseTransport /\ UNCHANGED <<kernelVars, faults>> => LinkTypeOK'
  BY DEF CloseTransport, LinkTypeOK, kernelVars
<1>5. UNCHANGED linkVars => LinkTypeOK'
  BY DEF LinkTypeOK, linkVars, kernelVars, wireVars
<1> QED
  BY <1>0, <1>1, <1>2, <1>3, <1>4, <1>5

-----------------------------------------------------------------------------
\* Fresh proofs, probes and requests have their types.
LEMMA ConstantsTyped ==
  /\ NewProof \in Proofs /\ NoProbe \in Probes /\ NoMsg \in Messages
  /\ \A e \in Executions : ExecRequest(e) \in Requests
  /\ \A n \in Nat : InfoRequest(n) \in Requests
BY DEF NewProof, Proofs, NoProbe, Probes, NoMsg, Messages, Kinds, Requests,
       ExecRequest, InfoRequest, Intents

Working == Places \ {"idle", "exited", "dead"}

\* How the worker's memory may change between two places of its program.
LEMMA MoveTypeOK ==
  ASSUME MemoryTypeOK
  PROVE  /\ \A p \in {"idle", "exited", "dead"} : Released(p) => MemoryTypeOK'
         /\ \A p \in Working : cur \in Executions /\ Go(p) => MemoryTypeOK'
         /\ \A s \in TerminalStates :
              cur \in Executions /\ Finalizing(s) => MemoryTypeOK'
         /\ \A h \in Handlers : cur \in Executions /\ Handle(h) => MemoryTypeOK'
         /\ cur \in Executions /\ Raise => MemoryTypeOK'
         /\ UNCHANGED workerVars => MemoryTypeOK'
<1>1. ASSUME NEW p \in {"idle", "exited", "dead"}, Released(p)
      PROVE  MemoryTypeOK'
  BY <1>1, ConstantsTyped DEF Released, MemoryTypeOK, Places, Handlers
<1>2. ASSUME NEW p \in Working, cur \in Executions, Go(p)
      PROVE  MemoryTypeOK'
  BY <1>2 DEF Go, Working, MemoryTypeOK
<1>3. ASSUME NEW s \in TerminalStates, cur \in Executions, Finalizing(s)
      PROVE  MemoryTypeOK'
  BY <1>3 DEF Finalizing, MemoryTypeOK, Places
<1>4. ASSUME NEW h \in Handlers, cur \in Executions, Handle(h)
      PROVE  MemoryTypeOK'
  BY <1>4 DEF Handle, MemoryTypeOK, Places
<1>5. cur \in Executions /\ Raise => MemoryTypeOK'
  BY <1>1, <1>4 DEF Raise, Handlers
<1>6. UNCHANGED workerVars => MemoryTypeOK'
  BY DEF workerVars, MemoryTypeOK
<1> QED
  BY <1>1, <1>2, <1>3, <1>4, <1>5, <1>6

\* Terminal states are states.
LEMMA TerminalIsState == TerminalStates \subseteq ExecStates
BY DEF ExecStates

\* _terminal_state yields a terminal state or no verdict yet.
LEMMA TerminalStateType ==
  ASSUME NEW r \in ValidReplies \cup {"none"}, NEW i \in BOOLEAN, NEW w \in Intents
  PROVE  TerminalState(r, i, w) \in TerminalStates \cup {"none"}
BY DEF TerminalState, TerminalStates, Intents, ValidReplies

-----------------------------------------------------------------------------
\* What a worker step leaves alone, and that its item is an execution.
LEMMA UnchangedStore == StoreTypeOK /\ UNCHANGED storeVars => StoreTypeOK'
BY DEF StoreTypeOK, storeVars

\* A step of the worker thread keeps every type.
LEMMA WorkerStepTypeOK ==
  ASSUME StoreTypeOK, LinkTypeOK, WorkerTypeOK, Worker
  PROVE  StoreTypeOK' /\ LinkTypeOK' /\ WorkerTypeOK'
<1> USE DEF WorkerTypeOK
<1>m. MemoryTypeOK
  OBVIOUS
<1>c. pc \notin {"idle", "exited", "dead"} => cur \in Executions
  BY <1>m DEF MemoryTypeOK
<1>w. Working = {"read", "source", "connect", "register", "begin", "send", "loop",
           "expire", "event", "confirm", "append", "evidence", "recover",
           "info", "handle", "mark", "disconnect", "reread", "finalize",
           "commit", "drop", "recheck"}
  BY DEF Working, Places
<1>1. CASE TakeItem
  <2>1. Head(fifo) \in Items /\ Tail(fifo) \in Seq(Items)
    BY <1>1, HeadTailProperties DEF TakeItem
  <2>2. MemoryTypeOK'
    <3>1. CASE Head(fifo).kind = "stop"
      BY <1>1, <1>m, <3>1, MoveTypeOK DEF TakeItem
    <3>2. CASE Head(fifo).kind # "stop"
      BY <1>1, <1>m, <2>1, <3>2 DEF TakeItem, MemoryTypeOK, Items, Places
    <3> QED
      BY <3>1, <3>2
  <2> QED
    BY <1>1, <2>1, <2>2, UnchangedStore, CallTypeOK DEF TakeItem
<1>2. CASE ReadRow
  <2>1. MemoryTypeOK'
    <3>1. CASE state[cur] = "queued" /\ session # 0
      BY <1>2, <1>m, <1>c, <3>1 DEF ReadRow, MemoryTypeOK, LinkTypeOK, Places
    <3>2. CASE ~(state[cur] = "queued" /\ session # 0)
      BY <1>2, <1>m, <1>c, <1>w, <3>2, MoveTypeOK DEF ReadRow, TerminalStates
    <3> QED
      BY <3>1, <3>2
  <2> QED
    BY <1>2, <2>1, UnchangedStore, CallTypeOK DEF ReadRow
<1>3. CASE ReadSource
  BY <1>3, <1>m, <1>c, <1>w, MoveTypeOK, UnchangedStore, CallTypeOK DEF ReadSource
<1>4. CASE ConnectForRun
  <2>1. LinkTypeOK'
    BY <1>4, CallTypeOK DEF ConnectForRun
  <2>2. MemoryTypeOK'
    BY <1>4, <1>m, <1>c, <1>w, MoveTypeOK DEF ConnectForRun, Handlers
  <2> QED
    BY <1>4, <2>1, <2>2, UnchangedStore DEF ConnectForRun
<1>5. CASE BeginDispatchStep
  <2>1. cur \in Executions /\ seen \in Nat /\ peer \in Nat
    BY <1>5, <1>c, <1>m DEF BeginDispatchStep, MemoryTypeOK, LinkTypeOK
  <2>2. StoreTypeOK'
    BY <1>5, <2>1, BeginDispatchTypeOK, UnchangedStore DEF BeginDispatchStep
  <2>3. MemoryTypeOK'
    BY <1>5, <1>m, <1>w, <2>1, MoveTypeOK DEF BeginDispatchStep, Handlers
  <2> QED
    BY <1>5, <2>2, <2>3, CallTypeOK DEF BeginDispatchStep
<1>6. CASE Send
  <2>1. cur \in Executions /\ ExecRequest(cur) \in Requests
    BY <1>6, <1>c, ConstantsTyped DEF Send
  <2>2. LinkTypeOK'
    BY <1>6, <2>1, CallTypeOK DEF Send
  <2>3. MemoryTypeOK'
    BY <1>6, <1>m, <1>w, <2>1, MoveTypeOK DEF Send, Handlers
  <2>4. sent' \in [Executions -> Nat]
    BY <1>6, <2>1 DEF Send
  <2> QED
    BY <1>6, <2>2, <2>3, <2>4, UnchangedStore DEF Send
<1>7. CASE Loop
  <2>1. LinkTypeOK'
    BY <1>7, CallTypeOK DEF Loop, Interrupting
  <2>2. cur \in Executions /\ ev[cur].intent \in Intents
    BY <1>7, <1>c DEF Loop, StoreTypeOK, Evidence
  <2>3. ASSUME Interrupting(ev[cur].intent)
        PROVE  MemoryTypeOK'
    BY <2>2, <2>3, <1>m, MoveTypeOK
       DEF Interrupting, MemoryTypeOK, Proofs, RequestInterrupt, Places, Handlers
  <2>4. MemoryTypeOK'
    BY <1>7, <1>m, <1>w, <2>2, <2>3, MoveTypeOK DEF Loop
  <2> QED
    BY <1>7, <2>1, <2>4, UnchangedStore DEF Loop
<1>8. CASE Expire
  <2>1. cur \in Executions
    BY <1>8, <1>c DEF Expire
  <2>2. StoreTypeOK'
    BY <1>8, <2>1, TimeoutTypeOK DEF Expire
  <2>3. LinkTypeOK'
    BY <1>8, CallTypeOK DEF Expire, Interrupting
  <2>4. ASSUME NEW i \in Intents, Interrupting(i)
        PROVE  MemoryTypeOK'
    BY <2>1, <2>4, <1>m, MoveTypeOK
       DEF Interrupting, MemoryTypeOK, Proofs, RequestInterrupt, Places, Handlers
  <2>5. ev'[cur].intent \in Intents
    BY <2>1, <2>2 DEF StoreTypeOK, Evidence
  <2>6. MemoryTypeOK'
    BY <1>8, <1>m, <1>w, <2>1, <2>4, <2>5, MoveTypeOK DEF Expire, Intents
  <2> QED
    BY <1>8, <2>2, <2>3, <2>6 DEF Expire
<1>9. CASE NextEvent
  <2>1. cur \in Executions
    BY <1>9, <1>c DEF NextEvent
  <2>2. LinkTypeOK'
    BY <1>9, CallTypeOK DEF NextEvent
  <2>3. ASSUME NEW m \in Messages, ObserveExecution(m)
        PROVE  MemoryTypeOK'
    BY <2>1, <2>3, <1>m, ConstantsTyped
       DEF ObserveExecution, AfterConfirm, MemoryTypeOK, Proofs, Places
  <2>4. ASSUME NEW m \in Messages, ObserveBoundary(m)
        PROVE  MemoryTypeOK'
    BY <2>1, <2>4, <1>m
       DEF ObserveBoundary, MemoryTypeOK, Probes, Places, Handlers
  <2>5. ASSUME NEW m \in Messages, Unmatched(m)
        PROVE  MemoryTypeOK'
    BY <2>1, <2>5, <1>m, <1>w, MoveTypeOK DEF Unmatched
  <2>6. ASSUME NEW m, TakeMessage(m),
               ObserveExecution(m) \/ ObserveBoundary(m) \/ Unmatched(m)
        PROVE  MemoryTypeOK'
    BY <2>3, <2>4, <2>5, <2>6, CallTypeOK
  <2>7. ASSUME Go("loop") PROVE MemoryTypeOK'
    BY <2>1, <2>7, <1>m, <1>w, MoveTypeOK
  <2>8. ASSUME Handle("lost") PROVE MemoryTypeOK'
    BY <2>1, <2>8, <1>m, MoveTypeOK DEF Handlers
  <2>9. ASSUME pc' = "drop", handler' = "retry",
               UNCHANGED <<mode, cur, seen, target, proof, probe, msg, asked>>
        PROVE  MemoryTypeOK'
    BY <2>1, <2>9, <1>m DEF MemoryTypeOK, Places, Handlers
  <2>10. MemoryTypeOK'
    BY <1>9, <2>6, <2>7, <2>8, <2>9 DEF NextEvent
  <2> QED
    BY <1>9, <2>2, <2>10, UnchangedStore DEF NextEvent
<1>10. CASE ConfirmStep
  <2>1. cur \in Executions
    BY <1>10, <1>c DEF ConfirmStep
  <2>2. StoreTypeOK'
    BY <1>10, <2>1, ConfirmTypeOK, UnchangedStore DEF ConfirmStep
  <2>3. AfterConfirm(msg.kind) \in Working
    BY <1>w DEF AfterConfirm
  <2>4. MemoryTypeOK'
    BY <1>10, <1>m, <2>1, <2>3, MoveTypeOK DEF ConfirmStep
  <2> QED
    BY <1>10, <2>2, <2>4, CallTypeOK DEF ConfirmStep
<1>11. CASE AppendStep
  <2>1. cur \in Executions
    BY <1>11, <1>c DEF AppendStep
  <2>2. StoreTypeOK'
    BY <1>11, <2>1, AppendTypeOK, UnchangedStore DEF AppendStep
  <2>3. MemoryTypeOK'
    BY <1>11, <1>m, <1>w, <2>1, MoveTypeOK DEF AppendStep
  <2> QED
    BY <1>11, <2>2, <2>3, CallTypeOK DEF AppendStep
<1>12. CASE EvidenceStep
  <2>1. cur \in Executions /\ proof \in Proofs
    BY <1>12, <1>c, <1>m DEF EvidenceStep, MemoryTypeOK
  <2>2. StoreTypeOK'
    <3>1. proof.reply \in ValidReplies \cup {"none"}
      BY <2>1 DEF Proofs
    <3>2. (IF msg.kind \in ValidReplies THEN proof.reply ELSE "none")
             \in ValidReplies \cup {"none"}
      BY <3>1
    <3>3. (msg.kind = "idle") \in BOOLEAN
      OBVIOUS
    <3> QED
      BY <1>12, <2>1, <3>2, <3>3, RecordTypeOK, UnchangedStore DEF EvidenceStep
  <2>3. TerminalState(proof.reply, proof.idle, proof.want)
           \in TerminalStates \cup {"none"}
    BY <2>1, TerminalStateType DEF Proofs
  <2>4. MemoryTypeOK'
    BY <1>12, <1>m, <1>w, <2>1, <2>3, MoveTypeOK DEF EvidenceStep
  <2> QED
    BY <1>12, <2>2, <2>4, CallTypeOK DEF EvidenceStep
<1>13. CASE RecoverRead
  <2>1. cur \in Executions
    BY <1>13, <1>c DEF RecoverRead
  <2>2. Restored(ev[cur]) \in Proofs
    BY <2>1 DEF Restored, Proofs, StoreTypeOK, Evidence
  <2>3. MemoryTypeOK'
    <3>1. CASE stop \/ state[cur] # "disconnected"
      BY <1>13, <1>m, <3>1, MoveTypeOK DEF RecoverRead
    <3>2. CASE ~(stop \/ state[cur] # "disconnected")
      BY <1>13, <1>m, <2>1, <2>2, <3>2, ConstantsTyped
         DEF RecoverRead, MemoryTypeOK, LinkTypeOK, Places, Handlers
    <3> QED
      BY <3>1, <3>2
  <2> QED
    BY <1>13, <2>3, UnchangedStore, CallTypeOK DEF RecoverRead
<1>14. CASE ConnectForRecovery
  <2>1. LinkTypeOK'
    BY <1>14, CallTypeOK DEF ConnectForRecovery
  <2>2. MemoryTypeOK'
    BY <1>14, <1>m, <1>c, <1>w, MoveTypeOK
       DEF ConnectForRecovery, SameKernel, Handlers
  <2> QED
    BY <1>14, <2>1, <2>2, UnchangedStore DEF ConnectForRecovery
<1>15. CASE SendBoundary
  <2>1. cur \in Executions /\ boundary + 1 \in Nat
    BY <1>15, <1>c DEF SendBoundary
  <2>2. InfoRequest(boundary + 1) \in Requests
    BY <2>1, ConstantsTyped
  <2>3. LinkTypeOK'
    BY <1>15, <2>2, CallTypeOK DEF SendBoundary
  <2>4. MemoryTypeOK'
    BY <1>15, <1>m, <2>1, ConstantsTyped
       DEF SendBoundary, MemoryTypeOK, Probes, Places, Handlers
  <2>5. boundary' \in Nat
    BY <1>15, <2>1 DEF SendBoundary
  <2> QED
    BY <1>15, <2>3, <2>4, <2>5, UnchangedStore DEF SendBoundary
<1>16. CASE HandleStep
  <2>1. cur \in Executions
    BY <1>16, <1>c DEF HandleStep
  <2>2. ASSUME NEW t \in {"none", "disconnected", "unknown"},
               pc' = "mark", target' = t,
               UNCHANGED <<mode, cur, seen, handler, proof, probe, msg, asked>>
        PROVE  MemoryTypeOK'
    BY <1>m, <2>1, <2>2 DEF MemoryTypeOK, Places, TerminalStates
  <2>3. MemoryTypeOK'
    BY <1>16, <1>m, <1>w, <2>1, <2>2, MoveTypeOK, SMTT(30)
       DEF HandleStep, TerminalStates
  <2> QED
    BY <1>16, <2>3, UnchangedStore, CallTypeOK DEF HandleStep
<1>17. CASE MarkStep
  <2>1. cur \in Executions
    BY <1>17, <1>c DEF MarkStep
  <2>2. StoreTypeOK'
    BY <1>17, <2>1, MarkTypeOK DEF MarkStep
  <2>3. MemoryTypeOK'
    BY <1>17, <1>m, <1>w, <2>1, MoveTypeOK DEF MarkStep, TerminalStates
  <2> QED
    BY <1>17, <2>2, <2>3, CallTypeOK DEF MarkStep
<1>18. CASE DisconnectStep
  <2>1. cur \in Executions /\ "disconnected" \in ExecStates
    BY <1>18, <1>c DEF DisconnectStep, ExecStates, ActiveStates
  <2>2. StoreTypeOK'
    BY <1>18, <2>1, TransitionTypeOK, UnchangedStore DEF DisconnectStep
  <2>3. MemoryTypeOK'
    BY <1>18, <1>m, <1>w, <2>1, MoveTypeOK DEF DisconnectStep
  <2> QED
    BY <1>18, <2>2, <2>3, CallTypeOK DEF DisconnectStep
<1>19. CASE RereadStep
  BY <1>19, <1>m, <1>c, <1>w, MoveTypeOK, UnchangedStore, CallTypeOK
     DEF RereadStep, TerminalStates
<1>20. CASE FinalizeStep
  <2>1. cur \in Executions
    BY <1>20, <1>c DEF FinalizeStep
  <2>2. StoreTypeOK'
    BY <1>20, <2>1, FinalizeTypeOK, UnchangedStore DEF FinalizeStep
  <2> QED
    BY <1>20, <1>m, <1>w, <2>1, <2>2, MoveTypeOK, CallTypeOK DEF FinalizeStep
<1>21. CASE CommitStep
  <2>1. cur \in Executions
    BY <1>21, <1>c DEF CommitStep
  <2>2. StoreTypeOK'
    <3>1. CASE CanTransition(cur, target)
      <4>1. state[cur] \in ExecStates
        BY <2>1 DEF StoreTypeOK
      <4>2. target \in ExecStates
        BY <3>1, <4>1 DEF CanTransition, AllowedTransitions, ExecStates,
                          ActiveStates, TerminalStates
      <4> QED
        BY <1>21, <2>1, <3>1, <4>2, TransitionTypeOK DEF CommitStep
    <3>2. CASE ~CanTransition(cur, target)
      BY <1>21, <3>2, UnchangedStore DEF CommitStep
    <3> QED
      BY <3>1, <3>2
  <2>3. MemoryTypeOK'
    BY <1>21, <1>m, <1>w, <2>1, MoveTypeOK DEF CommitStep
  <2> QED
    BY <1>21, <2>2, <2>3, CallTypeOK DEF CommitStep
<1>22. CASE DropStep
  BY <1>22, <1>m, <1>c, <1>w, MoveTypeOK, UnchangedStore, CallTypeOK DEF DropStep
<1>23. CASE RecheckStep
  BY <1>23, <1>m, <1>c, <1>w, MoveTypeOK, UnchangedStore, CallTypeOK DEF RecheckStep
<1>24. CASE RegisterConnection
  BY <1>24, <1>m, <1>c, <1>w, MoveTypeOK, UnchangedStore, CallTypeOK
     DEF RegisterConnection, SameKernel, Handlers
<1> QED
  BY <1>1, <1>2, <1>3, <1>4, <1>5, <1>6, <1>7, <1>8, <1>9, <1>10, <1>11, <1>12,
     <1>13, <1>14, <1>15, <1>16, <1>17, <1>18, <1>19, <1>20, <1>21, <1>22, <1>23,
     <1>24 DEF Worker

-----------------------------------------------------------------------------
\* What the event loop leaves alone keeps its type.
LEMMA LoopLeavesAlone ==
  ASSUME TypeOK
  PROVE  /\ LoopOnly => LinkTypeOK' /\ WorkerTypeOK'
         /\ UNCHANGED <<workerVars, boundary, stop, sent>> /\ fifo' \in Seq(Items)
              => WorkerTypeOK'
         /\ UNCHANGED <<kernelVars, wireVars>> /\ faults' \in 0..MaxFaults
              => LinkTypeOK'
BY MoveTypeOK, CallTypeOK
   DEF TypeOK, LoopOnly, WorkerTypeOK, LinkTypeOK, kernelVars, wireVars

\* What a restart resumes is a queue of work items.
LEMMA ItemsTyped ==
  ASSUME NEW S \in SUBSET Executions, NEW q \in Ordered(S),
         NEW k \in {"execute", "recover"}
  PROVE  ItemsOf(k, q) \in Seq(Items)
<1>1. Cardinality(S) \in Nat
  BY ExecutionsAssumption, FS_Subset, FS_CardinalityType
<1>2. q \in [1..Cardinality(S) -> S]
  BY DEF Ordered
<1>3. ItemsOf(k, q) \in [1..Cardinality(S) -> Items]
  BY <1>2 DEF ItemsOf, Items
<1> QED
  BY <1>1, <1>3, SeqDef

\* The end of the process leaves well-typed initial memory.
LEMMA ProcessEndsTypeOK ==
  ASSUME TypeOK, ProcessEnds, faults' \in 0..MaxFaults
  PROVE  LinkTypeOK' /\ WorkerTypeOK' /\ LoopTypeOK'
<1>1. MemoryTypeOK'
  BY MoveTypeOK DEF TypeOK, WorkerTypeOK, ProcessEnds
<1>2. fifo' \in Seq(Items)
  BY EmptySeq DEF ProcessEnds
<1>3. WorkerTypeOK'
  BY <1>1, <1>2 DEF TypeOK, WorkerTypeOK, ProcessEnds
<1>4. LinkTypeOK'
  BY EmptySeq DEF TypeOK, LinkTypeOK, ProcessEnds, CloseTransport, kernelVars
<1>5. LoopTypeOK'
  BY DEF ProcessEnds, LoopIdle, LoopTypeOK
<1> QED
  BY <1>3, <1>4, <1>5

\* A step of reconcile_after_restart or force_uncertain_active keeps every type.
LEMMA RoutineStepTypeOK ==
  ASSUME TypeOK, RoutineStep
  PROVE  TypeOK'
<1> USE DEF TypeOK
<1>1. ASSUME NEW e \in Executions, ReconcileRow(e)
      PROVE  TypeOK'
  <2>1. TerminalFromEvidence(e) \in TerminalStates \cup {"none"}
    BY TerminalStateType DEF TerminalFromEvidence, StoreTypeOK, Evidence
  <2> QED
    BY <1>1, <2>1, LoopLeavesAlone, UnchangedStore
       DEF ReconcileRow, LoopTypeOK, TerminalStates
<1>2. ASSUME NEW e \in Executions, ForceRow(e)
      PROVE  TypeOK'
  BY <1>2, LoopLeavesAlone, UnchangedStore DEF ForceRow, LoopTypeOK, TerminalStates
<1>3. step # "pick" => work \in Executions
  BY DEF LoopTypeOK
<1>4. CASE RoutineMark
  BY <1>3, <1>4, LoopLeavesAlone, MarkTypeOK DEF RoutineMark, Routine, LoopTypeOK
<1>5. CASE RoutineRead
  <2>1. Routine("disconnect") \/ Routine("finalize") \/ RowDone
    BY <1>5 DEF RoutineRead
  <2>2. LoopTypeOK'
    BY <2>1, <1>3, <1>5 DEF RoutineRead, Routine, RowDone, LoopTypeOK
  <2> QED
    BY <1>5, <2>2, LoopLeavesAlone, UnchangedStore DEF RoutineRead
<1>6. CASE RoutineDisconnect
  <2>1. "disconnected" \in ExecStates
    BY DEF ExecStates, ActiveStates
  <2>2. StoreTypeOK'
    BY <1>3, <1>6, <2>1, TransitionTypeOK, UnchangedStore DEF RoutineDisconnect
  <2>3. LoopTypeOK'
    BY <1>3, <1>6 DEF RoutineDisconnect, Routine, StopRaises, LoopIdle, LoopTypeOK
  <2> QED
    BY <1>6, <2>2, <2>3, LoopLeavesAlone DEF RoutineDisconnect
<1>7. CASE RoutineFinalize
  BY <1>3, <1>7, LoopLeavesAlone, FinalizeTypeOK
     DEF RoutineFinalize, Routine, LoopTypeOK
<1>8. CASE RoutineCommit
  <2>1. CanTransition(work, goal) => goal \in ExecStates
    BY <1>3, <1>8 DEF RoutineCommit, CanTransition, AllowedTransitions, StoreTypeOK,
                      ExecStates, ActiveStates, TerminalStates
  <2>2. StoreTypeOK'
    BY <1>3, <1>8, <2>1, TransitionTypeOK, UnchangedStore DEF RoutineCommit
  <2>3. LoopTypeOK'
    BY <1>3, <1>8 DEF RoutineCommit, RowDone, StopRaises, LoopIdle, LoopTypeOK
  <2> QED
    BY <1>8, <2>2, <2>3, LoopLeavesAlone DEF RoutineCommit
<1>9. CASE RoutineRaises
  <2>1. StoreTypeOK'
    BY <1>9, UnchangedStore DEF RoutineRaises
  <2>2. CASE StopRaises /\ LoopOnly
    BY <1>9, <2>1, <2>2, LoopLeavesAlone DEF StopRaises, LoopIdle, LoopTypeOK
  <2>3. CASE ProcessEnds /\ faults' = faults
    BY <2>1, <2>3, ProcessEndsTypeOK DEF LinkTypeOK
  <2> QED
    BY <1>9, <2>2, <2>3 DEF RoutineRaises
<1> QED
  BY <1>1, <1>2, <1>4, <1>5, <1>6, <1>7, <1>8, <1>9 DEF RoutineStep

\* A request, a stop, a crash or a restart keeps every type.
LEMMA LoopStepTypeOK ==
  ASSUME TypeOK, LoopStep
  PROVE  TypeOK'
<1> USE DEF TypeOK
<1>1. ASSUME NEW k \in Keys \cup {None}, NEW e \in Executions, StartNew(e, k)
      PROVE  TypeOK'
  <2>1. StoreTypeOK'
    BY <1>1, CreateTypeOK DEF StartNew, LinkTypeOK
  <2> QED
    BY <1>1, <2>1, LoopLeavesAlone DEF StartNew, LoopOnly, LoopTypeOK
<1>2. ASSUME NEW k \in Keys, StartAgain(k)
      PROVE  TypeOK'
  BY <1>2, UnchangedStore, LoopLeavesAlone
     DEF StartAgain, ExistingFor, LoopOnly, LoopTypeOK
<1>3. CASE Submit
  <2>1. [kind |-> "execute", exec |-> work] \in Items
    BY <1>3 DEF Submit, LoopTypeOK, Items
  <2>2. fifo' \in Seq(Items)
    BY <1>3, <2>1, AppendProperties DEF Submit, Accepted, SessionLeased, WorkerTypeOK
  <2>3. faults' \in 0..MaxFaults
    BY <1>3, FaultType DEF Submit, Accepted, SessionLeased, LinkTypeOK
  <2>4. LinkTypeOK' /\ WorkerTypeOK' /\ StoreTypeOK'
    BY <1>3, <2>2, <2>3, LoopLeavesAlone, UnchangedStore DEF Submit
  <2>5. refusal' \in [Executions -> {"none", "standing", "past"}]
    BY <1>3 DEF Submit, Accepted, SessionLeased, LoopTypeOK
  <2> QED
    BY <1>3, <2>4, <2>5 DEF Submit, LoopIdle, LoopTypeOK
<1>4. ASSUME NEW e \in Executions, Cancel(e)
      PROVE  TypeOK'
  BY <1>4, CancelTypeOK, LoopLeavesAlone DEF Cancel, LoopOnly, loopVars, LoopTypeOK
<1>5. CASE RoutineStep
  BY <1>5, RoutineStepTypeOK
<1>6. CASE Boot
  BY <1>6, UnchangedStore, LoopLeavesAlone DEF Boot, Active, LoopTypeOK
<1>7. CASE Resume
  <2>1. PICK r \in Ordered(Active), q \in Ordered(Queued) :
          fifo' = ItemsOf("recover", r) \o ItemsOf("execute", q)
    BY <1>7 DEF Resume
  <2>2. Active \subseteq Executions /\ Queued \subseteq Executions
    BY DEF Active, Queued
  <2>3. fifo' \in Seq(Items)
    BY <2>1, <2>2, ItemsTyped, ConcatProperties
  <2>4. LinkTypeOK' /\ StoreTypeOK'
    BY <1>7, CallTypeOK, UnchangedStore DEF Resume
  <2> QED
    BY <1>7, <2>3, <2>4, LoopLeavesAlone DEF Resume, LoopIdle, LoopTypeOK
<1>8. CASE ForceStop
  BY <1>8, UnchangedStore, FaultType, LoopLeavesAlone
     DEF ForceStop, Active, LoopTypeOK, WorkerTypeOK
<1>9. CASE ForceDone
  BY <1>9, UnchangedStore, LoopLeavesAlone DEF ForceDone, LoopIdle, LoopTypeOK
<1>10. CASE StopWhenIdle
  BY <1>10, UnchangedStore, FaultType, LoopLeavesAlone
     DEF StopWhenIdle, LoopTypeOK, WorkerTypeOK
<1>11. CASE CloseCoordinator
  <2>1. fifo' \in Seq(Items)
    BY <1>11, AppendProperties DEF CloseCoordinator, WorkerTypeOK, Items
  <2>2. WorkerTypeOK'
    BY <1>11, <2>1, MoveTypeOK DEF CloseCoordinator, WorkerTypeOK
  <2> QED
    BY <1>11, <2>2, UnchangedStore, CallTypeOK
       DEF CloseCoordinator, LoopIdle, LoopTypeOK
<1>12. CASE Exit
  BY <1>12, UnchangedStore, ProcessEndsTypeOK DEF Exit, LinkTypeOK
<1>13. CASE Crash
  BY <1>13, UnchangedStore, FaultType, ProcessEndsTypeOK DEF Crash
<1>14. CASE CrashInTransaction
  <2>1. src' \subseteq Executions
    BY <1>14 DEF CrashInTransaction, StoreTypeOK
  <2>2. torn' \subseteq Executions
    BY <1>14 DEF CrashInTransaction, StoreTypeOK, MemoryTypeOK, WorkerTypeOK
  <2>3. StoreTypeOK'
    BY <1>14, <2>1, <2>2 DEF CrashInTransaction, StoreTypeOK
  <2> QED
    BY <1>14, <2>3, FaultType, ProcessEndsTypeOK DEF CrashInTransaction
<1> QED
  BY <1>1, <1>2, <1>3, <1>4, <1>5, <1>6, <1>7, <1>8, <1>9, <1>10, <1>11, <1>12,
     <1>13, <1>14 DEF LoopStep

\* The initial state is well typed.
LEMMA InitTypeOK == Init => TypeOK
<1>1. LinkInit => LinkTypeOK
  BY LinkAssumption, EmptySeq DEF LinkInit, LinkTypeOK
<1>2. ASSUME WorkerInit PROVE WorkerTypeOK
  <2>1. MemoryTypeOK
    BY <1>2, ConstantsTyped DEF WorkerInit, MemoryTypeOK, Places, Handlers
  <2>2. fifo \in Seq(Items)
    BY <1>2, EmptySeq DEF WorkerInit
  <2>3. sent \in [Executions -> Nat]
    BY <1>2 DEF WorkerInit
  <2> QED
    BY <1>2, <2>1, <2>2, <2>3 DEF WorkerInit, WorkerTypeOK
<1>3. StoreInit => StoreTypeOK
  BY DEF StoreInit, StoreTypeOK, NewEvidence, Evidence, ExecStates, Intents
<1> QED
  BY <1>1, <1>2, <1>3 DEF Init, TypeOK, LoopTypeOK

\* Every step keeps every type.
LEMMA NextTypeOK == TypeOK /\ [Next]_allVars => TypeOK'
<1> SUFFICES ASSUME TypeOK, [Next]_allVars PROVE TypeOK'
  OBVIOUS
<1>1. UNCHANGED loopVars => LoopTypeOK'
  BY DEF TypeOK, LoopTypeOK, loopVars
<1>2. CASE WorkerStep
  BY <1>1, <1>2, WorkerStepTypeOK DEF WorkerStep, TypeOK
<1>3. CASE KernelStep
  BY <1>1, <1>3, KernelTypeOK, UnchangedStore, LoopLeavesAlone
     DEF KernelStep, TypeOK, WorkerTypeOK
<1>4. CASE LinkStep
  BY <1>1, <1>4, LinkFaultTypeOK, UnchangedStore, LoopLeavesAlone
     DEF LinkStep, TypeOK, WorkerTypeOK
<1>5. CASE LoopStep
  BY <1>5, LoopStepTypeOK
<1>6. CASE UNCHANGED allVars
  BY <1>1, <1>6, UnchangedStore, LoopLeavesAlone DEF allVars, vars, TypeOK, LoopOnly
<1> QED
  BY <1>2, <1>3, <1>4, <1>5, <1>6 DEF Next

(***************************************************************************)
(* Every reachable state of the controller, the worker and the kernel link *)
(* is well typed: rows hold declared states and evidence, work items name  *)
(* executions, and whoever is in the middle of a row names that row.       *)
(***************************************************************************)
THEOREM TypeCorrect == Spec => []TypeOK
BY InitTypeOK, NextTypeOK, PTL DEF Spec

-----------------------------------------------------------------------------
\* SourceDiscarded: a committed dispatch, a cancel or a terminal transition
\* removes the source, and nothing writes it again.
THEOREM SourcesDiscarded == Spec => []SourceDiscarded
<1>1. Init => SourceDiscarded
  BY DEF Init, StoreInit, SourceDiscarded
<1>2. TypeOK /\ SourceDiscarded /\ [Next]_allVars => SourceDiscarded'
  <2> SUFFICES ASSUME TypeOK, SourceDiscarded, [Next]_allVars PROVE SourceDiscarded'
    OBVIOUS
  <2>t. StoreTypeOK /\ MemoryTypeOK /\ LoopTypeOK
    BY DEF TypeOK, WorkerTypeOK
  <2>0. UNCHANGED <<state, src>> => SourceDiscarded'
    BY DEF SourceDiscarded
  <2>1. ASSUME NEW e \in Executions, NEW s, TransitionExecution(e, s), CanTransition(e, s),
               s = "disconnected" \/ s \in TerminalStates
        PROVE  SourceDiscarded'
    <3>1. s = "disconnected" => state[e] = "running"
      BY <2>t, <2>1 DEF CanTransition, AllowedTransitions, StoreTypeOK, ExecStates, ActiveStates,
                        TerminalStates
    <3> QED
      BY <2>t, <2>1, <3>1 DEF SourceDiscarded, TransitionExecution, StoreTypeOK
  <2>2. CASE WorkerStep
    <3>1. pc # "idle" => cur \in Executions \/ pc \in {"exited", "dead"}
      BY <2>t DEF MemoryTypeOK
    <3>2. CASE UNCHANGED <<state, src>>
      BY <2>0, <3>2
    <3>3. CASE BeginDispatchStep
      <4>1. CASE UNCHANGED storeVars
        BY <2>0, <4>1 DEF storeVars
      <4>2. CASE CanBeginDispatch(cur) /\ BeginDispatch(cur, seen, peer)
        BY <2>t, <4>2 DEF CanBeginDispatch, BeginDispatch, SourceDiscarded, StoreTypeOK
      <4> QED
        BY <3>3, <4>1, <4>2 DEF BeginDispatchStep
    <3>4. CASE ConfirmStep
      BY <2>t, <2>0, <3>4 DEF ConfirmStep, ConfirmDispatch, SourceDiscarded, StoreTypeOK,
         storeVars
    <3>5. CASE DisconnectStep
      BY <2>0, <2>1, <3>1, <3>5 DEF DisconnectStep, storeVars
    <3>6. CASE CommitStep
      <4>1. CASE UNCHANGED storeVars
        BY <2>0, <4>1 DEF storeVars
      <4>2. CASE CanTransition(cur, target) /\ TransitionExecution(cur, target)
        <5>1. cur \in Executions /\ target \in {"none", "disconnected"} \cup TerminalStates
          BY <2>t, <3>1, <3>6 DEF CommitStep, MemoryTypeOK
        <5>2. target # "none"
          BY <2>t, <4>2, <5>1 DEF CanTransition, AllowedTransitions, StoreTypeOK, ExecStates,
                                  ActiveStates, TerminalStates
        <5> QED
          BY <2>1, <4>2, <5>1, <5>2
      <4> QED
        BY <3>6, <4>1, <4>2 DEF CommitStep
    <3> QED
      BY <2>2, <3>2, <3>3, <3>4, <3>5, <3>6
         DEF WorkerStep, Worker, storeVars, TakeItem, ReadRow, ReadSource, ConnectForRun,
             RegisterConnection, Send, Loop, Expire, RequestTimeout, NextEvent, AppendStep,
             AppendOutput, EvidenceStep, RecordEvidence, RecoverRead, ConnectForRecovery,
             SendBoundary, HandleStep, MarkStep, MarkOutputIncomplete, RereadStep, FinalizeStep,
             FinalizeOutput, DropStep, RecheckStep
  <2>3. CASE KernelStep \/ LinkStep \/ UNCHANGED allVars
    BY <2>0, <2>3 DEF KernelStep, LinkStep, allVars, vars, storeVars
  <2>4. CASE LoopStep
    <3>1. CASE UNCHANGED <<state, src>>
      BY <2>0, <3>1
    <3>2. ASSUME NEW k, NEW e \in Executions, StartNew(e, k) PROVE SourceDiscarded'
      BY <2>t, <3>2 DEF StartNew, CreateExecution, SourceDiscarded, StoreTypeOK
    <3>3. ASSUME NEW e \in Executions, Cancel(e) PROVE SourceDiscarded'
      BY <2>t, <3>3 DEF Cancel, RequestCancel, SourceDiscarded, StoreTypeOK
    <3>4. CASE RoutineDisconnect
      <4>1. work \in Executions
        BY <2>t, <3>4 DEF RoutineDisconnect, LoopTypeOK
      <4> QED
        BY <2>0, <2>1, <3>4, <4>1 DEF RoutineDisconnect, storeVars
    <3>5. CASE RoutineCommit
      <4>1. work \in Executions /\ goal \in {"none"} \cup TerminalStates
        BY <2>t, <3>5 DEF RoutineCommit, LoopTypeOK
      <4>2. CASE UNCHANGED storeVars
        BY <2>0, <4>2 DEF storeVars
      <4>3. CASE CanTransition(work, goal) /\ TransitionExecution(work, goal)
        <5>1. goal # "none"
          BY <2>t, <4>1, <4>3 DEF CanTransition, AllowedTransitions, StoreTypeOK, ExecStates,
                                  ActiveStates, TerminalStates
        <5> QED
          BY <2>1, <4>1, <4>3, <5>1
      <4> QED
        BY <3>5, <4>2, <4>3 DEF RoutineCommit
    <3>6. CASE CrashInTransaction
      <4>1. /\ UNCHANGED state
            /\ \/ src' \subseteq src
               \/ \E e \in Executions : state[e] = "absent" /\ src' = src \cup {e}
        BY <3>6 DEF CrashInTransaction
      <4> QED
        BY <4>1 DEF SourceDiscarded
    <3> QED
      BY <2>4, <3>1, <3>2, <3>3, <3>4, <3>5, <3>6
         DEF LoopStep, RoutineStep, storeVars, StartAgain, Submit, ReconcileRow, ForceRow,
             RoutineMark, MarkOutputIncomplete, RoutineRead, RoutineFinalize, FinalizeOutput,
             RoutineRaises, Boot, Resume, ForceStop, ForceDone, StopWhenIdle, CloseCoordinator,
             Exit, Crash
  <2> QED
    BY <2>2, <2>3, <2>4 DEF Next
<1> QED
  BY <1>1, <1>2, TypeCorrect, PTL DEF Spec

-----------------------------------------------------------------------------
(***************************************************************************)
(* Scheduling.  Which row the worker may hold at each place of its program *)
(* (InPlace), which rows wait in its queue (Queue), that no other unsettled *)
(* row exists while the controller serves (Owned), and that the routine a  *)
(* new process runs first leaves disconnected rows only (Reconciled).      *)
(***************************************************************************)
\* The row in hand is in one of these states, or somebody else settled it.
RowIn(S) == state[cur] \in S \cup TerminalStates

\* What _ambiguous_interrupt leaves behind.
LeftBehind(e) == state[e] = "dispatching" /\ ev[e].intent = "interrupted"

Observing == IF proof.confirmed THEN {"running", "disconnected"} ELSE {"dispatching"}

RowInHand ==
  /\ pc \in {"idle", "exited", "dead"} =>
       cur = None /\ mode = "run" /\ handler = "none" /\ ~proof.confirmed
  /\ pc \in {"read", "source", "begin"} => mode = "run"
  /\ pc \in {"read", "source", "connect", "register", "begin"} /\ mode = "run" =>
       RowIn({"queued"}) /\ ~proof.confirmed
  /\ pc = "send" => mode = "run" /\ RowIn({"dispatching"}) /\ ~proof.confirmed
  /\ pc = "confirm" => mode = "run" /\ RowIn({"dispatching"}) /\ proof.confirmed
  /\ pc \in {"loop", "event", "expire", "append", "evidence"} /\ mode = "run" =>
       RowIn(Observing)
  /\ pc = "expire" => proof.confirmed
  /\ pc = "info" => mode = "recover"
  /\ mode = "recover" \/ pc \in {"recover", "reread", "recheck"} => RowIn({"disconnected"})

\* The row an error path was started on.
Failing ==
  /\ handler \in {"recovery", "swap", "retry"} => mode = "recover"
  /\ pc = "handle" =>
       /\ handler \notin {"none", "retry"}
       /\ handler = "dispatch" => RowIn({"queued", "dispatching"})
       /\ handler = "lost" => RowIn(Observing)
  /\ pc \in {"mark", "disconnect", "reread"} => handler \notin {"none", "dispatch", "retry"}
  /\ pc = "mark" /\ handler = "lost" => RowIn({"running", "disconnected"})
  /\ pc = "reread" => handler # "lost"
  /\ pc \in {"handle", "mark"} /\ handler = "interrupt" =>
       RowIn({"running", "disconnected"}) \/ LeftBehind(cur)
  /\ pc \in {"finalize", "commit"} => target \in TerminalStates
  /\ pc = "drop" =>
       /\ handler # "none"
       /\ handler = "lost" => RowIn({"disconnected"})
       /\ handler \notin {"lost", "retry"} => RowIn({}) \/ LeftBehind(cur)

InPlace == RowInHand /\ Failing /\ (pc = "exited" => stop)

\* An item waits for a row in the state it was queued for.
Queue ==
  \A i \in DOMAIN fifo :
    /\ fifo[i].kind = "execute" => state[fifo[i].exec] \in {"queued"} \cup TerminalStates
    /\ fifo[i].kind = "recover" => state[fifo[i].exec] \in {"disconnected"} \cup TerminalStates
    /\ fifo[i].kind = "stop" => stop

Owned ==
  lpc \in {"ready", "submit", "force"} /\ ~stop /\ pc # "dead" =>
    \A e \in Active \cup Queued :
      \/ e \in Scheduled
      \/ LeftBehind(e)
      \/ lpc = "submit" /\ e = work /\ state[e] = "queued"
      \/ state[e] = "queued" /\ refusal[e] = "standing"

\* A timeout is recorded for a confirmed dispatch.
Intended ==
  \A e \in Executions :
    ev[e].intent = "timed_out" => state[e] \notin {"absent", "queued", "dispatching"}

\* A new process reconciles alone, and every transition it tries is allowed.
Reconciled ==
  /\ lpc \in {"down", "reconcile"} => pc = "idle" /\ fifo = <<>> /\ ~stop
  /\ lpc = "reconcile" =>
       /\ \A e \in Active : state[e] = "disconnected" \/ e \in todo
       /\ todo \subseteq Active
       /\ step \in {"mark", "read"} => goal = "unknown"
       /\ step = "disconnect" => state[work] = "running" /\ goal = "unknown"
       /\ step \in {"finalize", "commit"} =>
            goal \in AllowedTransitions[state[work]] \cap TerminalStates
       /\ step = "commit" => ev[work].finalized

ScheduleInv == InPlace /\ Queue /\ Owned /\ Intended /\ Reconciled /\ ScheduledOnce

-----------------------------------------------------------------------------
\* The worker without an item is in place.
LEMMA ReleasedInPlace ==
  ASSUME NEW p \in {"idle", "exited", "dead"}, Released(p), p = "exited" => stop'
  PROVE  InPlace'
BY DEF Released, InPlace, RowInHand, Failing, NewProof

\* What a step may do to the row in hand without the worker's knowledge.
RowsMove ==
  \A e \in Executions :
    /\ \/ state'[e] = state[e]
       \/ state'[e] \in TerminalStates
       \/ state[e] = "running" /\ state'[e] = "disconnected"
       \/ state[e] = "absent"
    /\ state[e] \in TerminalStates => state'[e] \in TerminalStates
    /\ LeftBehind(e) => ev'[e].intent = "interrupted"

\* So the worker stays in place.
LEMMA StaysInPlace ==
  ASSUME TypeOK, InPlace, UNCHANGED workerVars, stop => stop', RowsMove
  PROVE  InPlace'
<1>0. pc \notin {"idle", "exited", "dead"} => cur \in Executions
  BY DEF TypeOK, WorkerTypeOK, MemoryTypeOK
<1>1. UNCHANGED <<pc, mode, cur, handler, target, proof>>
  BY DEF workerVars
<1>2. CASE pc \in {"idle", "exited", "dead"}
  BY <1>1, <1>2 DEF InPlace, RowInHand, Failing
<1>3. CASE cur \in Executions
  <2>1. \/ state'[cur] = state[cur]
        \/ state'[cur] \in TerminalStates
        \/ state[cur] = "running" /\ state'[cur] = "disconnected"
        \/ state[cur] = "absent"
    BY <1>3 DEF RowsMove
  <2>2. state[cur] \in TerminalStates => state'[cur] \in TerminalStates
    BY <1>3 DEF RowsMove
  <2>3. LeftBehind(cur) => ev'[cur].intent = "interrupted"
    BY <1>3 DEF RowsMove
  <2>4. "absent" \notin TerminalStates
    BY DEF TerminalStates
  <2>5. \A S \in SUBSET {"queued", "dispatching", "disconnected"} :
          RowIn(S) => state'[cur] \in S \cup TerminalStates
    BY <2>1, <2>2, <2>4 DEF RowIn
  <2>6. RowIn({"running", "disconnected"}) =>
          state'[cur] \in {"running", "disconnected"} \cup TerminalStates
    BY <2>1, <2>2, <2>4 DEF RowIn
  <2>7. Observing' = Observing
    BY <1>1 DEF Observing
  <2>8. RowIn(Observing) => RowIn(Observing)'
    BY <1>1, <2>5, <2>6, <2>7 DEF RowIn, Observing
  <2>9. LeftBehind(cur) => LeftBehind(cur)' \/ RowIn({})'
    BY <1>1, <2>1, <2>3, <2>4 DEF RowIn, LeftBehind
  <2>10. RowInHand'
    BY <1>1, <2>5, <2>6, <2>8 DEF InPlace, RowInHand, RowIn
  <2>11. Failing'
    BY <1>1, <2>5, <2>6, <2>8, <2>9 DEF InPlace, Failing, RowIn
  <2> QED
    BY <1>1, <2>10, <2>11 DEF InPlace
<1> QED
  BY <1>0, <1>2, <1>3

\* What a worker step does beside moving: it leaves other rows alone, and lets
\* go of its own only when it is settled or left behind.
OthersKept == \A e \in Executions \ {cur} : state'[e] = state[e] /\ ev'[e] = ev[e]
LetsGo ==
  \/ cur' = cur
  \/ cur' = None /\ \/ pc' = "dead"
                    \/ stop /\ state'[cur] # "queued"
                    \/ state'[cur] \in {"absent"} \cup TerminalStates
                    \/ state'[cur] = "dispatching" /\ ev'[cur].intent = "interrupted"

\* Every step on an item in hand.
LEMMA WorkerStaysInPlace ==
  ASSUME TypeOK, InPlace, Intended, Worker, pc # "idle"
  PROVE  InPlace' /\ OthersKept /\ LetsGo /\ Intended'
<1> DEFINE Goal == InPlace' /\ OthersKept /\ LetsGo /\ Intended'
<1>t. StoreTypeOK /\ MemoryTypeOK
  BY DEF TypeOK, WorkerTypeOK
<1>0. /\ cur \in Executions
      /\ state \in [Executions -> ExecStates] /\ ev \in [Executions -> Evidence]
      /\ ev[cur] \in Evidence /\ pc \notin {"idle", "exited", "dead"}
  <2>1. pc \notin {"idle", "exited", "dead"}
    BY DEF Worker, TakeItem, ReadRow, ReadSource, ConnectForRun, RegisterConnection,
       BeginDispatchStep,
       Send, Loop, Expire, NextEvent, ConfirmStep, AppendStep, EvidenceStep, RecoverRead,
       ConnectForRecovery,
       SendBoundary, HandleStep, MarkStep, DisconnectStep, RereadStep, FinalizeStep,
       CommitStep, DropStep, RecheckStep
  <2> QED
    BY <1>t, <2>1 DEF MemoryTypeOK, StoreTypeOK
<1>i. /\ RowInHand /\ Failing
  BY DEF InPlace
<1>s. UNCHANGED storeVars => OthersKept /\ Intended' /\ UNCHANGED <<state, ev>>
  BY DEF storeVars, OthersKept, Intended
<1>r. ASSUME UNCHANGED storeVars, NEW p \in {"idle", "dead"}, Released(p),
             \/ p = "dead" \/ (stop /\ state[cur] # "queued")
             \/ state[cur] \in {"absent"} \cup TerminalStates \/ LeftBehind(cur)
      PROVE  Goal
  BY <1>s, <1>r, ReleasedInPlace DEF LetsGo, Released, LeftBehind
<1>e. ASSUME UNCHANGED storeVars, Raise
      PROVE  Goal
  <2>1. CASE handler = "worker"
    BY <1>e, <1>r, <2>1 DEF Raise
  <2>2. CASE handler # "worker"
    <3>1. cur' = cur /\ UNCHANGED <<state, mode>> /\ handler' = "worker" /\ pc' = "handle"
      BY <1>e, <1>s, <2>2 DEF Raise, Handle
    <3>2. InPlace'
      BY <1>0, <1>i, <3>1 DEF InPlace, RowInHand, Failing, RowIn
    <3> QED
      BY <1>e, <1>s, <3>1, <3>2 DEF LetsGo
  <2> QED
    BY <2>1, <2>2
<1>2. CASE ReadRow
  <2>1. UNCHANGED storeVars
    BY <1>2 DEF ReadRow
  <2>2. CASE Released("idle") /\ state[cur] # "queued"
    BY <1>2, <1>i, <1>r, <2>1, <2>2 DEF ReadRow, RowInHand, RowIn
  <2>3. CASE Finalizing("interrupted")
    BY <1>0, <1>2, <1>i, <1>s, <2>1, <2>3 DEF Finalizing, ReadRow, InPlace, RowInHand,
       Failing, RowIn, LetsGo, TerminalStates
  <2>4. CASE pc' = "source" /\ UNCHANGED <<mode, cur, handler, target, proof, probe, msg, asked>>
    BY <1>0, <1>2, <1>i, <1>s, <2>1, <2>4 DEF ReadRow, InPlace, RowInHand, Failing, RowIn, LetsGo
  <2> QED
    BY <1>2, <2>2, <2>3, <2>4 DEF ReadRow
<1>3. CASE ReadSource
  <2>1. UNCHANGED storeVars
    BY <1>3 DEF ReadSource
  <2>2. CASE Go("connect")
    BY <1>0, <1>3, <1>i, <1>s, <2>1, <2>2 DEF Go, ReadSource, InPlace, RowInHand, Failing,
       RowIn, LetsGo
  <2> QED
    BY <1>3, <1>e, <2>1, <2>2 DEF ReadSource
<1>4. CASE ConnectForRun
  <2>1. UNCHANGED storeVars
    BY <1>4 DEF ConnectForRun
  <2>2. CASE Go("begin") \/ Go("register") \/ Handle("dispatch")
    BY <1>0, <1>4, <1>i, <1>s, <2>1, <2>2 DEF Go, Handle, ConnectForRun, InPlace, RowInHand,
       Failing, RowIn, LetsGo
  <2> QED
    BY <1>4, <2>2 DEF ConnectForRun
<1>5. CASE RegisterConnection
  <2>1. UNCHANGED storeVars
    BY <1>5 DEF RegisterConnection
  <2>2. /\ mode = "run" => Go("begin") \/ Handle("dispatch")
        /\ mode # "run" => Go("info") \/ Handle("swap") \/ Go("recover")
    BY <1>5 DEF RegisterConnection, SameKernel
  <2>3. mode \in {"run", "recover"}
    BY <1>t DEF MemoryTypeOK
  <2> QED
    BY <1>0, <1>5, <1>i, <1>s, <2>1, <2>2, <2>3 DEF Go, Handle, RegisterConnection, InPlace,
       RowInHand, Failing, RowIn, LetsGo
<1>6. CASE BeginDispatchStep
  <2>1. CASE UNCHANGED storeVars /\ Handle("dispatch")
    BY <1>0, <1>6, <1>i, <1>s, <2>1 DEF Handle, BeginDispatchStep, InPlace, RowInHand,
       Failing, RowIn, LetsGo
  <2>2. CASE CanBeginDispatch(cur) /\ BeginDispatch(cur, seen, peer) /\ Go("send")
    <3>1. /\ state' = [state EXCEPT ![cur] = "dispatching"] /\ state[cur] = "queued"
          /\ ev'[cur].intent = ev[cur].intent /\ \A e \in Executions \ {cur} : ev'[e] = ev[e]
      BY <1>0, <2>2 DEF BeginDispatch, CanBeginDispatch, Evidence
    <3>2. OthersKept /\ Intended'
      BY <1>0, <3>1 DEF OthersKept, Intended
    <3>3. InPlace' /\ LetsGo
      BY <1>0, <1>6, <1>i, <2>2, <3>1 DEF Go, BeginDispatchStep, InPlace, RowInHand, Failing,
         RowIn, LetsGo
    <3> QED
      BY <3>2, <3>3
  <2> QED
    BY <1>6, <2>1, <2>2 DEF BeginDispatchStep
<1>7. CASE Send
  <2>1. UNCHANGED storeVars /\ (Go("loop") \/ Handle("dispatch"))
    BY <1>7 DEF Send
  <2>2. RowIn({"dispatching"}) /\ mode = "run" /\ ~proof.confirmed
    BY <1>7, <1>i DEF Send, RowInHand
  <2> QED
    BY <1>0, <1>7, <1>i, <1>s, <2>1, <2>2 DEF Go, Handle, Send, InPlace, RowInHand, Failing,
       RowIn, Observing, LetsGo
<1>x. RowIn(Observing) =>
        state[cur] \in {"running", "disconnected", "dispatching"} \cup TerminalStates
  BY DEF RowIn, Observing
<1>n. ASSUME NEW intent, intent # "none", pc \in {"loop", "expire"}, Interrupting(intent),
             UNCHANGED state, cur \in Executions,
             \A e \in Executions \ {cur} : ev'[e] = ev[e],
             mode = "run" /\ ~proof.confirmed => ev'[cur].intent = "interrupted"
      PROVE  InPlace' /\ LetsGo /\ OthersKept
  <2>0. OthersKept
    BY <1>n DEF OthersKept
  <2>1. CASE Handle("interrupt")
    <3>1. /\ cur' = cur /\ UNCHANGED <<mode, proof>> /\ handler' = "interrupt" /\ pc' = "handle"
      BY <2>1 DEF Handle
    <3>2. RowIn({"running", "disconnected"})' \/ LeftBehind(cur)'
      <4>1. CASE mode = "run"
        BY <1>i, <1>n, <3>1, <4>1 DEF RowInHand, RowIn, Observing, LeftBehind
      <4>2. CASE mode # "run"
        <5>1. mode = "recover"
          BY <1>t, <4>2 DEF MemoryTypeOK
        <5> QED
          BY <1>i, <1>n, <3>1, <5>1 DEF RowInHand, RowIn
      <4> QED
        BY <4>1, <4>2
    <3>3. InPlace'
      BY <1>i, <1>n, <3>1, <3>2 DEF InPlace, RowInHand, Failing, RowIn
    <3> QED
      BY <2>0, <3>1, <3>3 DEF LetsGo
  <2>2. CASE pc' = "event"
    <3>1. /\ cur' = cur /\ UNCHANGED <<mode, handler>> /\ proof'.confirmed = proof.confirmed
      BY <1>t, <1>n, <2>2 DEF Interrupting, Handle, MemoryTypeOK, Proofs
    <3>2. InPlace'
      BY <1>i, <1>n, <2>2, <3>1 DEF InPlace, RowInHand, Failing, RowIn, Observing
    <3> QED
      BY <2>0, <3>1, <3>2 DEF LetsGo
  <2> QED
    BY <1>n, <2>1, <2>2 DEF Interrupting
<1>8. CASE Loop
  <2>1. UNCHANGED storeVars /\ pc = "loop"
    BY <1>8 DEF Loop
  <2>2. CASE stop \/ ~StillMine
    <3>1. Released("idle")
      BY <1>8, <2>2 DEF Loop
    <3>q. state[cur] # "queued"
      <4>1. mode \in {"run", "recover"}
        BY <1>t DEF MemoryTypeOK
      <4>2. RowIn(Observing) \/ RowIn({"disconnected"})
        BY <1>i, <2>1, <4>1 DEF RowInHand
      <4> QED
        BY <4>2 DEF RowIn, Observing, TerminalStates
    <3>2. stop \/ state[cur] \in {"absent"} \cup TerminalStates
      <4>1. CASE mode = "run"
        BY <2>2, <4>1 DEF StillMine
      <4>2. CASE mode # "run"
        <5>1. mode = "recover"
          BY <1>t, <4>2 DEF MemoryTypeOK
        <5> QED
          BY <1>i, <2>2, <5>1 DEF StillMine, RowInHand, RowIn
      <4> QED
        BY <4>1, <4>2
    <3> QED
      BY <1>r, <2>1, <3>1, <3>2, <3>q
  <2>3. CASE ev[cur].intent # "none" /\ Interrupting(ev[cur].intent) /\ ~(stop \/ ~StillMine)
    <3>1. mode = "run" /\ ~proof.confirmed => ev[cur].intent = "interrupted"
      <4> SUFFICES ASSUME mode = "run", ~proof.confirmed PROVE ev[cur].intent = "interrupted"
        OBVIOUS
      <4>1. state[cur] = "dispatching"
        BY <1>i, <2>1, <2>3 DEF RowInHand, RowIn, Observing, StillMine
      <4>2. ev[cur].intent # "timed_out"
        BY <1>0, <4>1 DEF Intended
      <4> QED
        BY <1>0, <2>3, <4>2 DEF Evidence, Intents
    <3> QED
      BY <1>0, <1>n, <1>s, <2>1, <2>3, <3>1
  <2>4. CASE Go("event")
    BY <1>i, <1>s, <2>1, <2>4 DEF Go, InPlace, RowInHand, Failing, RowIn, Observing, LetsGo
  <2>5. CASE Go("expire") /\ proof.confirmed
    BY <1>i, <1>s, <2>1, <2>5 DEF Go, InPlace, RowInHand, Failing, RowIn, Observing, LetsGo
  <2> QED
    BY <1>8, <2>2, <2>3, <2>4, <2>5 DEF Loop
<1>9. CASE Expire
  <2>1. /\ UNCHANGED state /\ \A e \in Executions \ {cur} : ev'[e] = ev[e]
        /\ pc = "expire" /\ proof.confirmed
        /\ ev'[cur].intent = IF state[cur] \in {"running", "disconnected"}
                             THEN "timed_out" ELSE ev[cur].intent
    BY <1>0, <1>9, <1>i DEF Expire, RequestTimeout, RowInHand, Evidence
  <2>2. Intended' /\ OthersKept
    BY <1>0, <2>1 DEF Intended, OthersKept
  <2>3. CASE Go("event")
    BY <1>i, <2>1, <2>2, <2>3 DEF Go, InPlace, RowInHand, Failing, RowIn, Observing, LetsGo
  <2>4. CASE \E intent : intent # "none" /\ Interrupting(intent)
    BY <1>0, <1>n, <2>1, <2>2, <2>4
  <2> QED
    BY <1>9, <2>3, <2>4 DEF Expire
<1>10. CASE NextEvent
  <2>1. UNCHANGED storeVars /\ pc = "event"
    BY <1>10 DEF NextEvent
  <2>2. ASSUME NEW m, ObserveExecution(m) PROVE Goal
    <3>1. /\ cur' = cur /\ UNCHANGED <<mode, handler>> /\ proof'.confirmed
          /\ pc' \in {"confirm", "append", "evidence", "loop"}
          /\ pc' = "confirm" <=> mode = "run" /\ ~proof.confirmed
      BY <1>t, <2>2 DEF ObserveExecution, AfterConfirm, MemoryTypeOK, Proofs
    <3>2. mode = "run" => RowIn(Observing)
      BY <1>i, <2>1 DEF RowInHand
    <3>3. InPlace'
      BY <1>i, <1>s, <2>1, <3>1, <3>2 DEF InPlace, RowInHand, Failing, RowIn, Observing
    <3> QED
      BY <1>s, <2>1, <3>1, <3>3 DEF LetsGo
  <2>3. ASSUME NEW m, ObserveBoundary(m) PROVE Goal
    BY <1>i, <1>s, <2>1, <2>3 DEF ObserveBoundary, InPlace, RowInHand, Failing, RowIn,
       Observing, LetsGo
  <2>4. CASE Go("loop")
    BY <1>i, <1>s, <2>1, <2>4 DEF Go, InPlace, RowInHand, Failing, RowIn, Observing, LetsGo
  <2>5. CASE mode = "run" /\ Handle("lost")
    BY <1>i, <1>s, <2>1, <2>5 DEF Handle, InPlace, RowInHand, Failing, RowIn, Observing, LetsGo
  <2>6. CASE mode # "run" /\ pc' = "drop" /\ handler' = "retry" /\ UNCHANGED <<mode, cur, proof>>
    <3>1. mode = "recover"
      BY <1>t, <2>6 DEF MemoryTypeOK
    <3> QED
      BY <1>i, <1>s, <2>1, <2>6, <3>1 DEF InPlace, RowInHand, Failing, RowIn, Observing, LetsGo
  <2> QED
    BY <1>10, <2>2, <2>3, <2>4, <2>5, <2>6 DEF NextEvent, Unmatched
<1>11. CASE ConfirmStep
  <2>1. CASE UNCHANGED storeVars /\ Raise
    BY <1>e, <2>1
  <2>2. CASE CanConfirmDispatch(cur) /\ ConfirmDispatch(cur) /\ Go(AfterConfirm(msg.kind))
    <3>1. /\ state' = [state EXCEPT ![cur] = "running"] /\ state[cur] = "dispatching"
          /\ ev'[cur].intent = ev[cur].intent /\ \A e \in Executions \ {cur} : ev'[e] = ev[e]
      BY <1>0, <2>2 DEF ConfirmDispatch, CanConfirmDispatch, Evidence
    <3>2. OthersKept /\ Intended'
      BY <1>0, <3>1 DEF OthersKept, Intended
    <3>3. mode = "run" /\ proof.confirmed
      BY <1>11, <1>i DEF ConfirmStep, RowInHand
    <3>4. pc' \in {"append", "evidence", "loop"} /\ UNCHANGED <<cur, mode, handler, proof>>
      BY <2>2 DEF Go, AfterConfirm
    <3>5. InPlace' /\ LetsGo
      BY <1>0, <1>i, <3>1, <3>3, <3>4 DEF InPlace, RowInHand, Failing, RowIn, Observing, LetsGo
    <3> QED
      BY <3>2, <3>5
  <2> QED
    BY <1>11, <2>1, <2>2 DEF ConfirmStep
<1>p. ASSUME UNCHANGED state, \A e \in Executions \ {cur} : ev'[e] = ev[e],
             ev'[cur].intent = ev[cur].intent
      PROVE  OthersKept /\ Intended'
  BY <1>p DEF OthersKept, Intended
<1>12. CASE AppendStep
  <2>1. CASE UNCHANGED storeVars /\ Raise
    BY <1>e, <2>1
  <2>2. CASE AppendOutput(cur) /\ Go("loop")
    <3>1. /\ UNCHANGED state /\ ev'[cur].intent = ev[cur].intent
          /\ \A e \in Executions \ {cur} : ev'[e] = ev[e]
      BY <1>0, <2>2 DEF AppendOutput, Evidence
    <3>2. InPlace' /\ LetsGo
      BY <1>12, <1>i, <2>2, <3>1 DEF AppendStep, Go, InPlace, RowInHand, Failing, RowIn,
         Observing, LetsGo
    <3> QED
      BY <1>p, <3>1, <3>2
  <2> QED
    BY <1>12, <2>1, <2>2 DEF AppendStep
<1>13. CASE EvidenceStep
  <2>1. CASE UNCHANGED storeVars /\ Raise
    BY <1>e, <2>1
  <2>2. CASE /\ \E r, i : RecordEvidence(cur, r, i)
             /\ \/ Go("loop")
                \/ Finalizing(TerminalState(proof.reply, proof.idle, proof.want))
                   /\ TerminalState(proof.reply, proof.idle, proof.want) # "none"
    <3>1. /\ UNCHANGED state /\ ev'[cur].intent = ev[cur].intent
          /\ \A e \in Executions \ {cur} : ev'[e] = ev[e]
      BY <1>0, <2>2 DEF RecordEvidence, Evidence
    <3>2. TerminalState(proof.reply, proof.idle, proof.want) \in TerminalStates \cup {"none"}
      BY <1>t, TerminalStateType DEF MemoryTypeOK, Proofs
    <3>3. CASE Go("loop")
      BY <1>13, <1>i, <1>p, <3>1, <3>3 DEF EvidenceStep, Go, InPlace, RowInHand, Failing,
         RowIn, Observing, LetsGo
    <3>4. CASE \E t \in TerminalStates : Finalizing(t)
      BY <1>13, <1>i, <1>p, <3>1, <3>4 DEF EvidenceStep, Finalizing, InPlace, RowInHand,
         Failing, RowIn, Observing, LetsGo
    <3> QED
      BY <2>2, <3>2, <3>3, <3>4
  <2> QED
    BY <1>13, <2>1, <2>2 DEF EvidenceStep
<1>14. CASE RecoverRead
  <2>1. UNCHANGED storeVars
    BY <1>14 DEF RecoverRead
  <2>2. CASE Released("idle") /\ (stop \/ state[cur] # "disconnected")
    <3>1. state[cur] \in {"disconnected"} \cup TerminalStates
      BY <1>14, <1>i DEF RecoverRead, RowInHand, RowIn
    <3> QED
      BY <1>r, <2>1, <2>2, <3>1 DEF TerminalStates
  <2>3. CASE /\ state[cur] = "disconnected" /\ mode' = "recover" /\ cur' = cur
             /\ \/ pc' = "handle" /\ handler' = "recovery"
                \/ pc' = "connect" /\ handler' = "none"
    BY <1>s, <2>1, <2>3 DEF InPlace, RowInHand, Failing, RowIn, LetsGo
  <2> QED
    BY <1>14, <2>2, <2>3 DEF RecoverRead
<1>15. CASE ConnectForRecovery
  <2>1. UNCHANGED storeVars /\ pc = "connect" /\ mode = "recover"
    BY <1>15 DEF ConnectForRecovery
  <2>2. CASE Go("info") \/ Go("register") \/ Go("recover") \/ Handle("swap")
    BY <1>i, <1>s, <2>1, <2>2 DEF Go, Handle, InPlace, RowInHand, Failing, RowIn, LetsGo
  <2> QED
    BY <1>15, <2>2 DEF ConnectForRecovery, SameKernel
<1>16. CASE SendBoundary
  <2>1. /\ UNCHANGED storeVars /\ pc = "info" /\ mode = "recover" /\ UNCHANGED <<mode, cur, proof>>
        /\ \/ pc' = "loop" /\ handler' = handler
           \/ pc' = "drop" /\ handler' = "retry"
    BY <1>16, <1>i DEF SendBoundary, RowInHand
  <2> QED
    BY <1>i, <1>s, <2>1 DEF InPlace, RowInHand, Failing, RowIn, LetsGo
<1>17. CASE HandleStep
  <2>1. UNCHANGED storeVars /\ pc = "handle"
    BY <1>17 DEF HandleStep
  <2>2. CASE handler = "dispatch"
    <3>1. \/ Finalizing("interrupted") \/ Finalizing("unknown")
          \/ Go("drop") /\ state[cur] \notin {"queued", "dispatching"}
      BY <1>17, <2>2 DEF HandleStep
    <3> QED
      BY <1>i, <1>s, <2>1, <2>2, <3>1
      DEF Finalizing, Go, InPlace, RowInHand, Failing, RowIn, LetsGo, TerminalStates
  <2>3. CASE handler = "lost"
    <3>1. \/ /\ proof.confirmed /\ pc' = "mark" /\ UNCHANGED <<mode, cur, handler, proof>>
          \/ ~proof.confirmed /\ Finalizing("unknown")
          \/ ~proof.confirmed /\ state[cur] # "dispatching" /\ Go("drop")
      BY <1>17, <2>3 DEF HandleStep
    <3> QED
      BY <1>i, <1>s, <2>1, <2>3, <3>1
      DEF Finalizing, Go, InPlace, RowInHand, Failing, RowIn, Observing, LetsGo, TerminalStates
  <2>4. CASE handler = "interrupt"
    <3>1. pc' = "mark" /\ UNCHANGED <<mode, cur, handler, proof>>
      BY <1>17, <2>4 DEF HandleStep
    <3> QED
      BY <1>i, <1>s, <2>1, <2>4, <3>1 DEF InPlace, RowInHand, Failing, RowIn, LeftBehind, LetsGo
  <2>5. CASE handler \in {"recovery", "swap"}
    <3>1. \/ pc' = "mark" /\ UNCHANGED <<mode, cur, handler, proof>>
          \/ state[cur] # "disconnected" /\ (Go("drop") \/ Released("idle"))
      BY <1>17, <2>5 DEF HandleStep
    <3>2. RowIn({"disconnected"}) /\ mode = "recover"
      BY <1>i, <2>5 DEF RowInHand, Failing
    <3>3. CASE Released("idle") /\ state[cur] # "disconnected"
      BY <1>r, <2>1, <3>2, <3>3 DEF RowIn
    <3> QED
      BY <1>i, <1>s, <2>1, <2>5, <3>1, <3>2, <3>3
      DEF Go, InPlace, RowInHand, Failing, RowIn, LetsGo
  <2>6. CASE handler \in {"none", "retry", "worker"}
    <3>1. \/ Released("idle") /\ state[cur] \in {"absent"} \cup TerminalStates
          \/ Finalizing("interrupted") \/ Finalizing("unknown")
          \/ /\ pc' = "mark" /\ UNCHANGED <<mode, cur, handler, proof>>
      BY <1>17, <2>6 DEF HandleStep
    <3>2. handler = "worker"
      BY <1>i, <2>1, <2>6 DEF Failing
    <3>3. CASE Released("idle") /\ state[cur] \in {"absent"} \cup TerminalStates
      BY <1>r, <2>1, <3>3
    <3> QED
      BY <1>i, <1>s, <2>1, <3>1, <3>2, <3>3
      DEF Finalizing, InPlace, RowInHand, Failing, RowIn, LetsGo, TerminalStates
  <2> QED
    BY <1>t, <2>2, <2>3, <2>4, <2>5, <2>6 DEF MemoryTypeOK, Handlers
<1>18. CASE MarkStep
  <2>1. /\ pc = "mark" /\ UNCHANGED state /\ ev'[cur].intent = ev[cur].intent
        /\ \A e \in Executions \ {cur} : ev'[e] = ev[e]
    BY <1>0, <1>18 DEF MarkStep, MarkOutputIncomplete, Evidence
  <2>2. \/ Go("disconnect") /\ (handler \in {"lost", "interrupt"} => state[cur] = "running")
        \/ Finalizing("unknown")
        \/ /\ Go("drop") /\ handler \notin {"recovery", "swap", "worker"}
           /\ handler = "lost" => state[cur] # "running"
           /\ handler = "interrupt" => state[cur] \notin {"running", "disconnected"}
    BY <1>18 DEF MarkStep
  <2>3. CASE Go("disconnect") \/ Finalizing("unknown")
    BY <1>i, <1>p, <2>1, <2>3
    DEF Finalizing, Go, InPlace, RowInHand, Failing, RowIn, LetsGo, TerminalStates
  <2>4. CASE /\ Go("drop") /\ handler \notin {"recovery", "swap", "worker"}
             /\ handler = "lost" => state[cur] # "running"
             /\ handler = "interrupt" => state[cur] \notin {"running", "disconnected"}
    <3>1. handler \in {"lost", "interrupt"}
      BY <1>i, <1>t, <2>1, <2>4 DEF Failing, MemoryTypeOK, Handlers
    <3>2. handler = "lost" => RowIn({"disconnected"})
      BY <1>i, <2>1, <2>4 DEF Failing, RowIn
    <3>3. handler = "interrupt" => RowIn({}) \/ LeftBehind(cur)
      BY <1>i, <2>1, <2>4 DEF Failing, RowIn
    <3> QED
      BY <1>i, <1>p, <2>1, <2>4, <3>1, <3>2, <3>3
      DEF Go, InPlace, RowInHand, Failing, RowIn, LeftBehind, LetsGo
  <2> QED
    BY <2>2, <2>3, <2>4
<1>19. CASE DisconnectStep
  <2>1. CASE UNCHANGED storeVars /\ Raise
    BY <1>e, <2>1
  <2>2. CASE /\ CanTransition(cur, "disconnected") /\ TransitionExecution(cur, "disconnected")
             /\ Go(IF handler = "lost" THEN "drop" ELSE "reread")
    <3>1. state' = [state EXCEPT ![cur] = "disconnected"] /\ UNCHANGED ev /\ state[cur] = "running"
      BY <1>0, <2>2 DEF TransitionExecution, CanTransition, AllowedTransitions, ExecStates,
         TerminalStates
    <3>2. OthersKept /\ Intended'
      BY <1>0, <3>1 DEF OthersKept, Intended
    <3>3. InPlace' /\ LetsGo
      BY <1>0, <1>19, <1>i, <2>2, <3>1 DEF DisconnectStep, Go, InPlace, RowInHand, Failing,
         RowIn, LetsGo
    <3> QED
      BY <3>2, <3>3
  <2> QED
    BY <1>19, <2>1, <2>2 DEF DisconnectStep
<1>20. CASE RereadStep
  <2>1. UNCHANGED storeVars /\ pc = "reread"
    BY <1>20 DEF RereadStep
  <2>2. \/ Finalizing("unknown")
        \/ Go("drop") /\ RowIn({}) /\ handler \notin {"none", "lost", "retry"}
    BY <1>20, <1>i DEF RereadStep, RowInHand, Failing, RowIn
  <2> QED
    BY <1>i, <1>s, <2>1, <2>2 DEF Go, Finalizing, InPlace, RowInHand, Failing, RowIn, LetsGo,
       TerminalStates
<1>21. CASE FinalizeStep
  <2>1. CASE CanFinalizeOutput(cur)
    <3>1. /\ pc = "finalize" /\ UNCHANGED state /\ ev'[cur].intent = ev[cur].intent
          /\ Go("commit") /\ \A e \in Executions \ {cur} : ev'[e] = ev[e]
      BY <1>0, <1>21, <2>1 DEF FinalizeStep, FinalizeOutput, Evidence
    <3> QED
      BY <1>i, <1>p, <3>1 DEF Go, InPlace, RowInHand, Failing, RowIn, LetsGo
  <2>2. CASE ~CanFinalizeOutput(cur)
    BY <1>e, <1>21, <2>2 DEF FinalizeStep
  <2> QED
    BY <2>1, <2>2
<1>22. CASE CommitStep
  <2>1. CASE UNCHANGED storeVars /\ Raise
    BY <1>e, <2>1
  <2>2. CASE /\ CanTransition(cur, target) /\ TransitionExecution(cur, target)
             /\ \/ Released("idle")
                \/ Go("drop") /\ handler # "none"
    <3>1. state' = [state EXCEPT ![cur] = target] /\ UNCHANGED ev /\ target \in TerminalStates
      BY <1>0, <1>22, <1>i, <2>2 DEF CommitStep, TransitionExecution, Failing
    <3>2. OthersKept /\ Intended'
      BY <1>0, <3>1 DEF OthersKept, Intended, TerminalStates
    <3>3. state'[cur] \in TerminalStates
      BY <1>0, <3>1
    <3>4. CASE Released("idle")
      BY <3>2, <3>3, <3>4, ReleasedInPlace DEF Released, LetsGo
    <3>5. CASE Go("drop") /\ handler # "none"
      BY <1>22, <1>i, <3>2, <3>3, <3>5 DEF CommitStep, Go, InPlace, RowInHand, Failing, RowIn,
         LetsGo
    <3> QED
      BY <2>2, <3>4, <3>5
  <2> QED
    BY <1>22, <2>1, <2>2 DEF CommitStep
<1>23. CASE DropStep
  <2>1. UNCHANGED storeVars /\ pc = "drop"
    BY <1>23 DEF DropStep
  <2>2. CASE \/ handler = "lost" /\ Go("recheck")
             \/ handler = "retry" /\ Go("recover")
    BY <1>i, <1>s, <2>1, <2>2 DEF Go, InPlace, RowInHand, Failing, RowIn, LetsGo
  <2>3. CASE handler \notin {"lost", "retry"} /\ Released("idle")
    BY <1>i, <1>r, <2>1, <2>3 DEF Failing, RowIn
  <2> QED
    BY <1>23, <2>2, <2>3 DEF DropStep
<1>24. CASE RecheckStep
  <2>1. UNCHANGED storeVars /\ pc = "recheck" /\ RowIn({"disconnected"})
    BY <1>24, <1>i DEF RecheckStep, RowInHand
  <2>2. CASE Go("recover")
    BY <1>i, <1>s, <2>1, <2>2 DEF Go, InPlace, RowInHand, Failing, RowIn, LetsGo
  <2>3. CASE Released("idle") /\ state[cur] # "disconnected"
    BY <1>r, <2>1, <2>3 DEF RowIn
  <2> QED
    BY <1>24, <2>2, <2>3 DEF RecheckStep
<1> QED
  BY <1>2, <1>3, <1>4, <1>5, <1>6, <1>7, <1>8, <1>9, <1>10, <1>11, <1>12, <1>13, <1>14, <1>15,
     <1>16, <1>17, <1>18, <1>19, <1>20, <1>21, <1>22, <1>23, <1>24 DEF Worker, TakeItem

\* A step that only the loop or the wire sees leaves the schedule as it is.
LEMMA ScheduleUnseen ==
  ASSUME TypeOK, ScheduleInv, UNCHANGED <<storeVars, workerVars, fifo, stop, loopVars>>
  PROVE  ScheduleInv'
<1>1. UNCHANGED <<state, ev, pc, mode, cur, handler, target, proof, fifo, stop,
                  lpc, todo, work, step, goal, refusal>>
  BY DEF storeVars, workerVars, loopVars
<1>2. InPlace'
  BY <1>1 DEF ScheduleInv, InPlace, RowInHand, Failing, RowIn, LeftBehind, Observing
<1>3. Queue' /\ ScheduledOnce' /\ Intended'
  BY <1>1 DEF ScheduleInv, Queue, ScheduledOnce, Intended
<1>4. Owned'
  BY <1>1 DEF ScheduleInv, Owned, Active, Queued, Scheduled, LeftBehind
<1>5. Reconciled'
  BY <1>1 DEF ScheduleInv, Reconciled, Active
<1> QED
  BY <1>2, <1>3, <1>4, <1>5 DEF ScheduleInv

\* The items of the queue: work on a row, or the end marker.
LEMMA QueueItems ==
  ASSUME TypeOK
  PROVE  \A i \in DOMAIN fifo :
           /\ fifo[i] \in Items
           /\ fifo[i].kind = "stop" <=> fifo[i].exec = None
           /\ fifo[i].kind # "stop" => fifo[i].exec \in Executions
<1>1. fifo \in Seq(Items)
  BY DEF TypeOK, WorkerTypeOK
<1>2. \A i \in DOMAIN fifo : fifo[i] \in Items
  BY <1>1, ElementOfSeq, DOMAIN fifo = 1..Len(fifo)
<1> QED
  BY <1>2, NoneAssumption DEF Items

\* The items wait as long as their rows stay where they are or are settled.
LEMMA QueueStays ==
  ASSUME TypeOK, Queue, fifo' = fifo, stop => stop',
         \A i \in DOMAIN fifo : LET e == fifo[i].exec IN
           e \in Executions => \/ state'[e] \in {state[e]} \cup TerminalStates
                             \/ state[e] \in {"absent", "running"}
  PROVE  Queue'
<1> SUFFICES ASSUME NEW i \in DOMAIN fifo
             PROVE  LET s == state'[fifo[i].exec] IN
                    /\ fifo[i].kind = "execute" => s \in {"queued"} \cup TerminalStates
                    /\ fifo[i].kind = "recover" => s \in {"disconnected"} \cup TerminalStates
                    /\ fifo[i].kind = "stop" => stop'
  BY DEF Queue
<1>1. LET s == state[fifo[i].exec] IN
      /\ fifo[i].kind = "execute" => s \in {"queued"} \cup TerminalStates
      /\ fifo[i].kind = "recover" => s \in {"disconnected"} \cup TerminalStates
      /\ fifo[i].kind = "stop" => stop
  BY DEF Queue
<1>2. fifo[i].kind # "stop" =>
        \/ state'[fifo[i].exec] \in {state[fifo[i].exec]} \cup TerminalStates
        \/ state[fifo[i].exec] \in {"absent", "running"}
  BY QueueItems
<1> QED
  BY <1>1, <1>2 DEF TerminalStates

\* Taking the next item off the queue.
LEMMA TakeKeepsSchedule ==
  ASSUME TypeOK, ScheduleInv, TakeItem, UNCHANGED loopVars
  PROVE  ScheduleInv'
<1> DEFINE item == Head(fifo)
<1>0. /\ pc = "idle" /\ fifo # <<>> /\ fifo' = Tail(fifo) /\ UNCHANGED <<state, ev, stop>>
      /\ UNCHANGED <<lpc, todo, work, step, goal, refusal>>
  BY DEF TakeItem, storeVars, loopVars
<1>1. /\ cur = None /\ mode = "run" /\ handler = "none" /\ ~proof.confirmed
  BY <1>0 DEF ScheduleInv, InPlace, RowInHand
<1>2. /\ fifo \in Seq(Items) /\ Len(fifo) > 0 /\ item = fifo[1] /\ 1 \in DOMAIN fifo
      /\ Len(fifo') = Len(fifo) - 1
      /\ \A i \in DOMAIN fifo' : i + 1 \in DOMAIN fifo /\ fifo'[i] = fifo[i + 1]
      /\ \A i \in DOMAIN fifo \ {1} : i - 1 \in DOMAIN fifo' /\ fifo'[i - 1] = fifo[i]
  <2>1. fifo \in Seq(Items)
    BY DEF TypeOK, WorkerTypeOK
  <2> QED
    BY <1>0, <2>1
<1>3. /\ item.kind = "stop" <=> item.exec = None
      /\ item.kind # "stop" => item.exec \in Executions /\ item.kind \in {"execute", "recover"}
  BY <1>2, QueueItems, NoneAssumption DEF Items
<1>4. /\ item.kind = "execute" => state[item.exec] \in {"queued"} \cup TerminalStates
      /\ item.kind = "recover" => state[item.exec] \in {"disconnected"} \cup TerminalStates
      /\ item.kind = "stop" => stop
  BY <1>2 DEF ScheduleInv, Queue
<1>5. cur' = item.exec
  BY <1>3 DEF TakeItem, Released
<1>6. InPlace'
  <2>1. CASE item.kind = "stop"
    <3>1. Released("exited") /\ stop'
      BY <1>0, <1>4, <2>1 DEF TakeItem
    <3> QED
      BY <3>1, ReleasedInPlace
  <2>2. CASE item.kind = "execute"
    <3>1. pc' = "read" /\ mode' = "run" /\ UNCHANGED <<handler, target, proof>>
      BY <2>2 DEF TakeItem
    <3> QED
      BY <1>0, <1>1, <1>4, <1>5, <2>2, <3>1 DEF InPlace, RowInHand, Failing, RowIn
  <2>3. CASE item.kind = "recover"
    <3>1. pc' = "recover" /\ mode' = "recover" /\ UNCHANGED <<handler, target, proof>>
      BY <2>3 DEF TakeItem
    <3> QED
      BY <1>0, <1>1, <1>4, <1>5, <2>3, <3>1 DEF InPlace, RowInHand, Failing, RowIn
  <2> QED
    BY <1>3, <2>1, <2>2, <2>3
<1>7. Queue' /\ Intended'
  BY <1>0, <1>2 DEF ScheduleInv, Queue, Intended
<1>8. ScheduledOnce'
  <2>1. ASSUME NEW i \in DOMAIN fifo', fifo'[i].exec # None
        PROVE  /\ fifo'[i].exec # cur'
               /\ \A j \in DOMAIN fifo' : fifo'[i].exec = fifo'[j].exec => i = j
    <3>1. i \in Nat \ {0} /\ fifo[i + 1].exec # None /\ i + 1 \in DOMAIN fifo /\ i + 1 # 1
      BY <1>0, <1>2, <2>1
    <3>2. \A j \in DOMAIN fifo : fifo[i + 1].exec = fifo[j].exec => i + 1 = j
      BY <3>1 DEF ScheduleInv, ScheduledOnce
    <3>3. fifo'[i].exec # cur'
      BY <1>2, <1>5, <2>1, <3>1, <3>2
    <3>4. ASSUME NEW j \in DOMAIN fifo', fifo'[i].exec = fifo'[j].exec PROVE i = j
      <4>1. j \in Nat /\ j + 1 \in DOMAIN fifo /\ fifo[i + 1].exec = fifo[j + 1].exec
        BY <1>0, <1>2, <2>1, <3>4
      <4>2. i + 1 = j + 1
        BY <3>2, <4>1
      <4> QED
        BY <3>1, <4>1, <4>2
    <3> QED
      BY <3>3, <3>4
  <2> QED
    BY <2>1 DEF ScheduledOnce
<1>9. Owned'
  <2>1. \A e \in Executions : e \in Scheduled => stop \/ e \in Scheduled'
    <3> SUFFICES ASSUME NEW e \in Executions, e \in Scheduled, ~stop PROVE e \in Scheduled'
      OBVIOUS
    <3>1. PICK i \in DOMAIN fifo : e = fifo[i].exec
      BY <1>1, NoneAssumption DEF Scheduled
    <3>2. CASE i = 1
      BY <1>2, <1>5, <3>1, <3>2 DEF Scheduled
    <3>3. CASE i # 1
      BY <1>2, <3>1, <3>3 DEF Scheduled
    <3> QED
      BY <3>2, <3>3
  <2> QED
    BY <1>0, <2>1 DEF ScheduleInv, Owned, Active, Queued, LeftBehind
<1>10. Reconciled'
  BY <1>0 DEF ScheduleInv, Reconciled
<1> QED
  BY <1>6, <1>7, <1>8, <1>9, <1>10 DEF ScheduleInv

\* A step of the worker keeps the schedule.
LEMMA WorkerKeepsSchedule ==
  ASSUME TypeOK, ScheduleInv, Worker, UNCHANGED loopVars
  PROVE  ScheduleInv'
<1>1. CASE pc = "idle"
  <2>1. TakeItem
    BY <1>1 DEF Worker, ReadRow, ReadSource, ConnectForRun, RegisterConnection, BeginDispatchStep,
       Send, Loop, Expire, NextEvent, ConfirmStep, AppendStep, EvidenceStep, RecoverRead,
       ConnectForRecovery,
       SendBoundary, HandleStep, MarkStep, DisconnectStep, RereadStep, FinalizeStep,
       CommitStep, DropStep, RecheckStep
  <2> QED
    BY <2>1, TakeKeepsSchedule
<1>2. CASE pc # "idle"
  <2>1. /\ UNCHANGED <<fifo, stop>> /\ pc \notin {"idle", "exited", "dead"}
    BY <1>2 DEF Worker, TakeItem, ReadRow, ReadSource, ConnectForRun, RegisterConnection,
       BeginDispatchStep,
       Send, Loop, Expire, NextEvent, ConfirmStep, AppendStep, EvidenceStep, RecoverRead,
       ConnectForRecovery,
       SendBoundary, HandleStep, MarkStep, DisconnectStep, RereadStep, FinalizeStep,
       CommitStep, DropStep, RecheckStep
  <2>2. InPlace' /\ OthersKept /\ LetsGo /\ Intended'
    BY <1>2, WorkerStaysInPlace DEF ScheduleInv
  <2>3. UNCHANGED <<lpc, todo, work, step, goal, refusal>>
    BY DEF loopVars
  <2>4. cur \in Executions
    BY <2>1 DEF TypeOK, WorkerTypeOK, MemoryTypeOK
  <2>5. Queue'
    <3>1. ASSUME NEW i \in DOMAIN fifo, fifo[i].exec \in Executions
          PROVE  state'[fifo[i].exec] = state[fifo[i].exec]
      <4>1. fifo[i].exec \in Executions \ {cur}
        BY <3>1, NoneAssumption DEF ScheduleInv, ScheduledOnce
      <4> QED
        BY <2>2, <4>1 DEF OthersKept
    <3> QED
      BY <2>1, <3>1, QueueStays DEF ScheduleInv
  <2>6. ScheduledOnce'
    BY <2>1, <2>2 DEF ScheduleInv, ScheduledOnce, LetsGo
  <2>7. Owned'
    <3> SUFFICES ASSUME lpc \in {"ready", "submit", "force"}, ~stop, pc' # "dead",
                        NEW e \in Executions, state'[e] \in ActiveStates \cup {"queued"}
                 PROVE  \/ e \in Scheduled'
                        \/ LeftBehind(e)'
                        \/ lpc = "submit" /\ e = work /\ state'[e] = "queued"
                        \/ state'[e] = "queued" /\ refusal[e] = "standing"
      BY <2>1, <2>3 DEF Owned, Active, Queued
    <3>1. CASE e = cur
      BY <2>1, <2>2, <3>1 DEF LetsGo, Scheduled, LeftBehind, TerminalStates, ActiveStates
    <3>2. CASE e # cur
      <4>1. state'[e] = state[e] /\ ev'[e] = ev[e]
        BY <2>2, <3>2 DEF OthersKept
      <4>2. \/ e \in Scheduled
            \/ LeftBehind(e)
            \/ lpc = "submit" /\ e = work /\ state[e] = "queued"
            \/ state[e] = "queued" /\ refusal[e] = "standing"
        BY <2>1, <4>1 DEF ScheduleInv, Owned, Active, Queued
      <4> QED
        BY <2>1, <3>2, <4>1, <4>2 DEF Scheduled, LeftBehind
    <3> QED
      BY <3>1, <3>2
  <2>8. Reconciled'
    BY <1>2, <2>3 DEF ScheduleInv, Reconciled
  <2> QED
    BY <2>2, <2>5, <2>6, <2>7, <2>8 DEF ScheduleInv
<1> QED
  BY <1>1, <1>2

\* A row the loop works on: it is settled, or a running one disconnected.
LEMMA RowsOfTheLoop ==
  ASSUME TypeOK, ScheduleInv, NEW e \in Executions, UNCHANGED <<workerVars, fifo, stop>>,
         \A x \in Executions \ {e} : state'[x] = state[x] /\ ev'[x] = ev[x],
         \/ state'[e] = state[e]
         \/ state'[e] \in TerminalStates
         \/ state[e] = "running" /\ state'[e] = "disconnected",
         state[e] \in TerminalStates => state'[e] \in TerminalStates,
         ev'[e].intent = ev[e].intent \/ ev'[e].intent = "interrupted"
  PROVE  /\ InPlace' /\ Queue' /\ ScheduledOnce' /\ Intended'
         /\ \A x \in Executions : x \in Scheduled => x \in Scheduled'
         /\ \A x \in Executions : LeftBehind(x) /\ state'[x] = state[x] => LeftBehind(x)'
         /\ \A x \in Active' \cup Queued' : x \in Active \cup Queued
<1>0. "absent" \notin TerminalStates /\ "dispatching" \notin TerminalStates
      /\ "queued" \notin TerminalStates
  BY DEF TerminalStates
<1>1. RowsMove
  BY DEF RowsMove, LeftBehind
<1>2. InPlace'
  BY <1>1, StaysInPlace DEF ScheduleInv
<1>3. Queue'
  <2>1. \A x \in Executions : \/ state'[x] \in {state[x]} \cup TerminalStates
                              \/ state[x] \in {"absent", "running"}
    OBVIOUS
  <2> QED
    BY <2>1, QueueStays DEF ScheduleInv
<1>4. ScheduledOnce' /\ \A x \in Executions : x \in Scheduled => x \in Scheduled'
  BY DEF ScheduleInv, ScheduledOnce, Scheduled, workerVars
<1>5. Intended'
  BY <1>0 DEF ScheduleInv, Intended
<1>6. \A x \in Executions : LeftBehind(x) /\ state'[x] = state[x] => LeftBehind(x)'
  BY <1>1 DEF RowsMove, LeftBehind
<1>7. \A x \in Active' \cup Queued' : x \in Active \cup Queued
  BY <1>0 DEF Active, Queued, ActiveStates, TerminalStates
<1> QED
  BY <1>2, <1>3, <1>4, <1>5, <1>6, <1>7

\* A store routine either visits its rows, where an exception ends a forced
\* stop, or ends the process that is starting.
Visits ==
  \/ \E e \in Executions : ReconcileRow(e) \/ ForceRow(e)
  \/ RoutineMark \/ RoutineRead \/ RoutineDisconnect
  \/ RoutineFinalize \/ RoutineCommit
  \/ RoutineRaises /\ lpc = "force"

StartFails == RoutineRaises /\ lpc # "force"

LEMMA RoutineEnds == RoutineStep => Visits \/ StartFails
BY DEF RoutineStep, Visits, StartFails

LEMMA StartFailsEnds ==
  StartFails => ProcessEnds /\ UNCHANGED storeVars /\ faults' = faults
BY DEF StartFails, RoutineRaises

\* What one step of a store routine does to the row it visits.
LEMMA RoutineRow ==
  ASSUME TypeOK, Visits
  PROVE  /\ UNCHANGED <<workerVars, fifo, stop>> /\ lpc \in {"reconcile", "force"}
         /\ \E e \in Executions :
              /\ \A x \in Executions \ {e} : state'[x] = state[x] /\ ev'[x] = ev[x]
              /\ \/ state'[e] = state[e]
                 \/ state'[e] \in TerminalStates
                 \/ state[e] = "running" /\ state'[e] = "disconnected"
              /\ state[e] \in TerminalStates => state'[e] \in TerminalStates
              /\ ev'[e].intent = ev[e].intent
<1>0. /\ step # "pick" => lpc \in {"reconcile", "force"} /\ work \in Executions
      /\ state \in [Executions -> ExecStates] /\ ev \in [Executions -> Evidence]
      /\ goal \in {"none"} \cup TerminalStates
  BY DEF TypeOK, LoopTypeOK, StoreTypeOK
<1>1. UNCHANGED <<workerVars, fifo, stop>>
  BY DEF Visits, ReconcileRow, ForceRow, RoutineMark, RoutineRead, RoutineDisconnect,
         RoutineFinalize, RoutineCommit, RoutineRaises, LoopOnly
<1>2. ASSUME NEW e \in Executions, ReconcileRow(e) \/ ForceRow(e)
      PROVE  lpc \in {"reconcile", "force"} /\ UNCHANGED <<state, ev>>
  BY <1>2 DEF ReconcileRow, ForceRow, storeVars
<1>3. CASE RoutineRead \/ RoutineMark \/ RoutineFinalize
  <2>1. /\ lpc \in {"reconcile", "force"} /\ work \in Executions /\ UNCHANGED state
        /\ \A x \in Executions \ {work} : ev'[x] = ev[x]
        /\ ev'[work].intent = ev[work].intent
    BY <1>0, <1>3 DEF RoutineRead, RoutineMark, RoutineFinalize, MarkOutputIncomplete,
                      FinalizeOutput, Evidence, storeVars
  <2> QED
    BY <1>1, <2>1
<1>4. CASE RoutineDisconnect
  <2>1. CanTransition(work, "disconnected") => state[work] = "running"
    BY <1>0, <1>4 DEF RoutineDisconnect, CanTransition, AllowedTransitions, ExecStates,
       TerminalStates
  <2>2. /\ lpc \in {"reconcile", "force"} /\ work \in Executions /\ UNCHANGED ev
        /\ \/ UNCHANGED state
           \/ state[work] = "running" /\ state' = [state EXCEPT ![work] = "disconnected"]
    BY <1>0, <1>4, <2>1 DEF RoutineDisconnect, TransitionExecution, storeVars
  <2> QED
    BY <1>0, <1>1, <2>2 DEF TerminalStates
<1>5. CASE RoutineCommit
  <2>1. CanTransition(work, goal) => goal \in TerminalStates
    BY <1>0, <1>5 DEF RoutineCommit, CanTransition, AllowedTransitions, ExecStates, TerminalStates
  <2>2. /\ lpc \in {"reconcile", "force"} /\ work \in Executions /\ UNCHANGED ev
        /\ \/ UNCHANGED state
           \/ goal \in TerminalStates /\ state' = [state EXCEPT ![work] = goal]
    BY <1>0, <1>5, <2>1 DEF RoutineCommit, TransitionExecution, storeVars
  <2> QED
    BY <1>0, <1>1, <2>2
<1>6. CASE RoutineRaises /\ lpc = "force"
  <2>1. work \in Executions /\ UNCHANGED <<state, ev>>
    BY <1>0, <1>6 DEF RoutineRaises, storeVars
  <2> QED
    BY <1>1, <1>6, <2>1
<1> QED
  BY <1>1, <1>2, <1>3, <1>4, <1>5, <1>6 DEF Visits

\* During a reconciliation the rows move as the routine expects.
LEMMA ReconciliationProceeds ==
  ASSUME TypeOK, ScheduleInv, Visits, lpc = "reconcile"
  PROVE  Reconciled' /\ lpc' = "reconcile"
<1>0. /\ step # "pick" => work \in Executions
      /\ state \in [Executions -> ExecStates] /\ ev \in [Executions -> Evidence]
      /\ goal \in {"none"} \cup TerminalStates
  BY DEF TypeOK, LoopTypeOK, StoreTypeOK
<1>1. /\ pc = "idle" /\ fifo = <<>> /\ ~stop
      /\ \A e \in Active : state[e] = "disconnected" \/ e \in todo
      /\ todo \subseteq Active
      /\ step \in {"mark", "read"} => goal = "unknown"
      /\ step = "disconnect" => state[work] = "running" /\ goal = "unknown"
      /\ step \in {"finalize", "commit"} =>
           goal \in AllowedTransitions[state[work]] \cap TerminalStates
      /\ step = "commit" => ev[work].finalized
  BY DEF ScheduleInv, Reconciled
<1>2. UNCHANGED <<pc, fifo, stop>>
  BY RoutineRow DEF workerVars
<1>3. ASSUME NEW e \in Executions, ReconcileRow(e)
      PROVE  Reconciled' /\ lpc' = "reconcile"
  <2> DEFINE proven == TerminalFromEvidence(e)
  <2>1. /\ UNCHANGED <<state, ev, todo, lpc>> /\ work' = e /\ state[e] \in ActiveStates
    BY <1>1, <1>3 DEF ReconcileRow, storeVars, Active
  <2>2. CASE state[e] # "dispatching" /\ proven # "none"
    <3>1. step' = "finalize" /\ goal' = proven
      BY <1>3, <2>2 DEF ReconcileRow
    <3>2. proven \in {"finished", "error", "interrupted", "timed_out"}
      BY <1>0, <2>2 DEF TerminalFromEvidence, TerminalState, Evidence, Intents, ValidReplies
    <3>3. proven \in AllowedTransitions[state[e]] \cap TerminalStates
      BY <2>1, <2>2, <3>2 DEF AllowedTransitions, ExecStates, ActiveStates, TerminalStates
    <3> QED
      BY <1>1, <1>2, <2>1, <3>1, <3>3 DEF Reconciled, Active
  <2>3. CASE ~(state[e] # "dispatching" /\ proven # "none")
    <3>1. step' = "mark" /\ goal' = "unknown"
      BY <1>3, <2>3 DEF ReconcileRow
    <3> QED
      BY <1>1, <1>2, <2>1, <3>1 DEF Reconciled, Active
  <2> QED
    BY <2>2, <2>3
<1>4. CASE RoutineMark
  BY <1>0, <1>1, <1>2, <1>4 DEF RoutineMark, MarkOutputIncomplete, Routine, Reconciled, Active
<1>5. CASE RoutineRead
  <2>1. UNCHANGED <<state, ev, lpc>> /\ goal = "unknown" /\ work \in Executions
    BY <1>0, <1>1, <1>5 DEF RoutineRead, Routine, RowDone, storeVars
  <2>2. CASE state[work] = "running"
    <3>1. Routine("disconnect")
      BY <1>5, <2>2 DEF RoutineRead
    <3> QED
      BY <1>1, <1>2, <2>1, <2>2, <3>1 DEF Routine, Reconciled, Active
  <2>3. CASE state[work] = "dispatching"
    <3>1. Routine("finalize")
      BY <1>5, <2>3 DEF RoutineRead
    <3>2. goal \in AllowedTransitions[state[work]] \cap TerminalStates
      BY <2>1, <2>3 DEF AllowedTransitions, ExecStates, ActiveStates, TerminalStates
    <3> QED
      BY <1>1, <1>2, <2>1, <3>1, <3>2 DEF Routine, Reconciled, Active
  <2>4. CASE state[work] \notin {"running", "dispatching"}
    <3>1. RowDone
      BY <1>5, <2>4 DEF RoutineRead
    <3>2. work \notin Active \/ state[work] = "disconnected"
      BY <2>4 DEF Active, ActiveStates
    <3> QED
      BY <1>1, <1>2, <2>1, <3>1, <3>2 DEF RowDone, Reconciled, Active
  <2> QED
    BY <2>2, <2>3, <2>4
<1>6. CASE RoutineDisconnect
  <2>1. CanTransition(work, "disconnected")
    BY <1>1, <1>6 DEF RoutineDisconnect, CanTransition, AllowedTransitions, ExecStates,
                      ActiveStates, TerminalStates
  <2>2. /\ state' = [state EXCEPT ![work] = "disconnected"] /\ UNCHANGED ev /\ Routine("read")
        /\ goal = "unknown" /\ work \in Executions /\ state[work] = "running"
    BY <1>0, <1>1, <1>6, <2>1 DEF RoutineDisconnect, TransitionExecution
  <2>3. Active' = Active
    BY <1>0, <2>2 DEF Active, ActiveStates
  <2> QED
    BY <1>0, <1>1, <1>2, <2>2, <2>3 DEF Routine, Reconciled
<1>7. CASE RoutineFinalize
  <2>1. /\ UNCHANGED state /\ ev'[work].finalized /\ Routine("commit") /\ work \in Executions
        /\ goal \in AllowedTransitions[state[work]] \cap TerminalStates
    BY <1>0, <1>1, <1>7 DEF RoutineFinalize, FinalizeOutput, Evidence
  <2> QED
    BY <1>1, <1>2, <2>1 DEF Routine, Reconciled, Active
<1>8. CASE RoutineCommit
  <2>1. CanTransition(work, goal)
    BY <1>1, <1>8 DEF RoutineCommit, CanTransition
  <2>2. /\ state' = [state EXCEPT ![work] = goal] /\ UNCHANGED ev /\ RowDone
        /\ goal \in TerminalStates /\ work \in Executions
    BY <1>0, <1>1, <1>8, <2>1 DEF RoutineCommit, TransitionExecution
  <2>3. Active' = Active \ {work}
    BY <1>0, <2>2 DEF Active, ActiveStates, TerminalStates
  <2> QED
    BY <1>0, <1>1, <1>2, <2>2, <2>3 DEF RowDone, Reconciled
<1>9. ~\E e \in Executions : ForceRow(e)
  BY DEF ForceRow
<1> QED
  BY <1>3, <1>4, <1>5, <1>6, <1>7, <1>8, <1>9 DEF Visits

\* A step of reconcile_after_restart or force_uncertain_active.
LEMMA RoutineKeepsSchedule ==
  ASSUME TypeOK, ScheduleInv, Visits
  PROVE  ScheduleInv'
<1>1. /\ UNCHANGED <<workerVars, fifo, stop, pc>> /\ lpc \in {"reconcile", "force"}
  BY RoutineRow DEF workerVars
<1>2. /\ InPlace' /\ Queue' /\ ScheduledOnce' /\ Intended'
      /\ \A x \in Executions : x \in Scheduled => x \in Scheduled'
      /\ \A x \in Executions : LeftBehind(x) /\ state'[x] = state[x] => LeftBehind(x)'
      /\ \A x \in Active' \cup Queued' : x \in Active \cup Queued
  BY RoutineRow, RowsOfTheLoop
<1>3. CASE lpc = "reconcile"
  <2>1. Reconciled' /\ lpc' = "reconcile"
    BY <1>3, ReconciliationProceeds
  <2>2. Owned'
    BY <2>1 DEF Owned
  <2> QED
    BY <1>2, <2>1, <2>2 DEF ScheduleInv
<1>4. CASE lpc = "force"
  <2>1. lpc' \in {"force", "ready"}
    BY <1>4 DEF Visits, ReconcileRow, ForceRow, RoutineMark, RoutineRead, RoutineDisconnect,
       RoutineFinalize, RoutineCommit, RoutineRaises, Routine, RowDone, StopRaises, LoopIdle
  <2>r. refusal' = refusal
    BY DEF Visits, ReconcileRow, ForceRow, RoutineMark, RoutineRead, RoutineDisconnect,
       RoutineFinalize, RoutineCommit, RoutineRaises, Routine, RowDone, StopRaises, LoopIdle
  <2>2. Reconciled'
    BY <2>1 DEF Reconciled
  <2>3. \A e \in Executions : LeftBehind(e) /\ e \in Active' \cup Queued' => state'[e] = state[e]
    BY RoutineRow DEF LeftBehind, Active, Queued, ActiveStates, TerminalStates
  <2>s. \A e \in Executions :
          state[e] = "queued" /\ state'[e] \in ActiveStates \cup {"queued"}
            => state'[e] = "queued"
    BY RoutineRow DEF TerminalStates, ActiveStates
  <2>4. Owned'
    <3> SUFFICES ASSUME ~stop, pc # "dead", NEW e \in Active' \cup Queued'
                 PROVE  \/ e \in Scheduled' \/ LeftBehind(e)'
                        \/ state'[e] = "queued" /\ refusal'[e] = "standing"
      BY <1>1 DEF Owned
    <3>1. e \in Executions /\ e \in Active \cup Queued
      BY <1>2 DEF Active, Queued
    <3>2. \/ e \in Scheduled \/ LeftBehind(e)
          \/ state[e] = "queued" /\ refusal[e] = "standing"
      BY <1>4, <3>1 DEF ScheduleInv, Owned
    <3>3. state[e] = "queued" => state'[e] = "queued"
      BY <3>1, <2>s DEF Active, Queued
    <3> QED
      BY <1>2, <2>3, <2>r, <3>1, <3>2, <3>3
  <2> QED
    BY <1>2, <2>2, <2>4 DEF ScheduleInv
<1> QED
  BY <1>1, <1>3, <1>4

\* The rows a new process lists, each of them once.
LEMMA OrderedLists ==
  ASSUME TypeOK, NEW S \in SUBSET Executions, NEW q \in Ordered(S)
  PROVE  /\ Cardinality(S) \in Nat /\ q \in [1..Cardinality(S) -> S]
         /\ \A i, j \in 1..Cardinality(S) : q[i] = q[j] => i = j
         /\ \A e \in S : \E i \in 1..Cardinality(S) : q[i] = e
<1> DEFINE n == Cardinality(S)
<1>1. IsFiniteSet(S) /\ n \in Nat
  BY ExecutionsAssumption, FS_Subset, FS_CardinalityType
<1>2. /\ q \in [1..n -> S]
      /\ \A i, j \in 1..n : i < j => qat[q[i]] < qat[q[j]]
  BY DEF Ordered
<1>3. ASSUME NEW i \in 1..n, NEW j \in 1..n, q[i] = q[j], i < j
      PROVE  FALSE
  <2>1. qat[q[i]] < qat[q[j]] /\ q[i] \in Executions
    BY <1>2, <1>3
  <2>2. qat[q[i]] \in Nat
    BY <2>1 DEF TypeOK, StoreTypeOK
  <2> QED
    BY <1>3, <2>1, <2>2
<1>4. \A i, j \in 1..n : q[i] = q[j] => i = j
  BY <1>1, <1>3
<1>5. q \in Injection(1..n, S)
  BY <1>2, <1>4 DEF Injection, IsInjective
<1>6. Cardinality(1..n) = n /\ IsFiniteSet(1..n)
  BY <1>1, FS_Interval
<1>7. q \in Surjection(1..n, S)
  BY <1>1, <1>5, <1>6, FS_Injection
<1> QED
  BY <1>1, <1>2, <1>4, <1>7 DEF Surjection

\* _reconcile_and_resume hands every unsettled row to the worker, once.
LEMMA ResumeKeepsSchedule ==
  ASSUME TypeOK, ScheduleInv, Resume
  PROVE  ScheduleInv'
<1>1. PICK r \in Ordered(Active), q \in Ordered(Queued) :
        fifo' = ItemsOf("recover", r) \o ItemsOf("execute", q)
  BY DEF Resume
<1>2. Active \in SUBSET Executions /\ Queued \in SUBSET Executions
  BY DEF Active, Queued
<1>3. PICK n \in Nat :
      /\ r \in [1..n -> Active]
      /\ \A i, j \in 1..n : r[i] = r[j] => i = j
      /\ \A e \in Active : \E i \in 1..n : r[i] = e
  BY <1>1, <1>2, OrderedLists
<1>4. PICK m \in Nat :
      /\ q \in [1..m -> Queued]
      /\ \A i, j \in 1..m : q[i] = q[j] => i = j
      /\ \A e \in Queued : \E i \in 1..m : q[i] = e
  <2>1. \A S \in SUBSET Executions : \A p \in Ordered(S) : \E k \in Nat :
          /\ p \in [1..k -> S]
          /\ \A i, j \in 1..k : p[i] = p[j] => i = j
          /\ \A e \in S : \E i \in 1..k : p[i] = e
    BY OrderedLists
  <2> QED
    BY <1>1, <1>2, <2>1
<1>5. PICK R \in Seq(Items), Q \in Seq(Items) :
        /\ fifo' = R \o Q /\ Len(R) = n /\ Len(Q) = m
        /\ \A i \in 1..n : R[i] = [kind |-> "recover", exec |-> r[i]]
        /\ \A i \in 1..m : Q[i] = [kind |-> "execute", exec |-> q[i]]
  <2>1. ItemsOf("recover", r) \in Seq(Items) /\ ItemsOf("execute", q) \in Seq(Items)
    BY <1>1, <1>2, ItemsTyped
  <2>2. /\ DOMAIN ItemsOf("recover", r) = 1..n /\ DOMAIN ItemsOf("execute", q) = 1..m
        /\ \A i \in 1..n : ItemsOf("recover", r)[i] = [kind |-> "recover", exec |-> r[i]]
        /\ \A i \in 1..m : ItemsOf("execute", q)[i] = [kind |-> "execute", exec |-> q[i]]
    BY <1>3, <1>4 DEF ItemsOf
  <2>3. Len(ItemsOf("recover", r)) = n /\ Len(ItemsOf("execute", q)) = m
    BY <1>3, <1>4, <2>1, <2>2, LenProperties
  <2> QED
    BY <1>1, <2>1, <2>2, <2>3
<1>6. /\ DOMAIN fifo' = 1..(n + m)
      /\ \A i \in 1..n : fifo'[i].kind = "recover" /\ fifo'[i].exec = r[i]
      /\ \A i \in 1..m : fifo'[n + i].kind = "execute" /\ fifo'[n + i].exec = q[i]
  <2>1. DOMAIN fifo' = 1..(n + m)
    <3>1. fifo' = R \o Q /\ Len(R) = n /\ Len(Q) = m
      BY <1>5
    <3>2. Len(R \o Q) = Len(R) + Len(Q) /\ R \o Q \in Seq(Items)
      BY ConcatProperties
    <3> QED
      BY <3>1, <3>2
  <2>2. ASSUME NEW i \in 1..n PROVE fifo'[i] = R[i]
    BY <1>5
  <2>3. ASSUME NEW i \in 1..m PROVE fifo'[n + i] = Q[i]
    BY <1>5
  <2> QED
    BY <1>5, <2>1, <2>2, <2>3
<1>7. \A i \in 1..(n + m) : i \in 1..n \/ \E j \in 1..m : i = n + j
  BY <1>3, <1>4
<1>8. /\ UNCHANGED <<state, ev, workerVars, stop, pc, cur>> /\ lpc' = "ready"
      /\ lpc = "reconcile" /\ todo = {}
  BY DEF Resume, storeVars, workerVars, LoopIdle
<1>9. /\ \A e \in Active : state[e] = "disconnected"
      /\ pc = "idle" /\ cur = None
  BY <1>8 DEF ScheduleInv, Reconciled, InPlace, RowInHand
<1>10. InPlace' /\ Intended'
  BY <1>8 DEF ScheduleInv, InPlace, RowInHand, Failing, RowIn, LeftBehind, Observing, Intended,
              workerVars
<1>11. Queue'
  <2>1. ASSUME NEW i \in 1..n
        PROVE  fifo'[i].kind = "recover" /\ state[fifo'[i].exec] = "disconnected"
    BY <1>3, <1>6, <1>9, <2>1
  <2>2. ASSUME NEW i \in 1..m
        PROVE  fifo'[n + i].kind = "execute" /\ state[fifo'[n + i].exec] = "queued"
    <3>1. q[i] \in Queued
      BY <1>4, <2>2
    <3> QED
      BY <1>6, <2>2, <3>1 DEF Queued
  <2> QED
    BY <1>6, <1>7, <1>8, <2>1, <2>2 DEF Queue
<1>12. ScheduledOnce'
  <2>1. \A i \in 1..n : fifo'[i].exec = r[i] /\ r[i] \in Active
    BY <1>3, <1>6
  <2>2. \A i \in 1..m : fifo'[n + i].exec = q[i] /\ q[i] \in Queued
    BY <1>4, <1>6
  <2>3. Active \cap Queued = {}
    BY DEF Active, Queued, ActiveStates
  <2>4. \A i \in 1..(n + m) : fifo'[i].exec \in Executions
    BY <1>2, <1>7, <2>1, <2>2
  <2>5. \A i, j \in 1..(n + m) : fifo'[i].exec = fifo'[j].exec => i = j
    <3> SUFFICES ASSUME NEW i \in 1..(n + m), NEW j \in 1..(n + m),
                        fifo'[i].exec = fifo'[j].exec
                 PROVE  i = j
      OBVIOUS
    <3>1. ASSUME i \in 1..n, j \in 1..n PROVE i = j
      <4>1. r[i] = r[j]
        BY <2>1, <3>1
      <4> QED
        BY <1>3, <3>1, <4>1
    <3>2. ASSUME NEW a \in 1..m, NEW b \in 1..m, i = n + a, j = n + b PROVE i = j
      <4>1. q[a] = fifo'[n + a].exec /\ q[b] = fifo'[n + b].exec
        BY <2>2
      <4>2. q[a] = q[b]
        BY <3>2, <4>1
      <4>3. a = b
        BY <1>4, <4>2
      <4> QED
        BY <3>2, <4>3
    <3>3. ASSUME NEW a \in 1..m, \/ i = n + a /\ j \in 1..n
                                 \/ j = n + a /\ i \in 1..n
          PROVE  FALSE
      BY <2>1, <2>2, <2>3, <3>3
    <3> QED
      BY <1>7, <3>1, <3>2, <3>3
  <2> QED
    BY <1>6, <1>8, <1>9, <2>4, <2>5, NoneAssumption DEF ScheduledOnce
<1>13. Owned'
  <2>1. ASSUME NEW e \in Active PROVE e \in Scheduled'
    <3>1. PICK i \in 1..n : r[i] = e
      BY <1>3
    <3>2. i \in DOMAIN fifo' /\ fifo'[i].exec = e
      BY <1>3, <1>4, <1>6, <3>1
    <3> QED
      BY <3>2 DEF Scheduled
  <2>2. ASSUME NEW e \in Queued PROVE e \in Scheduled'
    <3>1. PICK i \in 1..m : q[i] = e
      BY <1>4
    <3>2. fifo'[n + i].exec = e
      BY <1>6, <3>1
    <3>3. n + i \in DOMAIN fifo'
      BY <1>6
    <3> QED
      BY <3>2, <3>3 DEF Scheduled
  <2>3. Active' = Active /\ Queued' = Queued
    BY <1>8 DEF Active, Queued
  <2> QED
    BY <2>1, <2>2, <2>3 DEF Owned
<1>14. Reconciled'
  BY <1>8 DEF Reconciled
<1> QED
  BY <1>10, <1>11, <1>12, <1>13, <1>14 DEF ScheduleInv

\* A request, a stop, a crash or a restart keeps the schedule.
LEMMA LoopKeepsSchedule ==
  ASSUME TypeOK, ScheduleInv, LoopStep
  PROVE  ScheduleInv'
<1>t. /\ state \in [Executions -> ExecStates] /\ ev \in [Executions -> Evidence]
      /\ fifo \in Seq(Items)
      /\ lpc = "submit" => work \in Executions
      /\ step # "pick" => lpc \in {"reconcile", "force"}
  BY DEF TypeOK, StoreTypeOK, WorkerTypeOK, LoopTypeOK
<1>u. ASSUME UNCHANGED <<state, ev, workerVars, fifo>>, stop => stop'
      PROVE  InPlace' /\ Queue' /\ ScheduledOnce' /\ Intended'
  BY <1>u DEF ScheduleInv, InPlace, RowInHand, Failing, RowIn, LeftBehind, Observing,
     Queue, ScheduledOnce, Intended, workerVars
<1>o. ASSUME UNCHANGED <<state, ev, workerVars, fifo, stop, refusal>>, lpc # "submit",
             lpc \in {"ready", "force"}
      PROVE  Owned'
  BY <1>o DEF ScheduleInv, Owned, Active, Queued, Scheduled, LeftBehind, workerVars
<1>p. ASSUME ProcessEnds, UNCHANGED <<state, ev>>
      PROVE  ScheduleInv'
  <2>1. Released("idle") /\ fifo' = <<>> /\ ~stop' /\ lpc' = "down"
    BY <1>p DEF ProcessEnds, LoopIdle
  <2>2. InPlace'
    BY <2>1, ReleasedInPlace
  <2>3. Queue' /\ ScheduledOnce' /\ Owned' /\ Intended' /\ Reconciled'
    BY <1>p, <2>1 DEF ScheduleInv, Queue, ScheduledOnce, Owned, Intended, Reconciled, Released
  <2> QED
    BY <2>2, <2>3 DEF ScheduleInv
<1>1. ASSUME NEW k \in Keys \cup {None}, NEW e \in Executions, StartNew(e, k)
      PROVE  ScheduleInv'
  <2>1. /\ state[e] = "absent" /\ state' = [state EXCEPT ![e] = "queued"]
        /\ ev' = [ev EXCEPT ![e] = NewEvidence(session)]
        /\ UNCHANGED <<workerVars, fifo, stop, pc, refusal>>
        /\ lpc = "ready" /\ lpc' = "submit" /\ work' = e
    BY <1>1 DEF StartNew, CreateExecution, workerVars
  <2>2. \A x \in Executions \ {e} : state'[x] = state[x] /\ ev'[x] = ev[x]
    BY <1>t, <2>1
  <2>3. state'[e] = "queued" /\ ev'[e].intent = "none" /\ "absent" \notin TerminalStates
    BY <1>t, <2>1 DEF NewEvidence, TerminalStates
  <2>4. RowsMove
    BY <2>1, <2>2, <2>3 DEF RowsMove, LeftBehind
  <2>5. InPlace'
    BY <2>1, <2>4, StaysInPlace DEF ScheduleInv
  <2>6. Queue'
    <3>1. \A x \in Executions : \/ state'[x] \in {state[x]} \cup TerminalStates
                                \/ state[x] \in {"absent", "running"}
      BY <2>1, <2>2
    <3> QED
      BY <2>1, <3>1, QueueStays DEF ScheduleInv
  <2>7. ScheduledOnce'
    BY <2>1 DEF ScheduleInv, ScheduledOnce, workerVars
  <2>8. Intended'
    BY <2>2, <2>3 DEF ScheduleInv, Intended
  <2>9. Owned'
    <3> SUFFICES ASSUME ~stop, pc # "dead", NEW x \in Executions,
                        state'[x] \in ActiveStates \cup {"queued"}
                 PROVE  \/ x \in Scheduled' \/ LeftBehind(x)' \/ x = e
                        \/ state'[x] = "queued" /\ refusal'[x] = "standing"
      BY <2>1, <2>3 DEF Owned, Active, Queued
    <3>1. x # e => \/ x \in Scheduled \/ LeftBehind(x)
                   \/ state[x] = "queued" /\ refusal[x] = "standing"
      BY <2>1, <2>2 DEF ScheduleInv, Owned, Active, Queued
    <3> QED
      BY <2>1, <2>2, <3>1 DEF Scheduled, LeftBehind, workerVars
  <2>10. Reconciled'
    BY <2>1 DEF Reconciled
  <2> QED
    BY <2>5, <2>6, <2>7, <2>8, <2>9, <2>10 DEF ScheduleInv
<1>2. ASSUME NEW k \in Keys, StartAgain(k)
      PROVE  ScheduleInv'
  <2>1. /\ UNCHANGED <<state, ev, workerVars, fifo, stop, refusal>>
        /\ lpc = "ready" /\ lpc' = "submit"
    BY <1>2 DEF StartAgain, storeVars
  <2> QED
    BY <1>o, <1>u, <2>1 DEF ScheduleInv, Reconciled
<1>3. CASE Submit
  <2>1. /\ UNCHANGED <<state, ev, workerVars, stop, pc, cur>> /\ lpc = "submit" /\ lpc' = "ready"
        /\ work \in Executions /\ refusal \in [Executions -> {"none", "standing", "past"}]
    BY <1>3, <1>t DEF Submit, storeVars, workerVars, LoopIdle, TypeOK, LoopTypeOK
  <2>a. /\ \A x \in Executions \ {work} : refusal'[x] = refusal[x]
        /\ refusal'[work] \in {refusal[work], "past", "standing"}
        /\ SessionLeased => work \in Scheduled \/ refusal'[work] = "standing"
    BY <1>3, <1>t, <2>1 DEF Submit, Accepted, SessionLeased
  <2>2. CASE /\ fifo' = fifo
             /\ state[work] # "queued" \/ work \in Scheduled \/ refusal'[work] = "standing"
    <3>1. Owned'
      BY <2>1, <2>2, <2>a DEF ScheduleInv, Owned, Active, Queued, Scheduled, LeftBehind, workerVars
    <3> QED
      BY <1>u, <2>1, <2>2, <3>1 DEF ScheduleInv, Reconciled
  <2>3. CASE /\ state[work] = "queued" /\ work \notin Scheduled
             /\ fifo' = Append(fifo, [kind |-> "execute", exec |-> work])
    <3>1. /\ DOMAIN fifo' = DOMAIN fifo \cup {Len(fifo) + 1} /\ Len(fifo) + 1 \notin DOMAIN fifo
          /\ \A i \in DOMAIN fifo : fifo'[i] = fifo[i]
          /\ fifo'[Len(fifo) + 1].kind = "execute" /\ fifo'[Len(fifo) + 1].exec = work
      BY <1>t, <2>3
    <3>2. InPlace' /\ Intended'
      BY <2>1 DEF ScheduleInv, InPlace, RowInHand, Failing, RowIn, LeftBehind, Observing,
         Intended, workerVars
    <3>3. Queue'
      BY <2>1, <2>3, <3>1 DEF ScheduleInv, Queue
    <3>4. work # cur /\ \A i \in DOMAIN fifo : fifo[i].exec # work
      BY <2>3 DEF Scheduled
    <3>5. ScheduledOnce'
      BY <2>1, <3>1, <3>4 DEF ScheduleInv, ScheduledOnce
    <3>6. work \in Scheduled' /\ \A x \in Scheduled : x \in Scheduled'
      BY <2>1, <3>1 DEF Scheduled
    <3>7. Owned'
      BY <2>1, <2>a, <3>6 DEF ScheduleInv, Owned, Active, Queued, LeftBehind
    <3>8. Reconciled'
      BY <2>1 DEF Reconciled
    <3> QED
      BY <3>2, <3>3, <3>5, <3>7, <3>8 DEF ScheduleInv
  <2>4. CASE Accepted
    BY <2>2, <2>3, <2>4 DEF Accepted
  <2>5. CASE SessionLeased
    BY <2>2, <2>5, <2>a DEF SessionLeased
  <2> QED
    BY <1>3, <2>4, <2>5 DEF Submit
<1>4. ASSUME NEW e \in Executions, Cancel(e)
      PROVE  ScheduleInv'
  <2>1. /\ UNCHANGED <<workerVars, fifo, stop, pc, lpc, refusal>> /\ lpc = "ready"
        /\ \A x \in Executions \ {e} : state'[x] = state[x] /\ ev'[x] = ev[x]
        /\ state[e] \notin TerminalStates
        /\ \/ state'[e] = state[e]
           \/ state'[e] = "interrupted"
        /\ ev'[e].intent = "interrupted"
    BY <1>4, <1>t DEF Cancel, RequestCancel, Evidence, workerVars, loopVars
  <2>2. /\ InPlace' /\ Queue' /\ ScheduledOnce' /\ Intended'
        /\ \A x \in Executions : x \in Scheduled => x \in Scheduled'
        /\ \A x \in Executions : LeftBehind(x) /\ state'[x] = state[x] => LeftBehind(x)'
        /\ \A x \in Active' \cup Queued' : x \in Active \cup Queued
    BY <2>1, RowsOfTheLoop DEF TerminalStates
  <2>3. \A x \in Executions : LeftBehind(x) /\ x \in Active' \cup Queued' => state'[x] = state[x]
    BY <2>1 DEF LeftBehind, Active, Queued, ActiveStates
  <2>4. Owned'
    <3> SUFFICES ASSUME ~stop, pc # "dead", NEW x \in Active' \cup Queued'
                 PROVE  \/ x \in Scheduled' \/ LeftBehind(x)'
                        \/ state'[x] = "queued" /\ refusal'[x] = "standing"
      BY <2>1 DEF Owned
    <3>1. x \in Executions /\ x \in Active \cup Queued /\ state'[x] # "interrupted"
      BY <2>2 DEF Active, Queued, ActiveStates
    <3>2. \/ x \in Scheduled \/ LeftBehind(x)
          \/ state[x] = "queued" /\ refusal[x] = "standing"
      BY <2>1, <3>1 DEF ScheduleInv, Owned
    <3> QED
      BY <2>1, <2>2, <2>3, <3>1, <3>2
  <2>5. Reconciled'
    BY <2>1 DEF Reconciled
  <2> QED
    BY <2>2, <2>4, <2>5 DEF ScheduleInv
<1>6. CASE Boot
  <2>1. /\ UNCHANGED <<state, ev, workerVars, fifo, stop, pc, step>> /\ lpc = "down"
        /\ lpc' = "reconcile" /\ todo' = Active
    BY <1>6 DEF Boot, LoopOnly, storeVars, workerVars
  <2>2. InPlace' /\ Queue' /\ ScheduledOnce' /\ Intended'
    BY <1>u, <2>1
  <2>3. Owned'
    BY <2>1 DEF Owned
  <2>4. Active' = Active /\ step = "pick"
    BY <1>t, <2>1 DEF Active
  <2>5. Reconciled'
    BY <2>1, <2>4 DEF ScheduleInv, Reconciled
  <2> QED
    BY <2>2, <2>3, <2>5 DEF ScheduleInv
<1>8. CASE ForceStop \/ ForceDone \/ StopWhenIdle
  <2>1. /\ UNCHANGED <<state, ev, workerVars, fifo, stop, refusal>> /\ lpc \in {"ready", "force"}
        /\ lpc' \in {"ready", "force"}
    BY <1>8 DEF ForceStop, ForceDone, StopWhenIdle, LoopOnly, LoopIdle, storeVars
  <2> QED
    BY <1>o, <1>u, <2>1 DEF ScheduleInv, Reconciled
<1>11. CASE CloseCoordinator
  <2>1. /\ UNCHANGED <<state, ev, workerVars, pc, cur>> /\ stop' /\ lpc' = "joining"
        /\ fifo' = Append(fifo, [kind |-> "stop", exec |-> None])
    BY <1>11 DEF CloseCoordinator, storeVars, workerVars, LoopIdle
  <2>2. /\ DOMAIN fifo' = DOMAIN fifo \cup {Len(fifo) + 1}
        /\ \A i \in DOMAIN fifo : fifo'[i] = fifo[i]
        /\ fifo'[Len(fifo) + 1].kind = "stop" /\ fifo'[Len(fifo) + 1].exec = None
    BY <1>t, <2>1
  <2>3. InPlace' /\ Intended'
    BY <2>1 DEF ScheduleInv, InPlace, RowInHand, Failing, RowIn, LeftBehind, Observing,
       Intended, workerVars
  <2>4. Queue' /\ ScheduledOnce'
    BY <2>1, <2>2 DEF ScheduleInv, Queue, ScheduledOnce
  <2>5. Owned' /\ Reconciled'
    BY <2>1 DEF Owned, Reconciled
  <2> QED
    BY <2>3, <2>4, <2>5 DEF ScheduleInv
<1>12. CASE Exit \/ Crash \/ CrashInTransaction \/ StartFails
  BY <1>12, <1>p, StartFailsEnds DEF Exit, Crash, CrashInTransaction, storeVars
<1>13. CASE RoutineStep
  BY <1>12, <1>13, RoutineEnds, RoutineKeepsSchedule
<1> QED
  BY <1>1, <1>2, <1>3, <1>4, <1>6, <1>8, <1>11, <1>12, <1>13, ResumeKeepsSchedule
  DEF LoopStep

\* Nothing is scheduled before the first process boots.
LEMMA ScheduleInit == Init => ScheduleInv
BY DEF Init, StoreInit, WorkerInit, ScheduleInv, InPlace, RowInHand, Failing, NewProof, Queue,
       ScheduledOnce, Owned, Intended, NewEvidence, Reconciled

\* Every step keeps the schedule.
LEMMA ScheduleNext == TypeOK /\ ScheduleInv /\ [Next]_allVars => ScheduleInv'
<1> SUFFICES ASSUME TypeOK, ScheduleInv, [Next]_allVars PROVE ScheduleInv'
  OBVIOUS
<1>1. CASE WorkerStep
  BY <1>1, WorkerKeepsSchedule DEF WorkerStep
<1>2. CASE KernelStep \/ LinkStep
  BY <1>2, ScheduleUnseen DEF KernelStep, LinkStep
<1>3. CASE LoopStep
  BY <1>3, LoopKeepsSchedule
<1>4. CASE UNCHANGED allVars
  BY <1>4, ScheduleUnseen DEF allVars, vars
<1> QED
  BY <1>1, <1>2, <1>3, <1>4 DEF Next

\* The schedule is what it should be in every reachable state.
LEMMA ScheduleHolds == Spec => []ScheduleInv
BY InitTypeOK, TypeCorrect, ScheduleInit, ScheduleNext, PTL DEF Spec

\* However often a start request is repeated, and whatever a restart resumes,
\* the worker has an execution in its queue or hands at most once.
THEOREM EachScheduledOnce == Spec => []ScheduledOnce
BY ScheduleHolds, PTL DEF ScheduleInv

\* A serving controller with a living worker has lost sight of no unsettled
\* row: it is in the queue, in hand, the one an interrupt left behind, or
\* queued behind a lease that was granted between its start and its submit.
THEOREM NothingOrphaned == Spec => []NoOrphan
<1>1. ScheduleInv => NoOrphan
  BY DEF ScheduleInv, Owned, NoOrphan, LeftBehind
<1> QED
  BY <1>1, ScheduleHolds, PTL

-----------------------------------------------------------------------------
(***************************************************************************)
(* First accepted, first dispatched: the queue is in the order of          *)
(* queued_at, the row in hand comes before it, and every other queued row  *)
(* is behind both.  A row that was refused once joins at the end of the    *)
(* queue; what is accepted after it is newer again.                        *)
(***************************************************************************)
\* Rows were accepted one after the other.
Dated ==
  /\ \A e \in Executions : state[e] # "absent" => qat[e] < clock
  /\ \A e, f \in Executions :
       state[e] # "absent" /\ state[f] # "absent" /\ qat[e] = qat[f] => e = f

\* Item i waits to be dispatched; the row in hand may still be.
Waits(i) == fifo[i].kind = "execute"
Opening == mode = "run" /\ pc \in {"read", "source", "connect", "register", "begin"}

InLine ==
  pc # "dead" =>
    /\ \A i, j \in DOMAIN fifo :
         /\ i < j /\ Waits(i) /\ Waits(j) /\ refusal[fifo[j].exec] = "none"
         => qat[fifo[i].exec] < qat[fifo[j].exec]
    /\ Opening =>
         \A j \in DOMAIN fifo :
           Waits(j) /\ refusal[fifo[j].exec] = "none" => qat[cur] < qat[fifo[j].exec]

\* The worker is told to stop when nothing is accepted any more.
Closing == stop => lpc = "joining"

\* No queued row is forgotten, even while the controller is closing.
Serving == lpc \in {"ready", "submit", "force", "joining"} /\ pc \notin {"dead", "exited"}
Remembered ==
  Serving => \A e \in Queued : \/ e \in Scheduled \/ (lpc = "submit" /\ e = work)
                               \/ refusal[e] # "none"

\* The row that is being submitted is the newest, unless it is scheduled.
Newest ==
  /\ lpc = "submit" /\ pc # "dead"
  /\ state[work] = "queued" /\ work \notin Scheduled /\ refusal[work] = "none"
  => \A e \in Executions \ {work} : state[e] # "absent" => qat[e] < qat[work]

FifoInv == Dated /\ InLine /\ Closing /\ Remembered /\ Newest

\* A step that only the wire or the kernel sees leaves the line as it is.
LEMMA LineUnseen ==
  ASSUME FifoInv,
         UNCHANGED <<state, qat, clock, pc, mode, cur, fifo, stop, lpc, work, refusal>>
  PROVE  FifoInv'
BY DEF FifoInv, Dated, InLine, Waits, Opening, Closing, Serving, Remembered, Newest,
       Queued, Scheduled

\* Rows are accepted by create_execution only, and never again.
RowsAge ==
  /\ UNCHANGED <<qat, clock>>
  /\ \A e \in Executions :
       state'[e] = state[e] \/ (state[e] # "absent" /\ state'[e] \notin {"absent", "queued"})

\* The worker accepts nothing.
LEMMA WorkerAges ==
  ASSUME TypeOK, ScheduleInv, Worker
  PROVE  RowsAge
<1>t. /\ state \in [Executions -> ExecStates] /\ MemoryTypeOK
      /\ pc \notin {"idle", "exited", "dead"} => cur \in Executions
  BY DEF TypeOK, StoreTypeOK, WorkerTypeOK, MemoryTypeOK
<1>1. CASE BeginDispatchStep
  BY <1>t, <1>1 DEF BeginDispatchStep, BeginDispatch, CanBeginDispatch, storeVars, RowsAge
<1>2. CASE ConfirmStep
  BY <1>t, <1>2 DEF ConfirmStep, ConfirmDispatch, CanConfirmDispatch, storeVars, RowsAge
<1>3. CASE DisconnectStep
  <2>1. /\ UNCHANGED <<qat, clock>> /\ cur \in Executions
        /\ \/ UNCHANGED state
           \/ /\ state' = [state EXCEPT ![cur] = "disconnected"]
              /\ "disconnected" \in AllowedTransitions[state[cur]]
    BY <1>t, <1>3 DEF DisconnectStep, TransitionExecution, CanTransition, storeVars
  <2>2. "disconnected" \notin AllowedTransitions["absent"]
    BY DEF AllowedTransitions, ExecStates
  <2> QED
    BY <1>t, <2>1, <2>2 DEF RowsAge
<1>4. CASE CommitStep
  <2>1. /\ UNCHANGED <<qat, clock>> /\ cur \in Executions
        /\ \/ UNCHANGED state
           \/ /\ state' = [state EXCEPT ![cur] = target]
              /\ target \in AllowedTransitions[state[cur]]
    BY <1>t, <1>4 DEF CommitStep, TransitionExecution, CanTransition, storeVars
  <2>2. target \in TerminalStates
    BY <1>4 DEF CommitStep, ScheduleInv, InPlace, Failing
  <2>3. AllowedTransitions["absent"] \cap TerminalStates = {}
        /\ {"absent", "queued"} \cap TerminalStates = {}
    BY DEF AllowedTransitions, ExecStates, TerminalStates
  <2> QED
    BY <1>t, <2>1, <2>2, <2>3 DEF RowsAge
<1>5. CASE UNCHANGED <<state, qat, clock>>
  BY <1>5 DEF RowsAge
<1> QED
  BY <1>1, <1>2, <1>3, <1>4, <1>5
     DEF Worker, TakeItem, ReadRow, ReadSource, ConnectForRun, RegisterConnection,
         Send, Loop, Expire, RequestTimeout, NextEvent, AppendStep, AppendOutput, EvidenceStep,
         RecordEvidence, RecoverRead, ConnectForRecovery, SendBoundary, HandleStep, MarkStep,
         MarkOutputIncomplete, RereadStep, FinalizeStep, FinalizeOutput, DropStep, RecheckStep,
         storeVars

\* A row in hand that may be dispatched was so before the step.
LEMMA StillOpening ==
  ASSUME TypeOK, ScheduleInv, Worker, pc # "idle", Opening'
  PROVE  Opening /\ cur' = cur
<1>t. mode \in {"run", "recover"}
  BY DEF TypeOK, WorkerTypeOK, MemoryTypeOK
<1>0. ~Released("idle") /\ ~Released("dead")
  BY DEF Released, Opening
<1>i. pc \in {"read", "source", "begin"} => mode = "run"
  BY DEF ScheduleInv, InPlace, RowInHand
<1>h. \A h : ~Handle(h)
  BY DEF Handle, Opening
<1>f. \A s : ~Finalizing(s)
  BY DEF Finalizing, Opening
<1>w. ~Raise
  BY <1>0, <1>h DEF Raise
<1>g. \A p : Go(p) => /\ p \in {"read", "source", "connect", "register", "begin"}
                     /\ UNCHANGED <<mode, cur>>
  BY DEF Go, Opening
<1>1. CASE ReadRow \/ ReadSource \/ ConnectForRun \/ RegisterConnection
  BY <1>1, <1>t, <1>0, <1>i, <1>h, <1>f, <1>w, <1>g
     DEF ReadRow, ReadSource, ConnectForRun, RegisterConnection, SameKernel, Opening
<1>2. CASE BeginDispatchStep \/ Send \/ ConfirmStep \/ AppendStep \/ EvidenceStep
  <2>1. AfterConfirm(msg.kind) \in {"append", "evidence", "loop"}
    BY DEF AfterConfirm
  <2> QED
    BY <1>2, <1>0, <1>h, <1>f, <1>w, <1>g, <2>1
       DEF BeginDispatchStep, Send, ConfirmStep, AppendStep, EvidenceStep
<1>3. CASE Loop \/ Expire
  BY <1>3, <1>0, <1>h, <1>g DEF Loop, Expire, Interrupting, Opening
<1>4. CASE NextEvent
  <2>1. ASSUME NEW m, ObserveExecution(m) \/ ObserveBoundary(m) \/ Unmatched(m) PROVE FALSE
    BY <1>g, <2>1 DEF ObserveExecution, ObserveBoundary, Unmatched, AfterConfirm, Opening
  <2> QED
    BY <1>4, <1>h, <1>g, <2>1 DEF NextEvent, Opening
<1>5. CASE RecoverRead \/ ConnectForRecovery \/ SendBoundary
  BY <1>5, <1>t, <1>0, <1>h, <1>g
     DEF RecoverRead, ConnectForRecovery, SendBoundary, SameKernel, Opening
<1>6. CASE HandleStep \/ MarkStep \/ DisconnectStep \/ RereadStep
  BY <1>6, <1>0, <1>f, <1>w, <1>g DEF HandleStep, MarkStep, DisconnectStep, RereadStep, Opening
<1>7. CASE FinalizeStep \/ CommitStep \/ DropStep \/ RecheckStep
  BY <1>7, <1>0, <1>w, <1>g DEF FinalizeStep, CommitStep, DropStep, RecheckStep
<1> QED
  BY <1>1, <1>2, <1>3, <1>4, <1>5, <1>6, <1>7 DEF Worker, TakeItem

\* The head of the queue becomes the row in hand, ahead of the rest.
LEMMA TakeKeepsLine ==
  ASSUME TypeOK, ScheduleInv, FifoInv, TakeItem, UNCHANGED loopVars
  PROVE  FifoInv'
<1> DEFINE item == Head(fifo)
<1>0. /\ pc = "idle" /\ fifo # <<>> /\ fifo' = Tail(fifo)
      /\ UNCHANGED <<state, qat, clock, stop, lpc, work, refusal>>
  BY DEF TakeItem, storeVars, loopVars
<1>1. cur = None /\ mode = "run"
  BY <1>0 DEF ScheduleInv, InPlace, RowInHand
<1>2. /\ fifo \in Seq(Items) /\ item = fifo[1] /\ 1 \in DOMAIN fifo
      /\ \A i \in DOMAIN fifo' : i + 1 \in DOMAIN fifo /\ fifo'[i] = fifo[i + 1]
      /\ \A i \in DOMAIN fifo \ {1} : i - 1 \in DOMAIN fifo' /\ fifo'[i - 1] = fifo[i]
      /\ DOMAIN fifo' \subseteq Nat \ {0}
  <2>1. fifo \in Seq(Items)
    BY DEF TypeOK, WorkerTypeOK
  <2> QED
    BY <1>0, <2>1
<1>3. /\ item.kind \in {"stop", "execute", "recover"}
      /\ item.kind = "stop" => stop
  BY <1>2, QueueItems DEF Items, ScheduleInv, Queue
<1>4. /\ item.kind = "stop" => pc' = "exited"
      /\ item.kind = "execute" => mode' = "run" /\ cur' = item.exec /\ pc' # "dead"
      /\ item.kind = "recover" => mode' = "recover" /\ cur' = item.exec /\ pc' # "dead"
  BY DEF TakeItem, Released
<1>5. Dated' /\ Closing'
  BY <1>0 DEF FifoInv, Dated, Closing
<1>6. InLine'
  <2>1. ASSUME NEW i \in DOMAIN fifo', NEW j \in DOMAIN fifo', i < j, Waits(i)', Waits(j)',
               refusal'[fifo'[j].exec] = "none"
        PROVE  qat[fifo'[i].exec] < qat[fifo'[j].exec]
    <3>1. /\ i + 1 \in DOMAIN fifo /\ j + 1 \in DOMAIN fifo /\ i + 1 < j + 1
          /\ Waits(i + 1) /\ Waits(j + 1)
      BY <1>2, <2>1 DEF Waits
    <3> QED
      BY <1>0, <1>2, <2>1, <3>1 DEF FifoInv, InLine
  <2>2. ASSUME Opening', NEW j \in DOMAIN fifo', Waits(j)', refusal'[fifo'[j].exec] = "none"
        PROVE  qat[cur'] < qat[fifo'[j].exec]
    <3>1. item.kind = "execute" /\ cur' = fifo[1].exec /\ Waits(1)
      BY <1>2, <1>3, <1>4, <2>2 DEF Opening, Waits
    <3>2. j + 1 \in DOMAIN fifo /\ 1 < j + 1 /\ Waits(j + 1)
      BY <1>2, <2>2 DEF Waits
    <3> QED
      BY <1>0, <1>2, <2>2, <3>1, <3>2 DEF FifoInv, InLine
  <2> QED
    BY <1>0, <2>1, <2>2 DEF InLine
<1>7. ASSUME item.kind # "stop", NEW e \in Executions
      PROVE  e \in Scheduled => e \in Scheduled'
  <2> SUFFICES ASSUME e \in Scheduled PROVE e \in Scheduled'
    OBVIOUS
  <2>1. PICK i \in DOMAIN fifo : e = fifo[i].exec
    BY <1>1, NoneAssumption DEF Scheduled
  <2>2. CASE i = 1
    BY <1>2, <1>3, <1>4, <1>7, <2>1, <2>2 DEF Scheduled
  <2>3. CASE i # 1
    BY <1>2, <2>1, <2>3 DEF Scheduled
  <2> QED
    BY <2>2, <2>3
<1>8. CASE item.kind = "stop"
  <2>1. lpc = "joining" /\ pc' = "exited"
    BY <1>3, <1>4, <1>8 DEF FifoInv, Closing
  <2> QED
    BY <1>0, <1>5, <1>6, <2>1 DEF FifoInv, Remembered, Serving, Newest
<1>9. CASE item.kind # "stop"
  <2>1. Remembered'
    BY <1>0, <1>7, <1>9 DEF FifoInv, Remembered, Serving, Queued
  <2>2. Newest'
    <3>1. lpc = "submit" => work \in Executions
      BY DEF TypeOK, LoopTypeOK
    <3> QED
      BY <1>0, <1>7, <1>9, <3>1 DEF FifoInv, Newest
  <2> QED
    BY <1>5, <1>6, <2>1, <2>2 DEF FifoInv
<1> QED
  BY <1>8, <1>9

\* The worker keeps the line.
LEMMA WorkerKeepsLine ==
  ASSUME TypeOK, ScheduleInv, FifoInv, Worker, UNCHANGED loopVars
  PROVE  FifoInv'
<1>1. CASE pc = "idle"
  <2>1. TakeItem
    BY <1>1 DEF Worker, ReadRow, ReadSource, ConnectForRun, RegisterConnection, BeginDispatchStep,
       Send, Loop, Expire, NextEvent, ConfirmStep, AppendStep, EvidenceStep, RecoverRead,
       ConnectForRecovery,
       SendBoundary, HandleStep, MarkStep, DisconnectStep, RereadStep, FinalizeStep,
       CommitStep, DropStep, RecheckStep
  <2> QED
    BY <2>1, TakeKeepsLine
<1>2. CASE pc # "idle"
  <2>1. /\ UNCHANGED <<fifo, stop, lpc, work, refusal>> /\ pc \notin {"idle", "exited", "dead"}
    BY <1>2 DEF loopVars, Worker, TakeItem, ReadRow, ReadSource, ConnectForRun,
       RegisterConnection, BeginDispatchStep,
       Send, Loop, Expire, NextEvent, ConfirmStep, AppendStep, EvidenceStep, RecoverRead,
       ConnectForRecovery,
       SendBoundary, HandleStep, MarkStep, DisconnectStep, RereadStep, FinalizeStep,
       CommitStep, DropStep, RecheckStep
  <2>2. LetsGo
    BY <1>2, WorkerStaysInPlace DEF ScheduleInv
  <2>3. RowsAge
    BY WorkerAges
  <2>4. /\ \A e \in Executions : state'[e] # "absent" => state[e] # "absent"
        /\ \A e \in Executions : state'[e] = "queued" => state[e] = "queued"
        /\ UNCHANGED <<qat, clock>>
    BY <2>3 DEF RowsAge
  <2>5. Dated' /\ Closing'
    BY <2>1, <2>4 DEF FifoInv, Dated, Closing
  <2>6. InLine'
    <3>1. Opening' => Opening /\ cur' = cur
      BY <1>2, StillOpening
    <3> QED
      BY <2>1, <2>4, <3>1 DEF FifoInv, InLine, Waits
  <2>7. ASSUME pc' # "dead", NEW e \in Executions, e \in Scheduled, state'[e] = "queued"
        PROVE  e \in Scheduled'
    BY <2>1, <2>2, <2>7 DEF LetsGo, Scheduled, TerminalStates
  <2>8. Remembered'
    BY <2>1, <2>4, <2>7 DEF FifoInv, Remembered, Serving, Queued
  <2>9. Newest'
    <3>1. lpc = "submit" => work \in Executions
      BY DEF TypeOK, LoopTypeOK
    <3> QED
      BY <2>1, <2>4, <2>7, <3>1 DEF FifoInv, Newest
  <2> QED
    BY <2>5, <2>6, <2>8, <2>9 DEF FifoInv
<1> QED
  BY <1>1, <1>2

\* A step of reconcile_after_restart or force_uncertain_active.
LEMMA RoutineKeepsLine ==
  ASSUME TypeOK, ScheduleInv, FifoInv, Visits
  PROVE  FifoInv'
<1>1. /\ UNCHANGED <<workerVars, fifo, stop, pc, mode, cur>> /\ lpc \in {"reconcile", "force"}
  BY RoutineRow DEF workerVars
<1>2. UNCHANGED <<qat, clock>>
  BY DEF Visits, ReconcileRow, ForceRow, RoutineMark, MarkOutputIncomplete, RoutineRead,
     RoutineDisconnect, RoutineFinalize, FinalizeOutput, RoutineCommit, TransitionExecution,
     RoutineRaises, storeVars
<1>r. refusal' = refusal
  BY DEF Visits, ReconcileRow, ForceRow, RoutineMark, RoutineRead, RoutineDisconnect,
     RoutineFinalize, RoutineCommit, RoutineRaises, Routine, RowDone, StopRaises, LoopIdle
<1>3. \A e \in Executions : state'[e] # "absent" => state[e] # "absent"
  <2>1. CASE UNCHANGED state
    BY <2>1
  <2>2. CASE RoutineDisconnect \/ RoutineCommit
    <3>1. /\ work \in Executions /\ state \in [Executions -> ExecStates]
          /\ \/ UNCHANGED state
             \/ \E s \in {"disconnected", goal} : /\ state' = [state EXCEPT ![work] = s]
                                                  /\ s \in AllowedTransitions[state[work]]
      BY <2>2 DEF RoutineDisconnect, RoutineCommit, TransitionExecution, CanTransition,
         TypeOK, LoopTypeOK, StoreTypeOK, storeVars
    <3>2. AllowedTransitions["absent"] = {"queued"} /\ goal # "queued"
      BY DEF AllowedTransitions, ExecStates, TypeOK, LoopTypeOK, TerminalStates
    <3> QED
      BY <3>1, <3>2
  <2> QED
    BY <2>1, <2>2 DEF Visits, ReconcileRow, ForceRow, RoutineMark, MarkOutputIncomplete,
       RoutineRead, RoutineFinalize, FinalizeOutput, RoutineRaises, storeVars
<1>4. \A e \in Executions : state'[e] = "queued" => state[e] = "queued"
  BY RoutineRow DEF TerminalStates
<1>5. Dated' /\ InLine'
  BY <1>1, <1>2, <1>3, <1>r DEF FifoInv, Dated, InLine, Waits, Opening
<1>6. /\ lpc = "reconcile" => lpc' = "reconcile"
      /\ lpc = "force" => lpc' \in {"force", "ready"}
  <2>1. lpc = "reconcile" => lpc' = "reconcile"
    BY ReconciliationProceeds
  <2>2. ASSUME lpc = "force" PROVE lpc' \in {"force", "ready"}
    BY <2>2 DEF Visits, ReconcileRow, ForceRow, RoutineMark, RoutineRead, RoutineDisconnect,
       RoutineFinalize, RoutineCommit, RoutineRaises, Routine, RowDone, StopRaises, LoopIdle
  <2> QED
    BY <2>1, <2>2
<1>7. Closing' /\ Newest'
  BY <1>1, <1>6 DEF FifoInv, Closing, Newest
<1>8. Remembered'
  BY <1>1, <1>4, <1>6, <1>r DEF FifoInv, Remembered, Serving, Queued, Scheduled
<1> QED
  BY <1>5, <1>7, <1>8 DEF FifoInv

\* _reconcile_and_resume hands the queued rows over in their order.
LEMMA ResumedInOrder ==
  ASSUME TypeOK, Resume
  PROVE  \A i, j \in DOMAIN fifo' :
           i < j /\ Waits(i)' /\ Waits(j)' => qat[fifo'[i].exec] < qat[fifo'[j].exec]
<1>1. PICK r \in Ordered(Active), q \in Ordered(Queued) :
        fifo' = ItemsOf("recover", r) \o ItemsOf("execute", q)
  BY DEF Resume
<1> DEFINE n == Cardinality(Active)
           m == Cardinality(Queued)
           R == ItemsOf("recover", r)
           Q == ItemsOf("execute", q)
<1>2. Active \in SUBSET Executions /\ Queued \in SUBSET Executions
  BY DEF Active, Queued
<1>3. n \in Nat /\ m \in Nat /\ r \in [1..n -> Active] /\ q \in [1..m -> Queued]
  BY <1>1, <1>2, OrderedLists
<1>4. \A i, j \in 1..m : i < j => qat[q[i]] < qat[q[j]]
  BY <1>1 DEF Ordered
<1>5. R \in Seq(Items) /\ Q \in Seq(Items)
  BY <1>1, <1>2, ItemsTyped
<1>6. /\ DOMAIN R = 1..n /\ \A i \in 1..n : R[i].kind = "recover"
      /\ DOMAIN Q = 1..m /\ \A i \in 1..m : Q[i].exec = q[i]
  BY <1>3 DEF ItemsOf
<1>7. Len(R) = n /\ Len(Q) = m
  BY <1>3, <1>5, <1>6, LenProperties
<1>8. /\ fifo' = R \o Q /\ Len(R \o Q) = n + m /\ DOMAIN (R \o Q) = 1..(n + m)
      /\ \A i \in 1..n : (R \o Q)[i] = R[i]
      /\ \A i \in (n + 1)..(n + m) : (R \o Q)[i] = Q[i - n]
  <2> HIDE DEF R, Q, n, m
  <2>1. fifo' = R \o Q
    BY <1>1 DEF R, Q
  <2>2. Len(R \o Q) = n + m /\ DOMAIN (R \o Q) = 1..(n + m)
    <3>1. Len(R \o Q) = Len(R) + Len(Q) /\ R \o Q \in Seq(Items)
      BY <1>5, ConcatProperties
    <3> QED
      BY <1>7, <3>1, LenProperties
  <2>3. n \in Nat /\ m \in Nat
    BY <1>5, <1>7
  <2>4. \A i \in 1..n : (R \o Q)[i] = R[i]
    BY <1>5, <1>7, <2>2, <2>3
  <2>5. \A i \in (n + 1)..(n + m) : (R \o Q)[i] = Q[i - n]
    BY <1>5, <1>7, <2>2, <2>3
  <2> QED
    BY <2>1, <2>2, <2>4, <2>5
<1>9. ASSUME NEW i \in 1..(n + m), Waits(i)'
      PROVE  i - n \in 1..m /\ fifo'[i].exec = q[i - n]
  <2> HIDE DEF R, Q, n, m
  <2>1. i \notin 1..n
    BY <1>6, <1>8, <1>9 DEF Waits
  <2>2. i \in (n + 1)..(n + m) /\ i - n \in 1..m
    BY <1>3, <2>1
  <2> QED
    BY <1>6, <1>8, <2>2
<1> SUFFICES ASSUME NEW i \in 1..(n + m), NEW j \in 1..(n + m), i < j, Waits(i)', Waits(j)'
             PROVE  qat[fifo'[i].exec] < qat[fifo'[j].exec]
  BY <1>8
<1>10. i - n < j - n
  BY <1>3
<1> QED
  BY <1>4, <1>9, <1>10

\* The rows of the line exist.
LEMMA LineExists ==
  ASSUME TypeOK, ScheduleInv
  PROVE  /\ \A i \in DOMAIN fifo :
              Waits(i) => fifo[i].exec \in Executions /\ state[fifo[i].exec] # "absent"
         /\ Opening => cur \in Executions /\ state[cur] # "absent"
<1>1. ASSUME NEW i \in DOMAIN fifo, Waits(i)
      PROVE  fifo[i].exec \in Executions /\ state[fifo[i].exec] # "absent"
  BY <1>1, QueueItems DEF Waits, ScheduleInv, Queue, TerminalStates
<1>2. Opening => cur \in Executions /\ state[cur] # "absent"
  BY DEF Opening, ScheduleInv, InPlace, RowInHand, RowIn, TypeOK, WorkerTypeOK, MemoryTypeOK,
         TerminalStates
<1> QED
  BY <1>1, <1>2

\* A request, a stop, a crash or a restart keeps the line.
LEMMA LoopKeepsLine ==
  ASSUME TypeOK, ScheduleInv, ScheduleInv', FifoInv, LoopStep
  PROVE  FifoInv'
<1>t. /\ state \in [Executions -> ExecStates] /\ qat \in [Executions -> Nat] /\ clock \in Nat
      /\ fifo \in Seq(Items)
      /\ lpc = "submit" => work \in Executions
  BY DEF TypeOK, StoreTypeOK, WorkerTypeOK, LoopTypeOK
<1>x. pc = "exited" => lpc = "joining"
  BY DEF ScheduleInv, InPlace, FifoInv, Closing
<1>1. ASSUME NEW k \in Keys \cup {None}, NEW e \in Executions, StartNew(e, k)
      PROVE  FifoInv'
  <2>1. /\ state[e] = "absent" /\ state' = [state EXCEPT ![e] = "queued"]
        /\ qat' = [qat EXCEPT ![e] = clock] /\ clock' = clock + 1
        /\ UNCHANGED <<fifo, stop, pc, mode, cur, refusal>>
        /\ lpc = "ready" /\ lpc' = "submit" /\ work' = e
    BY <1>1 DEF StartNew, CreateExecution, workerVars
  <2>2. \A x \in Executions \ {e} : state'[x] = state[x] /\ qat'[x] = qat[x]
    BY <1>t, <2>1
  <2>3. state'[e] = "queued" /\ qat'[e] = clock
    BY <1>t, <2>1
  <2>4. \A x \in Executions \ {e} : state[x] # "absent" => qat'[x] < clock
    BY <2>2 DEF FifoInv, Dated
  <2>5. Dated'
    <3>1. ASSUME NEW x \in Executions, state'[x] # "absent" PROVE qat'[x] < clock'
      <4>1. qat'[x] <= clock /\ qat'[x] \in Nat
        BY <1>t, <2>1, <2>2, <2>3, <2>4, <3>1
      <4> QED
        BY <1>t, <2>1, <4>1
    <3>2. ASSUME NEW x \in Executions, NEW y \in Executions, state'[x] # "absent",
                 state'[y] # "absent", qat'[x] = qat'[y]
          PROVE  x = y
      <4>1. CASE x = e \/ y = e
        BY <1>t, <2>2, <2>3, <2>4, <3>2, <4>1
      <4>2. CASE x # e /\ y # e
        BY <2>2, <3>2, <4>2 DEF FifoInv, Dated
      <4> QED
        BY <4>1, <4>2
    <3> QED
      BY <3>1, <3>2 DEF Dated
  <2>6. InLine'
    <3>1. \A i \in DOMAIN fifo : Waits(i) => qat'[fifo[i].exec] = qat[fifo[i].exec]
      BY <2>1, <2>2, LineExists
    <3>2. Opening => qat'[cur] = qat[cur]
      BY <2>1, <2>2, LineExists
    <3> QED
      BY <2>1, <3>1, <3>2 DEF FifoInv, InLine, Waits, Opening
  <2>7. Closing' /\ Remembered'
    BY <2>1, <2>2 DEF FifoInv, Closing, Remembered, Serving, Queued, Scheduled
  <2>8. Newest'
    BY <2>1, <2>2, <2>3, <2>4 DEF Newest
  <2> QED
    BY <2>5, <2>6, <2>7, <2>8 DEF FifoInv
<1>2. ASSUME NEW k \in Keys, StartAgain(k)
      PROVE  FifoInv'
  <2>1. /\ UNCHANGED <<state, qat, clock, fifo, stop, pc, mode, cur, refusal>>
        /\ lpc = "ready" /\ lpc' = "submit" /\ work' \in Executions
    BY <1>2 DEF StartAgain, ExistingFor, storeVars, workerVars
  <2>2. Dated' /\ InLine' /\ Closing'
    BY <2>1 DEF FifoInv, Dated, InLine, Waits, Opening, Closing
  <2>3. Remembered'
    BY <2>1 DEF FifoInv, Remembered, Serving, Queued, Scheduled
  <2>4. Newest'
    <3>1. pc # "dead" /\ state[work'] = "queued" /\ refusal[work'] = "none" =>
            work' \in Scheduled
      BY <1>x, <2>1 DEF FifoInv, Remembered, Serving, Queued
    <3> QED
      BY <2>1, <3>1 DEF Newest, Scheduled
  <2> QED
    BY <2>2, <2>3, <2>4 DEF FifoInv
<1>3. CASE Submit
  <2>1. /\ UNCHANGED <<state, qat, clock, stop, pc, mode, cur>>
        /\ lpc = "submit" /\ lpc' = "ready" /\ work \in Executions
        /\ refusal \in [Executions -> {"none", "standing", "past"}]
    BY <1>3, <1>t DEF Submit, storeVars, workerVars, LoopIdle, TypeOK, LoopTypeOK
  <2>2. Dated' /\ Closing' /\ Newest'
    BY <2>1 DEF FifoInv, Dated, Closing, Newest
  <2>a. /\ \A x \in Executions : refusal'[x] = "none" => refusal[x] = "none"
        /\ \A x \in Executions : refusal[x] # "none" => refusal'[x] # "none"
        /\ SessionLeased => work \in Scheduled \/ refusal'[work] # "none"
    BY <1>3, <2>1 DEF Submit, Accepted, SessionLeased
  <2>i. \A i \in DOMAIN fifo : Waits(i) => fifo[i].exec \in Executions
    BY LineExists
  <2>3. CASE /\ fifo' = fifo
             /\ state[work] # "queued" \/ work \in Scheduled \/ refusal'[work] # "none"
    <3>1. InLine'
      BY <2>1, <2>3, <2>a, <2>i DEF FifoInv, InLine, Waits, Opening
    <3>2. Remembered'
      BY <2>1, <2>3, <2>a DEF FifoInv, Remembered, Serving, Queued, Scheduled
    <3> QED
      BY <2>2, <3>1, <3>2 DEF FifoInv
  <2>4. CASE /\ state[work] = "queued" /\ work \notin Scheduled
             /\ fifo' = Append(fifo, [kind |-> "execute", exec |-> work])
    <3>1. /\ Len(fifo) \in Nat /\ DOMAIN fifo = 1..Len(fifo)
          /\ DOMAIN fifo' = 1..(Len(fifo) + 1)
          /\ \A i \in DOMAIN fifo : fifo'[i] = fifo[i]
          /\ fifo'[Len(fifo) + 1].kind = "execute" /\ fifo'[Len(fifo) + 1].exec = work
      BY <1>t, <2>4
    <3>2. work # cur /\ \A i \in DOMAIN fifo : fifo[i].exec # work
      BY <2>4 DEF Scheduled
    <3>3. ASSUME pc # "dead", refusal'[work] = "none",
                 NEW e \in Executions \ {work}, state[e] # "absent"
          PROVE  qat[e] < qat[work]
      BY <2>1, <2>4, <2>a, <3>3 DEF FifoInv, Newest
    <3>4. ASSUME pc # "dead", NEW i \in DOMAIN fifo', NEW j \in DOMAIN fifo', i < j,
                 Waits(i)', Waits(j)', refusal'[fifo'[j].exec] = "none"
          PROVE  qat[fifo'[i].exec] < qat[fifo'[j].exec]
      <4>1. i \in DOMAIN fifo /\ Waits(i) /\ fifo'[i] = fifo[i]
        BY <3>1, <3>4 DEF Waits
      <4>2. fifo[i].exec \in Executions \ {work} /\ state[fifo[i].exec] # "absent"
        BY <3>2, <4>1, LineExists
      <4>3. CASE j \in DOMAIN fifo
        BY <2>a, <2>i, <3>1, <3>4, <4>1, <4>3 DEF FifoInv, InLine, Waits
      <4>4. CASE j = Len(fifo) + 1
        BY <3>1, <3>3, <3>4, <4>1, <4>2, <4>4
      <4> QED
        BY <3>1, <4>3, <4>4
    <3>5. ASSUME pc # "dead", Opening, NEW j \in DOMAIN fifo', Waits(j)',
                 refusal'[fifo'[j].exec] = "none"
          PROVE  qat[cur] < qat[fifo'[j].exec]
      <4>1. CASE j \in DOMAIN fifo
        BY <2>a, <2>i, <3>1, <3>5, <4>1 DEF FifoInv, InLine, Waits
      <4>2. CASE j = Len(fifo) + 1
        BY <3>1, <3>2, <3>3, <3>5, <4>2, LineExists
      <4> QED
        BY <3>1, <4>1, <4>2
    <3>6. InLine'
      BY <2>1, <3>4, <3>5 DEF InLine, Opening
    <3>7. work \in Scheduled' /\ \A x \in Scheduled : x \in Scheduled'
      BY <2>1, <3>1 DEF Scheduled
    <3>8. Remembered'
      BY <2>1, <2>a, <3>7 DEF FifoInv, Remembered, Serving, Queued
    <3> QED
      BY <2>2, <3>6, <3>8 DEF FifoInv
  <2>5. CASE Accepted
    BY <2>3, <2>4, <2>5 DEF Accepted
  <2>6. CASE SessionLeased
    BY <2>3, <2>6, <2>a DEF SessionLeased
  <2> QED
    BY <1>3, <2>5, <2>6 DEF Submit
<1>4. ASSUME NEW e \in Executions, Cancel(e)
      PROVE  FifoInv'
  <2>1. /\ UNCHANGED <<qat, clock, fifo, stop, pc, mode, cur, lpc, work, refusal>>
        /\ lpc = "ready"
        /\ \A x \in Executions : state'[x] = state[x] \/ state'[x] = "interrupted"
        /\ \A x \in Executions : state'[x] # "absent" => state[x] # "absent"
    BY <1>4, <1>t DEF Cancel, RequestCancel, workerVars, loopVars
  <2>2. Dated' /\ InLine' /\ Closing' /\ Newest'
    BY <2>1 DEF FifoInv, Dated, InLine, Waits, Opening, Closing, Newest
  <2>3. Remembered'
    BY <2>1 DEF FifoInv, Remembered, Serving, Queued, Scheduled
  <2> QED
    BY <2>2, <2>3 DEF FifoInv
<1>5. CASE Boot \/ ForceStop \/ ForceDone \/ StopWhenIdle
  <2>1. /\ UNCHANGED <<state, qat, clock, fifo, stop, pc, mode, cur, refusal>>
        /\ \/ lpc' = "reconcile" /\ lpc = "down"
           \/ lpc' \in {"ready", "force"} /\ lpc \in {"ready", "force"}
    BY <1>5 DEF Boot, ForceStop, ForceDone, StopWhenIdle, LoopOnly, LoopIdle, storeVars, workerVars
  <2>2. Dated' /\ InLine' /\ Closing' /\ Newest'
    BY <2>1 DEF FifoInv, Dated, InLine, Waits, Opening, Closing, Newest
  <2>3. Remembered'
    BY <2>1 DEF FifoInv, Remembered, Serving, Queued, Scheduled
  <2> QED
    BY <2>2, <2>3 DEF FifoInv
<1>6. CASE Resume
  <2>1. /\ UNCHANGED <<state, qat, clock, stop, pc, mode, cur>> /\ lpc' = "ready"
        /\ lpc = "reconcile"
    BY <1>6 DEF Resume, storeVars, workerVars, LoopIdle
  <2>2. pc = "idle" /\ ~stop
    BY <2>1 DEF ScheduleInv, Reconciled
  <2>3. Dated' /\ Closing' /\ Newest'
    BY <2>1, <2>2 DEF FifoInv, Dated, Closing, Newest
  <2>4. InLine'
    BY <1>6, <2>1, <2>2, ResumedInOrder DEF InLine, Opening
  <2>5. Remembered'
    <3>1. Owned'
      BY DEF ScheduleInv
    <3> QED
      BY <2>1, <2>2, <3>1 DEF Owned, Remembered, Queued, LeftBehind
  <2> QED
    BY <2>3, <2>4, <2>5 DEF FifoInv
<1>7. CASE CloseCoordinator
  <2>1. /\ UNCHANGED <<state, qat, clock, pc, mode, cur, refusal>>
        /\ lpc = "ready" /\ lpc' = "joining"
        /\ fifo' = Append(fifo, [kind |-> "stop", exec |-> None])
    BY <1>7 DEF CloseCoordinator, storeVars, workerVars, LoopIdle
  <2>2. /\ Len(fifo) \in Nat /\ DOMAIN fifo = 1..Len(fifo)
        /\ DOMAIN fifo' = 1..(Len(fifo) + 1)
        /\ \A i \in DOMAIN fifo : fifo'[i] = fifo[i]
        /\ fifo'[Len(fifo) + 1].kind = "stop"
    BY <1>t, <2>1
  <2>3. \A i \in DOMAIN fifo' : Waits(i)' => i \in DOMAIN fifo /\ Waits(i) /\ fifo'[i] = fifo[i]
    BY <2>2 DEF Waits
  <2>4. InLine'
    BY <2>1, <2>3 DEF FifoInv, InLine, Opening
  <2>5. \A x \in Scheduled : x \in Scheduled'
    BY <2>1, <2>2 DEF Scheduled
  <2>6. Dated' /\ Closing' /\ Newest' /\ Remembered'
    BY <2>1, <2>5 DEF FifoInv, Dated, Closing, Newest, Remembered, Serving, Queued
  <2> QED
    BY <2>4, <2>6 DEF FifoInv
<1>8. CASE Exit \/ Crash \/ CrashInTransaction \/ StartFails
  <2>1. /\ UNCHANGED <<state, qat, clock>> /\ fifo' = <<>> /\ ~stop' /\ lpc' = "down"
        /\ pc' = "idle"
    BY <1>8, StartFailsEnds
       DEF Exit, Crash, CrashInTransaction, ProcessEnds, LoopIdle, Released, storeVars
  <2> QED
    BY <2>1 DEF FifoInv, Dated, InLine, Opening, Closing, Remembered, Serving, Newest
<1>9. CASE RoutineStep
  BY <1>8, <1>9, RoutineEnds, RoutineKeepsLine
<1> QED
  BY <1>1, <1>2, <1>3, <1>4, <1>5, <1>6, <1>7, <1>8, <1>9 DEF LoopStep

\* The line is what it should be in every reachable state.
LEMMA LineHolds == Spec => []FifoInv
<1>1. Init => FifoInv
  BY DEF Init, StoreInit, WorkerInit, FifoInv, Dated, InLine, Opening, Closing, Remembered,
         Serving, Newest
<1>2. TypeOK /\ ScheduleInv /\ ScheduleInv' /\ FifoInv /\ [Next]_allVars => FifoInv'
  <2> SUFFICES ASSUME TypeOK, ScheduleInv, ScheduleInv', FifoInv, [Next]_allVars
               PROVE  FifoInv'
    OBVIOUS
  <2>1. CASE WorkerStep
    BY <2>1, WorkerKeepsLine DEF WorkerStep
  <2>2. CASE KernelStep \/ LinkStep
    <3>1. UNCHANGED <<state, qat, clock, pc, mode, cur, fifo, stop, lpc, work, refusal>>
      BY <2>2 DEF KernelStep, LinkStep, storeVars, workerVars, loopVars
    <3> QED
      BY <3>1, LineUnseen
  <2>3. CASE LoopStep
    BY <2>3, LoopKeepsLine
  <2>4. CASE UNCHANGED allVars
    <3>1. UNCHANGED <<state, qat, clock, pc, mode, cur, fifo, stop, lpc, work, refusal>>
      BY <2>4 DEF allVars, vars, storeVars, workerVars, loopVars
    <3> QED
      BY <3>1, LineUnseen
  <2> QED
    BY <2>1, <2>2, <2>3, <2>4 DEF Next
<1> QED
  BY <1>1, <1>2, TypeCorrect, ScheduleHolds, PTL DEF Spec

\* Only begin_dispatch dispatches a queued row, and only the one in hand.
LEMMA DispatchedByWorker ==
  ASSUME TypeOK, ScheduleInv, [Next]_allVars, NEW f \in Executions,
         state[f] = "queued", state'[f] = "dispatching"
  PROVE  pc = "begin" /\ f = cur
<1>t. state \in [Executions -> ExecStates]
  BY DEF TypeOK, StoreTypeOK
<1>1. CASE WorkerStep
  <2>1. CASE BeginDispatchStep
    BY <1>t, <2>1 DEF BeginDispatchStep, BeginDispatch, storeVars
  <2>2. CASE ConfirmStep
    BY <1>t, <2>2 DEF ConfirmStep, ConfirmDispatch, storeVars
  <2>3. CASE DisconnectStep \/ CommitStep
    <3>1. pc = "commit" => target # "dispatching"
      BY DEF ScheduleInv, InPlace, Failing, TerminalStates
    <3> QED
      BY <1>t, <2>3, <3>1 DEF DisconnectStep, CommitStep, TransitionExecution, storeVars
  <2>4. CASE UNCHANGED state
    BY <2>4
  <2> QED
    BY <1>1, <2>1, <2>2, <2>3, <2>4
       DEF WorkerStep, Worker, TakeItem, ReadRow, ReadSource, ConnectForRun, RegisterConnection,
           Send, Loop, Expire, RequestTimeout, NextEvent, AppendStep, AppendOutput, EvidenceStep,
           RecordEvidence, RecoverRead, ConnectForRecovery, SendBoundary, HandleStep, MarkStep,
           MarkOutputIncomplete, RereadStep, FinalizeStep, FinalizeOutput, DropStep, RecheckStep,
           storeVars
<1>2. CASE LoopStep
  <2>1. CASE RoutineStep
    <3>1. Visits \/ UNCHANGED state
      BY <2>1, RoutineEnds, StartFailsEnds DEF storeVars
    <3> QED
      BY <3>1, RoutineRow DEF TerminalStates
  <2>2. CASE ~RoutineStep
    BY <1>2, <1>t, <2>2 DEF LoopStep, StartNew, CreateExecution, StartAgain, Submit, Cancel,
       RequestCancel, Boot, Resume, ForceStop, ForceDone, StopWhenIdle, CloseCoordinator, Exit,
       Crash, CrashInTransaction, LoopOnly, storeVars
  <2> QED
    BY <2>1, <2>2
<1>3. CASE KernelStep \/ LinkStep \/ UNCHANGED allVars
  BY <1>3 DEF KernelStep, LinkStep, allVars, vars, storeVars
<1> QED
  BY <1>1, <1>2, <1>3 DEF Next

\* execution.start, _reconcile_and_resume and the worker's FIFO together:
\* whatever was accepted first is dispatched first, across repeated requests,
\* cancels, crashes and restarts, and even while the controller closes.  Only
\* a row that its submit refused for a lease may be overtaken.
THEOREM FirstAcceptedFirst == Spec => FifoDispatch
<1>1. ASSUME TypeOK, ScheduleInv, FifoInv, [Next]_allVars, NEW e \in Executions,
             NEW f \in Executions, state[f] = "queued", state'[f] = "dispatching",
             state[e] = "queued", refusal[e] = "none"
      PROVE  qat[f] <= qat[e]
  <2>t. qat[e] \in Nat /\ qat[f] \in Nat
    BY <1>1 DEF TypeOK, StoreTypeOK
  <2>1. pc = "begin" /\ f = cur
    BY <1>1, DispatchedByWorker
  <2>2. Opening /\ Serving /\ pc # "dead"
    BY <1>1, <2>1
       DEF TypeOK, LoopTypeOK, ScheduleInv, InPlace, RowInHand, Reconciled, Opening, Serving
  <2>3. CASE e = f
    BY <2>t, <2>3
  <2>4. CASE e # f /\ e \in Scheduled
    <3>1. PICK i \in DOMAIN fifo : e = fifo[i].exec
      BY <2>1, <2>4 DEF Scheduled
    <3>2. Waits(i)
      <4>1. e \in Executions /\ e # None
        BY <1>1, NoneAssumption
      <4>2. fifo[i] \in Items /\ (fifo[i].kind = "stop" => fifo[i].exec = None)
        BY <1>1, QueueItems
      <4>3. fifo[i].kind # "recover"
        BY <1>1, <3>1 DEF ScheduleInv, Queue, TerminalStates
      <4> QED
        BY <3>1, <4>1, <4>2, <4>3 DEF Waits, Items
    <3> QED
      BY <1>1, <2>t, <2>1, <2>2, <3>1, <3>2 DEF FifoInv, InLine
  <2>5. CASE e # f /\ e \notin Scheduled
    <3>1. lpc = "submit" /\ e = work
      BY <1>1, <2>2, <2>5 DEF FifoInv, Remembered, Queued
    <3> QED
      BY <1>1, <2>t, <2>2, <2>5, <3>1 DEF FifoInv, Newest
  <2> QED
    BY <2>3, <2>4, <2>5
<1>2. TypeOK /\ ScheduleInv /\ FifoInv /\ [Next]_allVars =>
        [\A e, f \in Executions :
           /\ state[f] = "queued" /\ state'[f] = "dispatching"
           /\ state[e] = "queued" /\ refusal[e] = "none"
           => qat[f] <= qat[e]]_state
  BY <1>1
<1> QED
  BY <1>2, TypeCorrect, ScheduleHolds, LineHolds, PTL DEF Spec, FifoDispatch
-----------------------------------------------------------------------------
(***************************************************************************)
(* The promise: what was sent and what was answered.                       *)
(***************************************************************************)

\* Every reply in q was given, according to the answers a.
ReportedIn(q, a) ==
  \A i \in DOMAIN q :
    q[i].kind \in ValidReplies /\ q[i].parent.exec # None
      => q[i].kind \in a[q[i].parent.exec]

\* Taking a message from a channel: the rest, and the message, were answered.
LEMMA ReportedTail ==
  ASSUME NEW q \in Seq(Messages), q # <<>>, NEW a, ReportedIn(q, a)
  PROVE  /\ ReportedIn(Tail(q), a)
         /\ LET m == Head(q) IN
              m.kind \in ValidReplies /\ m.parent.exec # None
                => m.kind \in a[m.parent.exec]
<1>1. /\ Len(q) \in Nat /\ Len(q) > 0 /\ DOMAIN q = 1..Len(q)
      /\ DOMAIN Tail(q) = 1..(Len(q) - 1)
      /\ \A i \in 1..(Len(q) - 1) : Tail(q)[i] = q[i + 1]
      /\ Head(q) = q[1]
  BY HeadTailProperties, LenProperties, EmptySeq
<1>2. ReportedIn(Tail(q), a)
  BY <1>1 DEF ReportedIn
<1>3. 1 \in DOMAIN q
  BY <1>1
<1> QED
  BY <1>1, <1>2, <1>3 DEF ReportedIn

\* Publishing an answered message keeps a channel truthful.
LEMMA ReportedPublish ==
  ASSUME NEW q \in Seq(Messages), NEW m \in Messages, NEW p \in Publish(q, m),
         NEW a, NEW b, ReportedIn(q, a),
         \A e \in Executions : a[e] \subseteq b[e],
         m.kind \in ValidReplies /\ m.parent.exec # None
           => m.kind \in b[m.parent.exec]
  PROVE  ReportedIn(p, b)
<1>1. /\ Len(q) \in Nat /\ DOMAIN q = 1..Len(q)
      /\ DOMAIN Append(q, m) = 1..(Len(q) + 1)
      /\ \A i \in 1..Len(q) : Append(q, m)[i] = q[i]
      /\ Append(q, m)[Len(q) + 1] = m
  BY AppendProperties, LenProperties
<1>2. \A i \in 1..Len(q) : q[i] \in Messages
  BY ElementOfSeq
<1>3. \A i \in 1..Len(q) : q[i].parent.exec \in Executions \cup {None}
  BY <1>2 DEF Messages, Requests
<1>4. ReportedIn(q, b)
  BY <1>1, <1>3 DEF ReportedIn
<1>5. ReportedIn(Append(q, m), b)
  <2> SUFFICES ASSUME NEW i \in 1..(Len(q) + 1),
                      Append(q, m)[i].kind \in ValidReplies,
                      Append(q, m)[i].parent.exec # None
               PROVE  Append(q, m)[i].kind \in b[Append(q, m)[i].parent.exec]
    BY <1>1 DEF ReportedIn
  <2>1. CASE i = Len(q) + 1
    BY <1>1, <2>1
  <2>2. CASE i \in 1..Len(q)
    BY <1>1, <1>4, <2>2 DEF ReportedIn
  <2> QED
    BY <1>1, <2>1, <2>2
<1> QED
  BY <1>4, <1>5 DEF Publish

\* WireTruth with its two channels as parameters, now and after a step.
LEMMA WireIsReported == WireTruth <=> ReportedIn(shell, answers)
                                       /\ ReportedIn(iopub, answers)
BY DEF WireTruth, Reported, ReportedIn

\* The same after a step.
LEMMA WireIsReportedNext == WireTruth' <=> ReportedIn(shell', answers')
                                            /\ ReportedIn(iopub', answers')
BY DEF WireTruth, Reported, ReportedIn

\* A request handed over is known to the kernel only once it is counted.
LEMMA ToldAppend ==
  ASSUME LinkTypeOK, KernelTold, NEW r \in Requests,
         r.exec # None => sent'[r.exec] = 1,
         \A e \in Executions : sent[e] = 1 => sent'[e] = 1,
         kq' \in {kq, Append(kq, r)}
  PROVE  KernelTold'
<1>1. /\ Len(kq) \in Nat /\ DOMAIN kq = 1..Len(kq)
      /\ DOMAIN Append(kq, r) = 1..(Len(kq) + 1)
      /\ \A i \in 1..Len(kq) : Append(kq, r)[i] = kq[i]
      /\ Append(kq, r)[Len(kq) + 1] = r
  BY AppendProperties, LenProperties DEF LinkTypeOK
<1>0. \A i \in 1..Len(kq) : kq[i] \in Requests
  BY ElementOfSeq DEF LinkTypeOK
<1>2. \A i \in 1..Len(kq) : kq[i].exec \in Executions \cup {None}
  BY <1>0 DEF Requests
<1> QED
  BY <1>1, <1>2 DEF KernelTold

\* A request the kernel is done with leaves its queue.
LEMMA ToldTail ==
  ASSUME LinkTypeOK, KernelTold, kq # <<>>, kq' = Tail(kq), sent' = sent
  PROVE  KernelTold'
<1>1. /\ Len(kq) \in Nat /\ DOMAIN kq = 1..Len(kq)
      /\ DOMAIN Tail(kq) = 1..(Len(kq) - 1)
      /\ \A i \in 1..(Len(kq) - 1) : Tail(kq)[i] = kq[i + 1]
  BY HeadTailProperties, LenProperties, EmptySeq DEF LinkTypeOK
<1> QED
  BY <1>1 DEF KernelTold

\* The kernel executes only what was sent.
LEMMA CurrentTold ==
  ASSUME LinkTypeOK, KernelTold, Executing
  PROVE  Current.exec \in Executions /\ sent[Current.exec] = 1
<1>1. kq # <<>> /\ 1 \in DOMAIN kq /\ Current = kq[1]
  BY HeadTailProperties, LenProperties, EmptySeq DEF LinkTypeOK, Executing, Current
<1>2. Current.exec \in Executions
  BY <1>1, CurrentType DEF Executing
<1> QED
  BY <1>1, <1>2 DEF KernelTold, Executing

-----------------------------------------------------------------------------
\* The moves that the transition graph leaves to transition_execution.
LEMMA TransitionMoves ==
  ASSUME StoreTypeOK, NEW e \in Executions,
         NEW s \in {"none", "disconnected"} \cup TerminalStates,
         CanTransition(e, s)
  PROVE  \/ s = "disconnected" /\ state[e] = "running"
         \/ s = "unknown" /\ state[e] \in {"dispatching", "disconnected"}
         \/ s = "interrupted" /\ state[e] = "queued"
         \/ /\ s \in TerminalStates \ {"unknown"}
            /\ state[e] \in {"running", "disconnected"}
BY DEF StoreTypeOK, CanTransition, AllowedTransitions, ExecStates, ActiveStates,
       TerminalStates

\* A verdict stays justified: answers are never withdrawn.
LEMMA JustifiedStays ==
  ASSUME NEW e \in Executions, NEW s, Promise!Justified(e, s),
         \A f \in Executions : answers[f] \subseteq answers'[f]
  PROVE  Promise!Justified(e, s)'
BY DEF Promise!Justified

\* The evidence rules only reach verdicts that the answers justify.
LEMMA VerdictJustified ==
  ASSUME NEW e \in Executions, NEW r \in ValidReplies \cup {"none"},
         NEW i \in BOOLEAN, NEW w \in Intents,
         r # "none" => r \in answers[e],
         w = "timed_out" => e \in Timed,
         TerminalState(r, i, w) # "none"
  PROVE  Promise!Justified(e, TerminalState(r, i, w))
BY DEF TerminalState, Promise!Justified, ValidReplies, Intents

-----------------------------------------------------------------------------
\* What the worker and its queue contribute to PromiseInv when the rows, the
\* wire and the loop stay as they are.
LEMMA Frames ==
  ASSUME TypeOK, PromiseInv, answers' = answers
  PROVE  /\ UNCHANGED <<sent, kq>> => KernelTold'
         /\ UNCHANGED <<shell, iopub>> => WireTruth'
         /\ ev' = ev => RowTruth'
         /\ UNCHANGED <<goal, work, step>> => GoalTruth'
         /\ UNCHANGED <<state, sent>> => Handed'
<1>1. UNCHANGED <<sent, kq>> => KernelTold'
  BY DEF PromiseInv, KernelTold
<1>2. UNCHANGED <<shell, iopub>> => WireTruth'
  BY DEF PromiseInv, WireTruth, Reported
<1>3. ev' = ev => RowTruth'
  BY DEF PromiseInv, RowTruth
<1>4. UNCHANGED <<goal, work, step>> => GoalTruth'
  BY DEF PromiseInv, GoalTruth, Promise!Justified
<1>5. UNCHANGED <<state, sent>> => Handed'
  BY DEF PromiseInv, Handed
<1> QED
  BY <1>1, <1>2, <1>3, <1>4, <1>5

\* The worker's share of the invariant.
WorkerTruth == AboutToSend /\ Watching /\ MemoryTruth /\ TargetTruth

\* A worker between two items holds nothing.
LEMMA ReleasedTruth ==
  ASSUME NEW p \in {"idle", "exited", "dead"}, Released(p)
  PROVE  WorkerTruth'
BY DEF Released, NewProof, WorkerTruth, AboutToSend, Watching, MemoryTruth,
       TargetTruth

Watch == {"loop", "event", "expire", "confirm", "append", "evidence"}

\* How the worker's truth survives a move between two places of its program.
LEMMA MoveTruth ==
  ASSUME TypeOK, PromiseInv, UNCHANGED <<answers, sent>>, cur \in Executions
  PROVE  /\ \A p \in Working \ ({"send", "info", "finalize", "commit"} \cup Watch) :
              Go(p) => WorkerTruth'
         /\ \A h : Handle(h) => WorkerTruth'
         /\ \A p \in Watch \ {"expire", "confirm"} : pc \in Watch /\ Go(p) => WorkerTruth'
         /\ Raise => WorkerTruth'
         /\ Finalizing("unknown") => WorkerTruth'
<1> USE DEF PromiseInv, WorkerTruth, AboutToSend, Watching, MemoryTruth, TargetTruth
<1>1. ASSUME NEW p \in Working \ ({"send", "info", "finalize", "commit"} \cup Watch),
             Go(p)
      PROVE  WorkerTruth'
  BY <1>1 DEF Go, Working, Watch
<1>2. ASSUME NEW h, Handle(h) PROVE WorkerTruth'
  BY <1>2 DEF Handle
<1>3. ASSUME NEW p \in Watch \ {"expire", "confirm"}, pc \in Watch, Go(p)
      PROVE  WorkerTruth'
  BY <1>3 DEF Go, Watch
<1>4. Raise => WorkerTruth'
  BY <1>2, ReleasedTruth DEF Raise
<1>5. Finalizing("unknown") => WorkerTruth'
  BY DEF Finalizing
<1> QED
  BY <1>1, <1>2, <1>3, <1>4, <1>5

-----------------------------------------------------------------------------
\* The effect of the store operations on the rows' share of the invariant.
LEMMA StoreTruth ==
  ASSUME TypeOK, PromiseInv, NEW e \in Executions, UNCHANGED <<answers, sent>>
  PROVE  /\ \A n, m : BeginDispatch(e, n, m) /\ CanBeginDispatch(e)
                         => Handed' /\ RowTruth'
         /\ ConfirmDispatch(e) => Handed' /\ RowTruth'
         /\ \A s : TransitionExecution(e, s) /\ s \notin {"absent", "queued"}
                     => Handed' /\ RowTruth'
         /\ AppendOutput(e) \/ MarkOutputIncomplete(e) \/ FinalizeOutput(e)
              => Handed' /\ RowTruth'
         /\ RequestCancel(e) => Handed' /\ RowTruth'
         /\ RequestTimeout(e) /\ e \in Timed => Handed' /\ RowTruth'
<1> USE DEF TypeOK, StoreTypeOK, Evidence, PromiseInv, Handed, RowTruth
<1>1. ASSUME NEW n, NEW m, BeginDispatch(e, n, m), CanBeginDispatch(e)
      PROVE  Handed' /\ RowTruth'
  BY <1>1 DEF BeginDispatch, CanBeginDispatch
<1>2. ConfirmDispatch(e) => Handed' /\ RowTruth'
  BY DEF ConfirmDispatch
<1>3. ASSUME NEW s, TransitionExecution(e, s), s \notin {"absent", "queued"}
      PROVE  Handed' /\ RowTruth'
  BY <1>3 DEF TransitionExecution
<1>4. AppendOutput(e) \/ MarkOutputIncomplete(e) \/ FinalizeOutput(e)
        => Handed' /\ RowTruth'
  BY DEF AppendOutput, MarkOutputIncomplete, FinalizeOutput
<1>5. RequestCancel(e) => Handed' /\ RowTruth'
  BY DEF RequestCancel
<1>6. RequestTimeout(e) /\ e \in Timed => Handed' /\ RowTruth'
  BY DEF RequestTimeout
<1> QED
  BY <1>1, <1>2, <1>3, <1>4, <1>5, <1>6

\* A step of the worker thread keeps PromiseInv.
LEMMA WorkerKeepsInv ==
  ASSUME TypeOK, PromiseInv, WorkerStep
  PROVE  PromiseInv'
<1> USE DEF WorkerStep, storeVars, linkVars, kernelVars, wireVars, loopVars
<1>m. MemoryTypeOK
  BY DEF TypeOK, WorkerTypeOK
<1>c. pc \notin {"idle", "exited", "dead"} => cur \in Executions
  BY <1>m DEF MemoryTypeOK
<1>w. /\ WorkerTruth
      /\ AboutToSend /\ Watching /\ MemoryTruth /\ TargetTruth /\ RowTruth /\ Handed
  BY DEF PromiseInv, WorkerTruth
<1>q. ASSUME answers' = answers, sent' = sent, kq' = kq, UNCHANGED <<shell, iopub>>,
             Handed', RowTruth', WorkerTruth'
      PROVE  PromiseInv'
  BY <1>q, Frames DEF PromiseInv, WorkerTruth
<1>s. ASSUME UNCHANGED storeVars, UNCHANGED <<answers, sent>>
      PROVE  Handed' /\ RowTruth'
  BY <1>s, Frames
<1>p. Working = {"read", "source", "connect", "register", "begin", "send", "loop",
           "expire", "event", "confirm", "append", "evidence", "recover",
           "info", "handle", "mark", "disconnect", "reread", "finalize",
           "commit", "drop", "recheck"}
  BY DEF Working, Places
<1>1. CASE TakeItem
  <2>1. cur = None /\ proof.reply = "none" /\ proof.want # "timed_out"
    BY <1>1, <1>w, NoneAssumption, TimedAssumption DEF TakeItem, MemoryTruth
  <2>2. WorkerTruth'
    <3>1. CASE Head(fifo).kind = "stop"
      BY <1>1, <3>1, ReleasedTruth DEF TakeItem
    <3>2. CASE Head(fifo).kind # "stop"
      BY <1>1, <2>1, <3>2 DEF TakeItem, WorkerTruth, AboutToSend, Watching,
                              MemoryTruth, TargetTruth
    <3> QED
      BY <3>1, <3>2
  <2> QED
    BY <1>1, <1>q, <1>s, <2>2 DEF TakeItem
<1>2. CASE ReadRow
  <2>1. WorkerTruth'
    <3>1. CASE state[cur] # "queued"
      BY <1>2, <3>1, ReleasedTruth DEF ReadRow
    <3>2. CASE state[cur] = "queued" /\ session = 0
      BY <1>2, <1>w, <3>2 DEF ReadRow, Finalizing, WorkerTruth, AboutToSend,
                              Watching, MemoryTruth, TargetTruth
    <3>3. CASE state[cur] = "queued" /\ session # 0
      BY <1>2, <1>w, <3>3 DEF ReadRow, WorkerTruth, AboutToSend,
                              Watching, MemoryTruth, TargetTruth
    <3> QED
      BY <3>1, <3>2, <3>3
  <2> QED
    BY <1>2, <1>q, <1>s, <2>1 DEF ReadRow
<1>3. CASE ReadSource
  <2>1. WorkerTruth'
    BY <1>3, <1>c, <1>p, MoveTruth DEF ReadSource, Watch
  <2> QED
    BY <1>3, <1>q, <1>s, <2>1 DEF ReadSource
<1>4. CASE ConnectForRun
  <2>1. UNCHANGED <<answers, sent, kq, shell, iopub>>
    BY <1>4 DEF ConnectForRun, Connect, ConnectFails
  <2>2. WorkerTruth'
    BY <1>4, <1>c, <1>p, <2>1, MoveTruth DEF ConnectForRun, Watch
  <2> QED
    BY <1>4, <1>q, <1>s, <2>1, <2>2 DEF ConnectForRun
<1>5. CASE BeginDispatchStep
  <2>1. CASE CanBeginDispatch(cur)
    <3>1. Handed' /\ RowTruth'
      BY <1>5, <1>c, <2>1, StoreTruth DEF BeginDispatchStep
    <3>2. WorkerTruth'
      BY <1>5, <1>c, <1>w, <2>1
         DEF BeginDispatchStep, CanBeginDispatch, BeginDispatch, Go, TypeOK,
             StoreTypeOK, Handed, WorkerTruth, AboutToSend, Watching, MemoryTruth,
             TargetTruth
    <3> QED
      BY <1>5, <1>q, <3>1, <3>2 DEF BeginDispatchStep
  <2>2. CASE ~CanBeginDispatch(cur)
    <3>1. WorkerTruth'
      BY <1>5, <1>c, <2>2, MoveTruth DEF BeginDispatchStep
    <3> QED
      BY <1>5, <1>q, <1>s, <2>2, <3>1 DEF BeginDispatchStep
  <2> QED
    BY <2>1, <2>2
<1>6. CASE Send
  <2>1. /\ cur \in Executions /\ sent[cur] = 0
        /\ state[cur] \in {"dispatching", "unknown"}
    BY <1>6, <1>c, <1>w DEF Send, AboutToSend
  <2>2. /\ sent'[cur] = 1
        /\ \A e \in Executions \ {cur} : sent'[e] = sent[e]
    BY <1>6, <2>1 DEF Send, TypeOK, WorkerTypeOK
  <2>3. UNCHANGED <<answers, shell, iopub, state, ev, loopVars>>
    BY <1>6 DEF Send, SendReturns, SendRaises
  <2>4. kq' \in {kq, Append(kq, ExecRequest(cur))}
    BY <1>6 DEF Send, SendReturns, SendRaises
  <2>5. KernelTold'
    <3>1. ExecRequest(cur) \in Requests /\ ExecRequest(cur).exec = cur
      BY <2>1, ConstantsTyped DEF ExecRequest
    <3>2. \A e \in Executions : sent[e] = 1 => sent'[e] = 1
      BY <2>1, <2>2
    <3> QED
      BY <2>2, <2>4, <3>1, <3>2, ToldAppend DEF TypeOK, PromiseInv
  <2>6. Handed'
    BY <1>w, <2>1, <2>2, <2>3 DEF Handed
  <2>7. WorkerTruth'
    BY <1>6, <1>w, <2>1, <2>2, <2>3
       DEF Send, Go, Handle, WorkerTruth, AboutToSend, Watching, MemoryTruth,
           TargetTruth
  <2> QED
    BY <2>3, <2>5, <2>6, <2>7, Frames DEF PromiseInv, WorkerTruth
<1>7. CASE Loop
  <2>1. UNCHANGED <<answers, sent, kq, shell, iopub>>
    BY <1>7 DEF Loop, Interrupting, InterruptReturns, InterruptRaises
  <2>2. cur \in Executions /\ pc \in Watch
    BY <1>7, <1>c DEF Loop, Watch
  <2>3. ASSUME NEW i \in Intents, Interrupting(i), i = "timed_out" => cur \in Timed
        PROVE  WorkerTruth'
    BY <1>m, <1>w, <2>1, <2>2, <2>3, MoveTruth
       DEF Interrupting, RequestInterrupt, MemoryTypeOK, Proofs, WorkerTruth,
           AboutToSend, Watching, MemoryTruth, TargetTruth, Watch
  <2>4. /\ ev[cur].intent \in Intents
        /\ ev[cur].intent = "timed_out" => cur \in Timed
    BY <1>w, <2>2 DEF RowTruth, TypeOK, StoreTypeOK, Evidence
  <2>5. ASSUME Go("expire"), cur \in Timed PROVE WorkerTruth'
    BY <1>w, <2>1, <2>2, <2>5
       DEF Go, WorkerTruth, AboutToSend, Watching, MemoryTruth, TargetTruth, Watch
  <2>6. "event" \in Watch \ {"expire", "confirm"}
    BY DEF Watch
  <2>7. WorkerTruth'
    BY <1>7, <2>1, <2>2, <2>3, <2>4, <2>5, <2>6, MoveTruth, ReleasedTruth DEF Loop
  <2> QED
    BY <1>7, <1>q, <1>s, <2>1, <2>7 DEF Loop
<1>8. CASE Expire
  <2>1. UNCHANGED <<answers, sent, kq, shell, iopub>>
    BY <1>8 DEF Expire, Interrupting, InterruptReturns, InterruptRaises
  <2>2. cur \in Executions /\ pc \in Watch /\ cur \in Timed
    BY <1>8, <1>c, <1>w DEF Expire, Watch, MemoryTruth
  <2>3. Handed' /\ RowTruth'
    BY <1>8, <2>1, <2>2, StoreTruth DEF Expire
  <2>4. ASSUME NEW i, Interrupting(i) PROVE WorkerTruth'
    BY <1>m, <1>w, <2>1, <2>2, <2>4, MoveTruth
       DEF Interrupting, MemoryTypeOK, Proofs, WorkerTruth,
           AboutToSend, Watching, MemoryTruth, TargetTruth, Watch
  <2>5. WorkerTruth'
    BY <1>8, <2>1, <2>2, <2>4, MoveTruth DEF Expire, Watch
  <2> QED
    BY <1>8, <1>q, <2>1, <2>3, <2>5 DEF Expire
<1>9. CASE NextEvent
  <2>1. cur \in Executions /\ pc \in Watch
    BY <1>9, <1>c DEF NextEvent, Watch
  <2>2. CASE \E m \in {Head(q) : q \in {shell, iopub} \ {<<>>}} :
               /\ TakeMessage(m)
               /\ ObserveExecution(m) \/ ObserveBoundary(m) \/ Unmatched(m)
    <3>1. PICK m : /\ TakeMessage(m)
                   /\ ObserveExecution(m) \/ ObserveBoundary(m) \/ Unmatched(m)
      BY <2>2
    <3>2. UNCHANGED <<answers, sent, kq>>
      BY <1>9, <3>1 DEF NextEvent, TakeMessage
    <3>3. ReportedIn(shell, answers) /\ ReportedIn(iopub, answers)
      BY WireIsReported DEF PromiseInv
    <3>4. /\ ReportedIn(shell', answers) /\ ReportedIn(iopub', answers)
          /\ m.kind \in ValidReplies /\ m.parent.exec # None
               => m.kind \in answers[m.parent.exec]
      BY <3>1, <3>3, ReportedTail DEF TakeMessage, TypeOK, LinkTypeOK
    <3>5. WireTruth'
      BY <3>2, <3>4, WireIsReportedNext
    <3>6. ASSUME ObserveExecution(m) PROVE WorkerTruth'
      <4>1. m.parent.exec = cur /\ cur # None
        BY <2>1, <3>6, NoneAssumption DEF ObserveExecution, ExecRequest
      <4>2. m.kind \in ValidReplies => m.kind \in answers[cur]
        BY <3>4, <4>1
      <4>3. /\ proof'.reply # "none" => proof'.reply \in answers[cur]
            /\ proof'.want = proof.want
        BY <1>m, <1>w, <3>6, <4>2
           DEF ObserveExecution, MemoryTypeOK, Proofs, MemoryTruth
      <4>4. pc' \in Watch \ {"expire"} /\ (pc' = "confirm" => mode = "run")
        BY <3>6 DEF ObserveExecution, AfterConfirm, Watch
      <4> QED
        BY <1>w, <2>1, <3>2, <3>6, <4>1, <4>3, <4>4
           DEF ObserveExecution, WorkerTruth, AboutToSend, Watching,
               MemoryTruth, TargetTruth, Watch
    <3>7. ASSUME ObserveBoundary(m) PROVE WorkerTruth'
      BY <1>w, <2>1, <3>2, <3>7
         DEF ObserveBoundary, WorkerTruth, AboutToSend, Watching, MemoryTruth,
             TargetTruth, Watch
    <3>8. ASSUME Unmatched(m) PROVE WorkerTruth'
      BY <2>1, <3>2, <3>8, MoveTruth DEF Unmatched, Watch
    <3>9. WorkerTruth'
      BY <3>1, <3>6, <3>7, <3>8
    <3>10. Handed' /\ RowTruth'
      BY <1>9, <1>s, <3>2 DEF NextEvent
    <3> QED
      BY <3>2, <3>5, <3>9, <3>10, Frames DEF PromiseInv, WorkerTruth
  <2>3. CASE NextEventTimesOut /\ Go("loop") /\ UNCHANGED linkVars
    <3>1. WorkerTruth'
      BY <1>9, <2>1, <2>3, MoveTruth DEF NextEvent, Watch
    <3> QED
      BY <1>9, <1>q, <1>s, <2>3, <3>1 DEF NextEvent
  <2>4. CASE /\ NextEventDisconnects /\ UNCHANGED linkVars
             /\ IF mode = "run"
                THEN Handle("lost")
                ELSE /\ pc' = "drop" /\ handler' = "retry"
                     /\ UNCHANGED <<mode, cur, seen, target, proof, probe, msg,
                                    asked>>
    <3>1. WorkerTruth'
      BY <1>9, <1>w, <2>1, <2>4, MoveTruth
         DEF NextEvent, WorkerTruth, AboutToSend, Watching, MemoryTruth, TargetTruth
    <3> QED
      BY <1>9, <1>q, <1>s, <2>4, <3>1 DEF NextEvent
  <2> QED
    BY <1>9, <2>2, <2>3, <2>4 DEF NextEvent
<1>10. CASE ConfirmStep
  <2>1. /\ cur \in Executions /\ pc \in Watch
        /\ AfterConfirm(msg.kind) \in Watch \ {"expire", "confirm"}
    BY <1>10, <1>c DEF ConfirmStep, AfterConfirm, Watch
  <2>2. Handed' /\ RowTruth'
    BY <1>10, <1>s, <2>1, StoreTruth DEF ConfirmStep
  <2>3. WorkerTruth'
    BY <1>10, <2>1, MoveTruth DEF ConfirmStep
  <2> QED
    BY <1>10, <1>q, <2>2, <2>3 DEF ConfirmStep
<1>11. CASE AppendStep
  <2>1. cur \in Executions /\ pc \in Watch
    BY <1>11, <1>c DEF AppendStep, Watch
  <2>2. Handed' /\ RowTruth'
    BY <1>11, <1>s, <2>1, StoreTruth DEF AppendStep
  <2>3. WorkerTruth'
    BY <1>11, <2>1, MoveTruth DEF AppendStep, Watch
  <2> QED
    BY <1>11, <1>q, <2>2, <2>3 DEF AppendStep
<1>12. CASE EvidenceStep
  <2>1. /\ cur \in Executions /\ pc \in Watch
        /\ proof.reply \in ValidReplies \cup {"none"}
        /\ proof.idle \in BOOLEAN /\ proof.want \in Intents
        /\ proof.reply # "none" => proof.reply \in answers[cur]
        /\ proof.want = "timed_out" => cur \in Timed
    BY <1>12, <1>c, <1>m, <1>w
       DEF EvidenceStep, Watch, MemoryTypeOK, Proofs, MemoryTruth
  <2>2. Handed' /\ RowTruth'
    <3>1. CASE CanRecordEvidence(cur)
      <4>1. PICK r \in {proof.reply, "none"}, i \in BOOLEAN :
              RecordEvidence(cur, r, i)
        BY <1>12, <3>1 DEF EvidenceStep
      <4> DEFINE row == [ev[cur] EXCEPT
                           !.reply = IF r = "none" THEN ev[cur].reply ELSE r,
                           !.idle  = IF i THEN TRUE ELSE ev[cur].idle]
      <4>2. ev' = [ev EXCEPT ![cur] = row]
        BY <4>1 DEF RecordEvidence
      <4>3. ev[cur] \in Evidence
        BY <2>1 DEF TypeOK, StoreTypeOK
      <4>4. /\ row.reply = IF r = "none" THEN ev[cur].reply ELSE r
            /\ row.intent = ev[cur].intent
        BY <4>3 DEF Evidence
      <4>5. RowTruth'
        BY <1>12, <1>w, <2>1, <4>2, <4>4
           DEF EvidenceStep, RowTruth, TypeOK, StoreTypeOK
      <4> QED
        BY <1>12, <4>1, <4>5, Frames DEF EvidenceStep, RecordEvidence
    <3>2. CASE ~CanRecordEvidence(cur)
      BY <1>12, <1>s, <3>2 DEF EvidenceStep
    <3> QED
      BY <3>1, <3>2
  <2>3. WorkerTruth'
    <3> DEFINE t == TerminalState(proof.reply, proof.idle, proof.want)
    <3>1. CASE CanRecordEvidence(cur) /\ t = "none"
      BY <1>12, <2>1, <3>1, MoveTruth DEF EvidenceStep, Watch
    <3>2. CASE CanRecordEvidence(cur) /\ t # "none"
      <4>1. Promise!Justified(cur, t)
        BY <2>1, <3>2, VerdictJustified
      <4>2. UNCHANGED <<cur, proof, answers, sent>> /\ pc' = "finalize" /\ target' = t
        BY <1>12, <3>2 DEF EvidenceStep, Finalizing
      <4>3. Promise!Justified(cur, t)'
        BY <2>1, <4>1, <4>2, JustifiedStays
      <4>4. Promise!Justified(cur, target)'
        BY <4>2, <4>3 DEF Promise!Justified
      <4> QED
        BY <1>w, <4>2, <4>4
           DEF WorkerTruth, AboutToSend, Watching, MemoryTruth, TargetTruth
    <3>3. CASE ~CanRecordEvidence(cur)
      BY <1>12, <2>1, <3>3, MoveTruth DEF EvidenceStep
    <3> QED
      BY <3>1, <3>2, <3>3
  <2> QED
    BY <1>12, <1>q, <2>2, <2>3 DEF EvidenceStep
<1>13. CASE RecoverRead
  <2>1. CASE stop \/ state[cur] # "disconnected"
    <3>1. WorkerTruth'
      BY <1>13, <2>1, ReleasedTruth DEF RecoverRead
    <3> QED
      BY <1>13, <1>q, <1>s, <3>1 DEF RecoverRead
  <2>2. CASE ~(stop \/ state[cur] # "disconnected")
    <3>1. cur \in Executions /\ cur # None
      BY <1>13, <1>c, NoneAssumption DEF RecoverRead
    <3>2. /\ proof'.reply # "none" => proof'.reply \in answers[cur]
          /\ proof'.want = "timed_out" => cur \in Timed
      BY <1>13, <1>w, <2>2, <3>1 DEF RecoverRead, Restored, RowTruth
    <3>3. WorkerTruth'
      BY <1>13, <2>2, <3>1, <3>2
         DEF RecoverRead, WorkerTruth, AboutToSend, Watching, MemoryTruth, TargetTruth
    <3> QED
      BY <1>13, <1>q, <1>s, <3>3 DEF RecoverRead
  <2> QED
    BY <2>1, <2>2
<1>14. CASE ConnectForRecovery
  <2>1. UNCHANGED <<answers, sent, kq, shell, iopub>>
    BY <1>14 DEF ConnectForRecovery, Connect, ConnectFails
  <2>2. ASSUME Go("info") PROVE WorkerTruth'
    BY <1>14, <1>w, <2>1, <2>2
       DEF ConnectForRecovery, Go, WorkerTruth, AboutToSend, Watching, MemoryTruth,
           TargetTruth
  <2>3. WorkerTruth'
    BY <1>14, <1>c, <1>p, <2>1, <2>2, MoveTruth
       DEF ConnectForRecovery, SameKernel, Watch
  <2> QED
    BY <1>14, <1>q, <1>s, <2>1, <2>3 DEF ConnectForRecovery
<1>15. CASE SendBoundary
  <2>1. cur \in Executions /\ mode = "recover" /\ boundary + 1 \in Nat
    BY <1>15, <1>c, <1>w DEF SendBoundary, Watching, TypeOK, WorkerTypeOK
  <2> DEFINE r == InfoRequest(boundary + 1)
  <2>2. r \in Requests /\ r.exec = None
    BY <2>1, ConstantsTyped DEF InfoRequest
  <2>3. UNCHANGED <<answers, sent, shell, iopub>> /\ kq' \in {kq, Append(kq, r)}
    BY <1>15 DEF SendBoundary, SendReturns, SendRaises
  <2>4. KernelTold'
    BY <2>2, <2>3, ToldAppend DEF TypeOK, PromiseInv
  <2>5. WorkerTruth'
    BY <1>15, <1>w, <2>1, <2>3
       DEF SendBoundary, WorkerTruth, AboutToSend, Watching, MemoryTruth, TargetTruth
  <2>6. Handed' /\ RowTruth'
    BY <1>15, <1>s, <2>3 DEF SendBoundary
  <2> QED
    BY <2>3, <2>4, <2>5, <2>6, Frames DEF PromiseInv, WorkerTruth
<1>16. CASE HandleStep
  <2>1. cur \in Executions /\ UNCHANGED <<answers, sent>>
    BY <1>16, <1>c DEF HandleStep
  <2>2. ASSUME state[cur] = "queued", Finalizing("interrupted") PROVE WorkerTruth'
    BY <1>16, <1>w, <2>1, <2>2
       DEF HandleStep, Finalizing, WorkerTruth, AboutToSend, Watching, MemoryTruth,
           TargetTruth
  <2>3. ASSUME pc' = "mark",
               UNCHANGED <<mode, cur, seen, handler, proof, probe, msg, asked>>
        PROVE  WorkerTruth'
    BY <1>w, <2>1, <2>3 DEF WorkerTruth, AboutToSend, Watching, MemoryTruth, TargetTruth
  <2>4. ASSUME Go("drop") PROVE WorkerTruth'
    BY <1>p, <2>1, <2>4, MoveTruth DEF Watch
  <2>5. WorkerTruth'
    BY <1>16, <2>1, <2>2, <2>3, <2>4, MoveTruth, ReleasedTruth DEF HandleStep
  <2> QED
    BY <1>16, <1>q, <1>s, <2>5 DEF HandleStep
<1>17. CASE MarkStep
  <2>1. cur \in Executions /\ UNCHANGED <<answers, sent>>
    BY <1>17, <1>c DEF MarkStep
  <2>2. Handed' /\ RowTruth'
    BY <1>17, <2>1, StoreTruth DEF MarkStep
  <2>3. ASSUME Go("drop") \/ Go("disconnect") PROVE WorkerTruth'
    BY <1>p, <2>1, <2>3, MoveTruth DEF Watch
  <2>4. WorkerTruth'
    BY <1>17, <2>1, <2>3, MoveTruth DEF MarkStep
  <2> QED
    BY <1>17, <1>q, <2>2, <2>4 DEF MarkStep
<1>18. CASE DisconnectStep
  <2>1. cur \in Executions /\ UNCHANGED <<answers, sent>>
    BY <1>18, <1>c DEF DisconnectStep
  <2>2. Handed' /\ RowTruth'
    BY <1>18, <1>s, <2>1, StoreTruth DEF DisconnectStep
  <2>3. WorkerTruth'
    BY <1>18, <1>p, <2>1, MoveTruth DEF DisconnectStep, Watch
  <2> QED
    BY <1>18, <1>q, <2>2, <2>3 DEF DisconnectStep
<1>19. CASE RereadStep
  <2>1. WorkerTruth'
    BY <1>19, <1>c, <1>p, MoveTruth DEF RereadStep, Watch
  <2> QED
    BY <1>19, <1>q, <1>s, <2>1 DEF RereadStep
<1>20. CASE FinalizeStep
  <2>1. cur \in Executions /\ UNCHANGED <<answers, sent, state>>
    BY <1>20, <1>c DEF FinalizeStep, FinalizeOutput
  <2>2. Handed' /\ RowTruth'
    BY <1>20, <1>s, <2>1, StoreTruth DEF FinalizeStep
  <2>3. WorkerTruth'
    <3>1. CASE Go("commit")
      BY <1>20, <1>w, <2>1, <3>1
         DEF FinalizeStep, Go, WorkerTruth, AboutToSend, Watching, MemoryTruth,
             TargetTruth, Promise!Justified
    <3>2. CASE Raise
      BY <2>1, <3>2, MoveTruth
    <3> QED
      BY <1>20, <3>1, <3>2 DEF FinalizeStep
  <2> QED
    BY <1>20, <1>q, <2>2, <2>3 DEF FinalizeStep
<1>21. CASE CommitStep
  <2>1. cur \in Executions /\ UNCHANGED <<answers, sent>>
    BY <1>21, <1>c DEF CommitStep
  <2>2. Handed' /\ RowTruth'
    <3>1. target \notin {"absent", "queued"}
      BY <1>m DEF MemoryTypeOK, TerminalStates
    <3> QED
      BY <1>21, <1>s, <2>1, <3>1, StoreTruth DEF CommitStep
  <2>3. ASSUME Go("drop") PROVE WorkerTruth'
    BY <1>p, <2>1, <2>3, MoveTruth DEF Watch
  <2>4. WorkerTruth'
    BY <1>21, <2>1, <2>3, MoveTruth, ReleasedTruth DEF CommitStep
  <2> QED
    BY <1>21, <1>q, <2>2, <2>4 DEF CommitStep
<1>22. CASE DropStep
  <2>1. UNCHANGED <<answers, sent, kq, ev, state>> /\ cur \in Executions
    BY <1>22, <1>c DEF DropStep
  <2>2. WireTruth'
    <3>1. \A a : ReportedIn(<<>>, a)
      BY DEF ReportedIn
    <3> QED
      BY <1>22, <2>1, <3>1, WireIsReported, WireIsReportedNext
         DEF DropStep, CloseTransport, PromiseInv
  <2>3. WorkerTruth'
    BY <1>22, <1>p, <2>1, MoveTruth, ReleasedTruth DEF DropStep, Watch
  <2> QED
    BY <2>1, <2>2, <2>3, Frames DEF PromiseInv, WorkerTruth
<1>23. CASE RecheckStep
  <2>1. WorkerTruth'
    BY <1>23, <1>c, <1>p, MoveTruth, ReleasedTruth DEF RecheckStep, Watch
  <2> QED
    BY <1>23, <1>q, <1>s, <2>1 DEF RecheckStep
<1>24. CASE RegisterConnection
  <2>1. ASSUME Go("info"), mode # "run" PROVE WorkerTruth'
    BY <1>24, <1>m, <1>w, <2>1
       DEF RegisterConnection, Go, MemoryTypeOK, WorkerTruth, AboutToSend, Watching,
           MemoryTruth, TargetTruth
  <2>2. WorkerTruth'
    BY <1>24, <1>c, <1>p, <2>1, MoveTruth DEF RegisterConnection, SameKernel, Watch
  <2> QED
    BY <1>24, <1>q, <1>s, <2>2 DEF RegisterConnection
<1> QED
  BY <1>1, <1>2, <1>3, <1>4, <1>5, <1>6, <1>7, <1>8, <1>9, <1>10, <1>11, <1>12,
     <1>13, <1>14, <1>15, <1>16, <1>17, <1>18, <1>19, <1>20, <1>21, <1>22, <1>23,
     <1>24 DEF Worker

-----------------------------------------------------------------------------
\* The kernel's answers only grow, and never speak of a request not handed
\* over; everyone else's share of the invariant is monotone in the answers.
LEMMA KernelKeepsInv ==
  ASSUME TypeOK, PromiseInv, KernelStep
  PROVE  PromiseInv'
<1> USE DEF KernelStep, Kernel
<1>1. UNCHANGED <<state, ev, sent, pc, mode, cur, target, proof, goal, work, step>>
  BY DEF storeVars, workerVars, loopVars
<1>2. kq # <<>> /\ Current \in Requests
  BY CurrentType DEF TypeOK, KernelBusy, KernelOutput, KernelReply, KernelIdle,
                     Executing
<1>3. answers' \in [Executions -> SUBSET ReplyKinds]
  BY KernelTypeOK DEF TypeOK, LinkTypeOK
<1>4. /\ \A e \in Executions : answers[e] \subseteq answers'[e]
      /\ shell \in Seq(Messages) /\ iopub \in Seq(Messages)
  BY <1>2 DEF KernelBusy, KernelOutput, KernelReply, KernelIdle, TypeOK, LinkTypeOK
<1>5. \A k \in Kinds : [parent |-> Current, kind |-> k] \in Messages
  BY <1>2 DEF Messages
<1>6. WireTruth'
  <2>1. ReportedIn(shell, answers) /\ ReportedIn(iopub, answers)
    BY WireIsReported DEF PromiseInv
  <2>2. ASSUME NEW q \in {shell, iopub} PROVE ReportedIn(q, answers')
    <3>1. \A i \in DOMAIN q : q[i] \in Messages
      BY <1>4, ElementOfSeq, LenProperties
    <3>2. \A i \in DOMAIN q : q[i].parent.exec \in Executions \cup {None}
      BY <3>1 DEF Messages, Requests
    <3> QED
      BY <1>4, <2>1, <3>2 DEF ReportedIn
  <2>3. ReportedIn(iopub', answers')
    <3>1. CASE iopub' = iopub
      BY <2>2, <3>1
    <3>2. CASE iopub' # iopub
      <4>1. PICK k \in {"busy", "output", "idle"} :
              iopub' \in Publish(iopub, [parent |-> Current, kind |-> k])
        BY <3>2 DEF KernelBusy, KernelOutput, KernelReply, KernelIdle
      <4>2. k \in Kinds /\ k \notin ValidReplies
        BY DEF Kinds, ValidReplies
      <4> QED
        BY <1>4, <1>5, <2>1, <4>1, <4>2, ReportedPublish
    <3> QED
      BY <3>1, <3>2
  <2>4. ReportedIn(shell', answers')
    <3>1. CASE shell' = shell
      BY <2>2, <3>1
    <3>2. CASE shell' # shell
      <4>1. PICK r \in (IF Executing THEN Replies ELSE {"info"}) :
              /\ answers' = IF Executing
                            THEN [answers EXCEPT ![Current.exec] = @ \cup {r}]
                            ELSE answers
              /\ shell' \in Publish(shell, [parent |-> Current, kind |-> r])
        BY <3>2 DEF KernelBusy, KernelOutput, KernelReply, KernelIdle
      <4>2. r \in Kinds
        BY LinkAssumption DEF Kinds
      <4>3. r \in ValidReplies /\ Current.exec # None => r \in answers'[Current.exec]
        BY <1>2, <4>1 DEF Executing, ValidReplies, Requests, TypeOK, LinkTypeOK
      <4> DEFINE m == [parent |-> Current, kind |-> r]
      <4>4. m \in Messages /\ m.kind = r /\ m.parent = Current
        BY <1>5, <4>2
      <4>5. shell' \in Publish(shell, m)
        BY <4>1
      <4>6. m.kind \in ValidReplies /\ m.parent.exec # None
              => m.kind \in answers'[m.parent.exec]
        BY <4>3, <4>4
      <4> HIDE DEF m
      <4> QED
        BY <1>4, <2>1, <4>4, <4>5, <4>6, ReportedPublish
    <3> QED
      BY <3>1, <3>2
  <2> QED
    BY <2>3, <2>4, WireIsReportedNext
<1>7. KernelTold'
  <2>1. CASE kq' = kq
    BY <1>1, <2>1 DEF PromiseInv, KernelTold
  <2>2. CASE kq' # kq
    BY <1>1, <1>2, <2>2, ToldTail
       DEF KernelBusy, KernelOutput, KernelReply, KernelIdle, TypeOK, PromiseInv
  <2> QED
    BY <2>1, <2>2
<1>8. Handed' /\ RowTruth'
  BY <1>1, <1>4 DEF PromiseInv, Handed, RowTruth
<1>9. AboutToSend' /\ Watching'
  BY <1>1 DEF PromiseInv, AboutToSend, Watching
<1>10. MemoryTruth'
  BY <1>1, <1>4 DEF PromiseInv, MemoryTruth, TypeOK, WorkerTypeOK, MemoryTypeOK
<1>11. TargetTruth'
  <2>1. pc \in {"finalize", "commit"} => cur \in Executions
    BY DEF TypeOK, WorkerTypeOK, MemoryTypeOK
  <2> QED
    BY <1>1, <1>4, <2>1 DEF PromiseInv, TargetTruth, Promise!Justified
<1>12. GoalTruth'
  BY <1>1, <1>4 DEF PromiseInv, GoalTruth, Promise!Justified, TypeOK, LoopTypeOK
<1> QED
  BY <1>6, <1>7, <1>8, <1>9, <1>10, <1>11, <1>12 DEF PromiseInv

\* A failure of the wire, the kernel or the session keeps it.
LEMMA LinkKeepsInv ==
  ASSUME TypeOK, PromiseInv, LinkStep
  PROVE  PromiseInv'
<1>1. UNCHANGED <<state, ev, sent, pc, mode, cur, target, proof, goal, work, step,
                  answers>>
  BY DEF LinkStep, LinkFault, WireDrop, KernelRestart, KernelReplace, SessionRemove,
         SessionEnsure, KernelGone, storeVars, workerVars, loopVars, kernelVars,
         wireVars
<1>2. /\ kq' \in {kq, <<>>}
      /\ shell' \in {shell, <<>>} /\ iopub' \in {iopub, <<>>}
  BY DEF LinkStep, LinkFault, WireDrop, KernelRestart, KernelReplace, SessionRemove,
         SessionEnsure, KernelGone, kernelVars, wireVars
<1>3. KernelTold'
  BY <1>1, <1>2 DEF PromiseInv, KernelTold
<1>4. WireTruth'
  BY <1>1, <1>2 DEF PromiseInv, WireTruth, Reported
<1>5. AboutToSend' /\ Watching' /\ MemoryTruth' /\ TargetTruth'
  BY <1>1 DEF PromiseInv, AboutToSend, Watching, MemoryTruth, TargetTruth,
              Promise!Justified
<1> QED
  BY <1>1, <1>3, <1>4, <1>5, Frames DEF PromiseInv

-----------------------------------------------------------------------------
\* What the event loop may do to a row under the worker's feet.
LEMMA LoopTruth ==
  ASSUME TypeOK, PromiseInv, UNCHANGED <<workerVars, answers, sent>>,
         \A e \in Executions :
           /\ state[e] \in {"dispatching", "unknown"}
                => state'[e] \in {"dispatching", "unknown"}
           /\ state[e] \in {"queued", "interrupted"}
                => state'[e] \in {"queued", "interrupted"}
  PROVE  WorkerTruth'
<1>1. pc \notin {"idle", "exited", "dead"} => cur \in Executions
  BY DEF TypeOK, WorkerTypeOK, MemoryTypeOK
<1> QED
  BY <1>1 DEF PromiseInv, WorkerTruth, AboutToSend, Watching, MemoryTruth,
              TargetTruth, Promise!Justified, workerVars

\* The end of the process keeps it: the rows remember what memory forgets.
LEMMA EndKeepsInv ==
  ASSUME TypeOK, PromiseInv, ProcessEnds, UNCHANGED <<state, ev>>
  PROVE  PromiseInv'
<1>1. UNCHANGED <<sent, answers, kq>> /\ goal' = "none"
  BY DEF ProcessEnds, LoopIdle, kernelVars
<1>2. WorkerTruth'
  BY ReleasedTruth DEF ProcessEnds
<1>3. WireTruth'
  <2>1. \A a : ReportedIn(<<>>, a)
    BY DEF ReportedIn
  <2> QED
    BY <1>1, <2>1, WireIsReported, WireIsReportedNext
       DEF ProcessEnds, CloseTransport, PromiseInv
<1>4. GoalTruth'
  BY <1>1 DEF GoalTruth
<1> QED
  BY <1>1, <1>2, <1>3, <1>4, Frames DEF PromiseInv, WorkerTruth

\* A step of reconcile_after_restart or force_uncertain_active keeps it.
LEMMA RoutineKeepsInv ==
  ASSUME TypeOK, PromiseInv, Visits
  PROVE  PromiseInv'
<1> USE DEF LoopOnly, storeVars, linkVars, kernelVars, wireVars
<1>t. StoreTypeOK /\ LoopTypeOK
  BY DEF TypeOK
<1>a. UNCHANGED <<workerVars, answers, sent, kq, shell, iopub>>
  BY DEF Visits, ReconcileRow, ForceRow, RoutineMark, RoutineRead,
         RoutineDisconnect, RoutineFinalize, RoutineCommit, RoutineRaises
<1>q. ASSUME Handed', RowTruth', GoalTruth', WorkerTruth'
      PROVE  PromiseInv'
  BY <1>a, <1>q, Frames DEF PromiseInv, WorkerTruth
<1>k. ASSUME UNCHANGED state PROVE WorkerTruth'
  BY <1>a, <1>k, LoopTruth
<1>r. ASSUME NEW p \in {"mark", "read", "disconnect", "finalize", "commit"},
             Routine(p)
      PROVE  GoalTruth'
  BY <1>a, <1>r DEF Routine, PromiseInv, GoalTruth, Promise!Justified
<1>d. ASSUME RowDone \/ StopRaises PROVE GoalTruth'
  BY <1>d DEF RowDone, StopRaises, LoopIdle, GoalTruth
<1>w. step # "pick" => work \in Executions
  BY <1>t DEF LoopTypeOK
<1>1. ASSUME NEW e \in Executions, ReconcileRow(e)
      PROVE  PromiseInv'
  <2>1. /\ ev[e].reply \in ValidReplies \cup {"none"} /\ ev[e].idle \in BOOLEAN
        /\ ev[e].intent \in Intents
        /\ ev[e].reply # "none" => ev[e].reply \in answers[e]
        /\ ev[e].intent = "timed_out" => e \in Timed
    BY <1>t DEF StoreTypeOK, Evidence, PromiseInv, RowTruth
  <2>2. TerminalFromEvidence(e) # "none"
          => Promise!Justified(e, TerminalFromEvidence(e))
    BY <2>1, VerdictJustified DEF TerminalFromEvidence
  <2>3. GoalTruth'
    <3>1. e # None
      BY NoneAssumption
    <3>2. work' = e /\ step' # "pick"
      BY <1>1 DEF ReconcileRow
    <3>3. goal' = "unknown" \/ Promise!Justified(e, goal')
      BY <1>1, <2>2 DEF ReconcileRow
    <3> QED
      BY <1>a, <3>1, <3>2, <3>3 DEF GoalTruth, Promise!Justified
  <2> QED
    BY <1>1, <1>a, <1>k, <1>q, <2>3, Frames DEF ReconcileRow
<1>2. ASSUME NEW e \in Executions, ForceRow(e)
      PROVE  PromiseInv'
  <2>1. GoalTruth'
    BY <1>2 DEF ForceRow, GoalTruth
  <2> QED
    BY <1>2, <1>a, <1>k, <1>q, <2>1, Frames DEF ForceRow
<1>3. CASE RoutineMark
  BY <1>3, <1>a, <1>k, <1>q, <1>r, <1>w, StoreTruth
     DEF RoutineMark, MarkOutputIncomplete
<1>4. CASE RoutineRead
  BY <1>4, <1>a, <1>d, <1>k, <1>q, <1>r, Frames DEF RoutineRead
<1>5. ASSUME NEW s \in {"none", "disconnected"} \cup TerminalStates,
             step # "pick", CanTransition(work, s), TransitionExecution(work, s)
      PROVE  Handed' /\ RowTruth' /\ WorkerTruth'
  <2>1. s \notin {"absent", "queued"}
    BY <1>5 DEF TerminalStates
  <2>2. Handed' /\ RowTruth'
    BY <1>5, <1>a, <1>w, <2>1, StoreTruth
  <2>3. \A f \in Executions : state'[f] = IF f = work THEN s ELSE state[f]
    BY <1>5, <1>t, <1>w DEF TransitionExecution, StoreTypeOK
  <2>4. WorkerTruth'
    BY <1>5, <1>a, <1>t, <1>w, <2>3, TransitionMoves, LoopTruth
  <2> QED
    BY <2>2, <2>4
<1>6. CASE RoutineDisconnect
  <2>1. CASE CanTransition(work, "disconnected")
    BY <1>6, <1>5, <1>q, <1>r, <2>1 DEF RoutineDisconnect
  <2>2. CASE ~CanTransition(work, "disconnected")
    BY <1>6, <1>a, <1>d, <1>k, <1>q, <2>2, Frames DEF RoutineDisconnect
  <2> QED
    BY <2>1, <2>2
<1>7. CASE RoutineFinalize
  BY <1>7, <1>a, <1>k, <1>q, <1>r, <1>w, StoreTruth
     DEF RoutineFinalize, FinalizeOutput
<1>8. CASE RoutineCommit
  <2>1. CASE CanTransition(work, goal)
    <3>1. goal \in {"none", "disconnected"} \cup TerminalStates
      BY <1>t DEF LoopTypeOK
    <3> QED
      BY <1>8, <1>5, <1>d, <1>q, <2>1, <3>1 DEF RoutineCommit
  <2>2. CASE ~CanTransition(work, goal)
    BY <1>8, <1>a, <1>d, <1>k, <1>q, <2>2, Frames DEF RoutineCommit
  <2> QED
    BY <2>1, <2>2
<1>9. CASE RoutineRaises /\ lpc = "force"
  BY <1>9, <1>a, <1>d, <1>k, <1>q, Frames DEF RoutineRaises
<1> QED
  BY <1>1, <1>2, <1>3, <1>4, <1>6, <1>7, <1>8, <1>9 DEF Visits

\* A request, a stop, a crash or a restart keeps it.
LEMMA LoopKeepsInv ==
  ASSUME TypeOK, PromiseInv, LoopStep
  PROVE  PromiseInv'
<1> USE DEF storeVars, linkVars, kernelVars, wireVars, loopVars
<1>q. ASSUME UNCHANGED <<answers, sent, kq, shell, iopub, workerVars>>,
             Handed', RowTruth', GoalTruth',
             \A e \in Executions :
               /\ state[e] \in {"dispatching", "unknown"}
                    => state'[e] \in {"dispatching", "unknown"}
               /\ state[e] \in {"queued", "interrupted"}
                    => state'[e] \in {"queued", "interrupted"}
      PROVE  PromiseInv'
  BY <1>q, LoopTruth, Frames DEF PromiseInv, WorkerTruth
<1>s. ASSUME UNCHANGED <<answers, sent, kq, shell, iopub, workerVars, state, ev>>,
             GoalTruth'
      PROVE  PromiseInv'
  BY <1>q, <1>s, Frames
<1>g. ASSUME goal' = "none" PROVE GoalTruth'
  BY <1>g DEF GoalTruth
<1>t. StoreTypeOK /\ LoopTypeOK
  BY DEF TypeOK
<1>1. ASSUME NEW k \in Keys \cup {None}, NEW e \in Executions, StartNew(e, k)
      PROVE  PromiseInv'
  <2>1. step = "pick" /\ goal' = "none"
    BY <1>1, <1>t DEF StartNew, PromiseInv, GoalTruth, LoopTypeOK
  <2>2. state[e] = "absent" /\ sent[e] = 0
    BY <1>1 DEF StartNew, CreateExecution, PromiseInv, Handed
  <2>3. Handed' /\ RowTruth'
    BY <1>1, <1>t, <2>2 DEF StartNew, CreateExecution, NewEvidence, StoreTypeOK,
                            PromiseInv, Handed, RowTruth
  <2>4. \A f \in Executions :
          state'[f] = IF f = e THEN "queued" ELSE state[f]
    BY <1>1, <1>t DEF StartNew, CreateExecution, StoreTypeOK
  <2> QED
    BY <1>1, <1>g, <1>q, <2>1, <2>2, <2>3, <2>4 DEF StartNew
<1>2. ASSUME NEW k \in Keys, StartAgain(k)
      PROVE  PromiseInv'
  <2>1. goal' = "none"
    BY <1>2, <1>t DEF StartAgain, PromiseInv, GoalTruth, LoopTypeOK
  <2> QED
    BY <1>2, <1>g, <1>s, <2>1 DEF StartAgain
<1>3. CASE Submit
  BY <1>3, <1>g, <1>s DEF Submit, LoopIdle
<1>4. ASSUME NEW e \in Executions, Cancel(e)
      PROVE  PromiseInv'
  <2>1. Handed' /\ RowTruth' /\ GoalTruth'
    BY <1>4, StoreTruth, Frames DEF Cancel
  <2>2. \A f \in Executions :
          state'[f] = IF f = e /\ state[e] = "queued" THEN "interrupted" ELSE state[f]
    BY <1>4, <1>t DEF Cancel, RequestCancel, StoreTypeOK
  <2> QED
    BY <1>4, <1>q, <2>1, <2>2 DEF Cancel
<1>5. CASE RoutineStep
  BY <1>5, RoutineEnds, RoutineKeepsInv, StartFailsEnds, EndKeepsInv
<1>6. CASE Boot
  <2>1. GoalTruth'
    BY <1>6, Frames DEF Boot, LoopOnly
  <2> QED
    BY <1>6, <1>s, <2>1 DEF Boot, LoopOnly
<1>7. CASE Resume
  BY <1>7, <1>g, <1>s DEF Resume, LoopIdle
<1>8. CASE ForceStop
  <2>1. GoalTruth'
    BY <1>8, Frames DEF ForceStop
  <2> QED
    BY <1>8, <1>s, <2>1 DEF ForceStop
<1>9. CASE ForceDone
  BY <1>9, <1>g, <1>s DEF ForceDone, LoopIdle, LoopOnly
<1>10. CASE StopWhenIdle
  <2>1. GoalTruth'
    BY <1>10, Frames DEF StopWhenIdle
  <2> QED
    BY <1>10, <1>s, <2>1 DEF StopWhenIdle
<1>11. CASE CloseCoordinator
  BY <1>11, <1>g, <1>s DEF CloseCoordinator, LoopIdle
<1>12. CASE Exit
  BY <1>12, EndKeepsInv DEF Exit
<1>13. CASE Crash
  BY <1>13, EndKeepsInv DEF Crash
<1>14. CASE CrashInTransaction
  BY <1>14, EndKeepsInv DEF CrashInTransaction
<1> QED
  BY <1>1, <1>2, <1>3, <1>4, <1>5, <1>6, <1>7, <1>8, <1>9, <1>10, <1>11, <1>12,
     <1>13, <1>14 DEF LoopStep

-----------------------------------------------------------------------------
\* PromiseInv holds at first.
LEMMA PromiseInvInit == Init => PromiseInv
<1> SUFFICES ASSUME Init PROVE PromiseInv
  OBVIOUS
<1> USE DEF Init, StoreInit, LinkInit, WorkerInit, NewEvidence, NewProof
<1>1. Handed /\ RowTruth
  BY DEF Handed, RowTruth
<1>2. AboutToSend /\ Watching /\ MemoryTruth /\ TargetTruth /\ GoalTruth
  BY DEF AboutToSend, Watching, MemoryTruth, TargetTruth, GoalTruth
<1>3. KernelTold /\ WireTruth
  BY DEF KernelTold, WireTruth, Reported
<1> QED
  BY <1>1, <1>2, <1>3 DEF PromiseInv

\* Every step keeps it.
LEMMA PromiseInvNext == TypeOK /\ PromiseInv /\ [Next]_allVars => PromiseInv'
<1> SUFFICES ASSUME TypeOK, PromiseInv, [Next]_allVars PROVE PromiseInv'
  OBVIOUS
<1>1. CASE UNCHANGED allVars
  <2>1. UNCHANGED <<workerVars, state, ev, sent, answers, kq, shell, iopub, goal,
                    work, step>>
    BY <1>1 DEF allVars, vars, storeVars, linkVars, kernelVars, wireVars, loopVars
  <2>2. WorkerTruth'
    BY <2>1, LoopTruth
  <2> QED
    BY <2>1, <2>2, Frames DEF PromiseInv, WorkerTruth
<1> QED
  BY <1>1, WorkerKeepsInv, KernelKeepsInv, LinkKeepsInv, LoopKeepsInv DEF Next

(***************************************************************************)
(* PromiseInv holds in every reachable state, however the worker, the      *)
(* event loop, the kernel and the faults interleave.                       *)
(***************************************************************************)
THEOREM PromiseInvariant == Spec => []PromiseInv
BY TypeCorrect, PromiseInvInit, PromiseInvNext, PTL DEF Spec

\* The store operations as moves of the abstract promise.
LEMMA OperationsSimulate ==
  ASSUME TypeOK, PromiseInv, NEW e \in Executions, UNCHANGED <<sent, answers>>
  PROVE  /\ \A k, n : CreateExecution(e, k, n) => Promise!Accept(e)
         /\ \A n, m : CanBeginDispatch(e) /\ BeginDispatch(e, n, m)
                        => Promise!Decide(e)
         /\ CanConfirmDispatch(e) /\ ConfirmDispatch(e) /\ sent[e] = 1
              => Promise!Observe(e)
         /\ RequestCancel(e) => Promise!Withdraw(e) \/ state' = state
         /\ \A s \in {"none", "disconnected"} \cup TerminalStates :
              /\ CanTransition(e, s) /\ TransitionExecution(e, s)
              /\ \/ s \in {"disconnected", "unknown"}
                 \/ Promise!Justified(e, s)
                 \/ s = "interrupted" /\ state[e] \in {"queued", "interrupted"}
              => \/ Promise!Withdraw(e) \/ Promise!Lose(e) \/ Promise!GiveUp(e)
                 \/ s \in TerminalStates /\ Promise!Settle(e, s)
<1> USE DEF Promise!Moves
<1>1. \A k, n : CreateExecution(e, k, n) => Promise!Accept(e)
  BY DEF CreateExecution, Promise!Accept
<1>2. \A n, m : CanBeginDispatch(e) /\ BeginDispatch(e, n, m) => Promise!Decide(e)
  BY DEF CanBeginDispatch, BeginDispatch, Promise!Decide, PromiseInv, Handed
<1>3. CanConfirmDispatch(e) /\ ConfirmDispatch(e) /\ sent[e] = 1
        => Promise!Observe(e)
  BY DEF CanConfirmDispatch, ConfirmDispatch, Promise!Observe
<1>4. RequestCancel(e) => Promise!Withdraw(e) \/ state' = state
  BY DEF RequestCancel, Promise!Withdraw, PromiseInv, Handed, TypeOK, StoreTypeOK
<1>5. ASSUME NEW s \in {"none", "disconnected"} \cup TerminalStates,
             CanTransition(e, s), TransitionExecution(e, s),
             \/ s \in {"disconnected", "unknown"}
             \/ Promise!Justified(e, s)
             \/ s = "interrupted" /\ state[e] \in {"queued", "interrupted"}
      PROVE  \/ Promise!Withdraw(e) \/ Promise!Lose(e) \/ Promise!GiveUp(e)
             \/ s \in TerminalStates /\ Promise!Settle(e, s)
  <2>1. state' = [state EXCEPT ![e] = s]
    BY <1>5 DEF TransitionExecution
  <2>2. \/ s = "disconnected" /\ state[e] = "running"
        \/ s = "unknown" /\ state[e] \in {"dispatching", "disconnected"}
        \/ s = "interrupted" /\ state[e] = "queued"
        \/ /\ s \in TerminalStates \ {"unknown"}
           /\ state[e] \in {"running", "disconnected"}
    BY <1>5, TransitionMoves DEF TypeOK
  <2>3. CASE s = "disconnected" /\ state[e] = "running"
    BY <2>1, <2>3 DEF Promise!Lose
  <2>4. CASE s = "unknown" /\ state[e] \in {"dispatching", "disconnected"}
    BY <2>1, <2>4 DEF Promise!GiveUp
  <2>5. CASE s = "interrupted" /\ state[e] = "queued"
    BY <2>1, <2>5 DEF Promise!Withdraw, PromiseInv, Handed
  <2>6. CASE /\ s \in TerminalStates \ {"unknown"}
             /\ state[e] \in {"running", "disconnected"}
    <3>1. Promise!Justified(e, s)
      BY <1>5, <2>6 DEF TerminalStates
    <3> QED
      BY <2>1, <2>6, <3>1 DEF Promise!Settle
  <2> QED
    BY <2>2, <2>3, <2>4, <2>5, <2>6
<1> QED
  BY <1>1, <1>2, <1>3, <1>4, <1>5

\* The abstract module reads the constants the same way.
LEMMA SameVocabulary ==
  /\ Promise!ReplyKinds = ReplyKinds
  /\ Promise!TerminalStates = TerminalStates
BY DEF Promise!ReplyKinds, ReplyKinds, Promise!ValidReplies, ValidReplies,
       Promise!TerminalStates, TerminalStates

\* Every step is a step of DurableExecution, or none that its client sees.
LEMMA StepSimulates ==
  ASSUME TypeOK, PromiseInv, [Next]_allVars
  PROVE  [Promise!Next]_(Promise!promiseVars)
<1> USE DEF storeVars, linkVars, kernelVars, wireVars, loopVars, LoopOnly
<1>s. UNCHANGED <<state, sent, answers>> => UNCHANGED Promise!promiseVars
  BY DEF Promise!promiseVars
<1>m. MemoryTypeOK /\ LoopTypeOK
  BY DEF TypeOK, WorkerTypeOK
<1>c. pc \notin {"idle", "exited", "dead"} => cur \in Executions
  BY <1>m DEF MemoryTypeOK
<1>1. CASE WorkerStep
  <2>1. CASE BeginDispatchStep
    BY <2>1, <1>c, <1>s, OperationsSimulate DEF BeginDispatchStep, Promise!Next
  <2>2. CASE Send
    <3>1. cur \in Executions /\ sent[cur] = 0
          /\ state[cur] \in {"dispatching", "unknown"}
      BY <2>2, <1>c DEF Send, PromiseInv, AboutToSend
    <3>2. UNCHANGED <<state, answers>> /\ sent' = [sent EXCEPT ![cur] = 1]
      BY <2>2, <3>1 DEF Send, SendReturns, SendRaises
    <3> QED
      BY <3>1, <3>2 DEF Promise!HandOver, Promise!Next
  <2>3. CASE ConfirmStep
    <3>1. sent[cur] = 1
      BY <2>3 DEF ConfirmStep, PromiseInv, Watching
    <3> QED
      BY <2>3, <3>1, <1>c, <1>s, OperationsSimulate DEF ConfirmStep, Promise!Next
  <2>4. CASE DisconnectStep
    BY <2>4, <1>c, <1>s, OperationsSimulate, SameVocabulary
       DEF DisconnectStep, Promise!Next
  <2>5. CASE CommitStep
    <3>1. /\ target \in {"none", "disconnected"} \cup TerminalStates
          /\ \/ target \in {"disconnected", "unknown"}
             \/ Promise!Justified(cur, target)
             \/ target = "interrupted" /\ state[cur] \in {"queued", "interrupted"}
      BY <2>5, <1>m DEF CommitStep, MemoryTypeOK, PromiseInv, TargetTruth
    <3> QED
      BY <2>5, <3>1, <1>c, <1>s, OperationsSimulate, SameVocabulary
       DEF CommitStep, Promise!Next
  <2>6. CASE \/ TakeItem \/ ReadRow \/ ReadSource \/ ConnectForRun \/ RecoverRead
             \/ RegisterConnection \/ ConnectForRecovery \/ SendBoundary \/ HandleStep \/ RereadStep
             \/ DropStep \/ RecheckStep
    BY <2>6, <1>s
       DEF TakeItem, ReadRow, ReadSource, ConnectForRun, RecoverRead,
           RegisterConnection,
           ConnectForRecovery, SendBoundary, HandleStep, RereadStep, DropStep,
           RecheckStep, Connect, ConnectFails, SendReturns, SendRaises
  <2>7. CASE \/ Loop \/ Expire \/ NextEvent \/ AppendStep \/ EvidenceStep
             \/ MarkStep \/ FinalizeStep
    BY <2>7, <1>s
       DEF Loop, Expire, Interrupting, InterruptReturns, InterruptRaises,
           NextEvent, TakeMessage, AppendStep, EvidenceStep, MarkStep,
           FinalizeStep, RequestTimeout, AppendOutput, RecordEvidence,
           MarkOutputIncomplete, FinalizeOutput
  <2> QED
    BY <1>1, <2>1, <2>2, <2>3, <2>4, <2>5, <2>6, <2>7 DEF WorkerStep, Worker
<1>2. CASE KernelStep
  <2>1. UNCHANGED <<state, sent>>
    BY <1>2 DEF KernelStep
  <2>2. CASE answers' = answers
    BY <1>s, <2>1, <2>2
  <2>3. CASE answers' # answers
    <3>1. KernelReply /\ Executing
      BY <1>2, <2>3 DEF KernelStep, Kernel, KernelBusy, KernelOutput, KernelReply,
                        KernelIdle
    <3>2. Current.exec \in Executions /\ sent[Current.exec] = 1
      BY <3>1, CurrentTold DEF TypeOK, PromiseInv
    <3>3. PICK r \in Replies :
            answers' = [answers EXCEPT ![Current.exec] = @ \cup {r}]
      BY <3>1 DEF KernelReply
    <3>4. r \in ReplyKinds
      BY LinkAssumption
    <3>5. Promise!Answer(Current.exec, r)
      BY <2>1, <3>2, <3>3 DEF Promise!Answer
    <3> QED
      BY <3>2, <3>4, <3>5, SameVocabulary DEF Promise!Next
  <2> QED
    BY <2>2, <2>3
<1>3. CASE LinkStep
  BY <1>3, <1>s
     DEF LinkStep, LinkFault, WireDrop, KernelRestart, KernelReplace, SessionRemove,
         SessionEnsure, KernelGone
<1>4. CASE LoopStep
  <2>1. ASSUME NEW k \in Keys \cup {None}, NEW e \in Executions, StartNew(e, k)
        PROVE  Promise!Next
    BY <2>1, OperationsSimulate DEF StartNew, Promise!Next
  <2>2. ASSUME NEW e \in Executions, Cancel(e)
        PROVE  [Promise!Next]_(Promise!promiseVars)
    BY <2>2, <1>s, OperationsSimulate DEF Cancel, Promise!Next
  <2>3. CASE RoutineDisconnect
    <3>1. work \in Executions
      BY <2>3, <1>m DEF RoutineDisconnect, LoopTypeOK
    <3> QED
      BY <2>3, <3>1, <1>s, OperationsSimulate, SameVocabulary
       DEF RoutineDisconnect, Promise!Next
  <2>4. CASE RoutineCommit
    <3>1. /\ work \in Executions
          /\ goal \in {"none", "disconnected"} \cup TerminalStates
          /\ goal \in {"none", "unknown"} \/ Promise!Justified(work, goal)
      BY <2>4, <1>m DEF RoutineCommit, LoopTypeOK, PromiseInv, GoalTruth
    <3>2. CanTransition(work, goal) => goal # "none"
      BY <3>1, TransitionMoves DEF TypeOK, TerminalStates
    <3> QED
      BY <2>4, <3>1, <3>2, <1>s, OperationsSimulate, SameVocabulary
       DEF RoutineCommit, Promise!Next
  <2>5. ASSUME RoutineStep, ~RoutineDisconnect, ~RoutineCommit
        PROVE  UNCHANGED <<state, sent, answers>>
    BY <2>5 DEF RoutineStep, ReconcileRow, ForceRow, RoutineMark, RoutineRead,
                RoutineFinalize, MarkOutputIncomplete, FinalizeOutput, RoutineRaises,
                ProcessEnds
  <2>6. CASE \/ \E k \in Keys : StartAgain(k)
             \/ Submit \/ Boot \/ Resume \/ ForceStop \/ ForceDone \/ StopWhenIdle
             \/ CloseCoordinator \/ Exit \/ Crash \/ CrashInTransaction
    BY <2>6, <1>s DEF StartAgain, Submit, Boot, Resume, ForceStop, ForceDone,
                      StopWhenIdle, CloseCoordinator, Exit, Crash,
                      CrashInTransaction, ProcessEnds
  <2> QED
    BY <1>4, <1>s, <2>1, <2>2, <2>3, <2>4, <2>5, <2>6 DEF LoopStep
<1>5. CASE UNCHANGED allVars
  BY <1>5, <1>s DEF allVars, vars
<1> QED
  BY <1>1, <1>2, <1>3, <1>4, <1>5 DEF Next

-----------------------------------------------------------------------------
(***************************************************************************)
(* The controller implements the promise: every behaviour of the store,    *)
(* the worker, the event loop, the kernel and the faults, seen through the *)
(* row states, the hand-overs and the answers, is one of DurableExecution. *)
(***************************************************************************)
THEOREM KeepsPromise == Spec => PromiseKept
<1>1. Init => Promise!Init
  BY DEF Init, StoreInit, LinkInit, WorkerInit, Promise!Init
<1>2. TypeOK /\ PromiseInv /\ [Next]_allVars => [Promise!Next]_(Promise!promiseVars)
  BY StepSimulates
<1> QED
  BY <1>1, <1>2, TypeCorrect, PromiseInvariant, PTL
     DEF Spec, PromiseKept, Promise!Spec

(***************************************************************************)
(* No crash, restart, retry, reconnection or repeated request makes the    *)
(* worker hand the same execute request to the transport twice, and a row  *)
(* that may still be dispatched was never handed over.                     *)
(***************************************************************************)
THEOREM SentAtMostOnce == Spec => []AtMostOnce
<1>1. PromiseInv => AtMostOnce
  BY DEF PromiseInv, Handed, AtMostOnce
<1> QED
  BY <1>1, PromiseInvariant, PTL

\* The promise alone keeps verdicts true, once they are.
LEMMA PromiseKeepsTruth ==
  ASSUME TypeOK, TerminalTruth, Promise!Next
  PROVE  TerminalTruth'
<1>t. /\ state \in [Executions -> ExecStates]
      /\ sent \in [Executions -> Nat]
      /\ answers \in [Executions -> SUBSET ReplyKinds]
  BY DEF TypeOK, StoreTypeOK, WorkerTypeOK, LinkTypeOK
<1>1. PICK e \in Executions :
        \/ Promise!Accept(e) \/ Promise!Withdraw(e) \/ Promise!Decide(e)
        \/ Promise!HandOver(e)
        \/ \E r \in Promise!ReplyKinds : Promise!Answer(e, r)
        \/ Promise!Observe(e) \/ Promise!Lose(e)
        \/ \E s \in Promise!TerminalStates : Promise!Settle(e, s)
        \/ Promise!GiveUp(e)
  BY DEF Promise!Next
<1> USE DEF Promise!Moves
<1>2. CASE \/ Promise!Accept(e) \/ Promise!Decide(e) \/ Promise!Observe(e)
           \/ Promise!Lose(e) \/ Promise!GiveUp(e)
  <2>1. PICK to \in {"queued", "dispatching", "running", "disconnected", "unknown"} :
          state' = [state EXCEPT ![e] = to] /\ UNCHANGED <<sent, answers>>
    BY <1>2 DEF Promise!Accept, Promise!Decide, Promise!Observe, Promise!Lose,
                Promise!GiveUp
  <2> QED
    BY <1>t, <2>1 DEF TerminalTruth
<1>3. CASE Promise!Withdraw(e)
  BY <1>t, <1>3 DEF Promise!Withdraw, TerminalTruth
<1>4. CASE Promise!HandOver(e)
  BY <1>t, <1>4 DEF Promise!HandOver, TerminalTruth
<1>5. CASE \E r \in Promise!ReplyKinds : Promise!Answer(e, r)
  <2>1. /\ UNCHANGED <<state, sent>>
        /\ \A f \in Executions : answers[f] \subseteq answers'[f]
    BY <1>t, <1>5 DEF Promise!Answer
  <2> QED
    BY <2>1 DEF TerminalTruth
<1>6. CASE \E s \in Promise!TerminalStates : Promise!Settle(e, s)
  <2>1. PICK s : Promise!Settle(e, s)
    BY <1>6
  <2>2. /\ UNCHANGED <<sent, answers>> /\ Promise!Justified(e, s)
        /\ \A f \in Executions : state'[f] = IF f = e THEN s ELSE state[f]
    BY <1>t, <2>1 DEF Promise!Settle
  <2> QED
    BY <2>2 DEF TerminalTruth, Promise!Justified
<1> QED
  BY <1>1, <1>2, <1>3, <1>4, <1>5, <1>6

(***************************************************************************)
(* A settled row tells the truth about the kernel: finished, error and     *)
(* timed_out rest on a reply the kernel gave to this very request, and     *)
(* interrupted on such a reply or on a request that never left.            *)
(***************************************************************************)
THEOREM VerdictsTrue == Spec => []TerminalTruth
<1>1. Init => TerminalTruth
  BY DEF Init, StoreInit, TerminalTruth
<1>2. TypeOK /\ PromiseInv /\ TerminalTruth /\ [Next]_allVars => TerminalTruth'
  <2> SUFFICES ASSUME TypeOK, PromiseInv, TerminalTruth, [Next]_allVars
               PROVE  TerminalTruth'
    OBVIOUS
  <2>1. CASE Promise!Next
    BY <2>1, PromiseKeepsTruth
  <2>2. CASE UNCHANGED Promise!promiseVars
    BY <2>2 DEF Promise!promiseVars, TerminalTruth
  <2> QED
    BY <2>1, <2>2, StepSimulates
<1> QED
  BY <1>1, <1>2, TypeCorrect, PromiseInvariant, PTL DEF Spec

-----------------------------------------------------------------------------
(***************************************************************************)
(* Complete output.  Kernel, wire, worker and row each hold a part of what *)
(* an execution printed; these say that nothing falls between them.        *)
(***************************************************************************)
Prints(m, e) == m.kind = "output" /\ m.parent = ExecRequest(e)
Ends(m, e) == m.kind = "idle" /\ m.parent = ExecRequest(e)

\* The outputs of e that wait on the channel q, and whether its end does.
Waiting(q, e) == Cardinality({i \in DOMAIN q : Prints(q[i], e)})
EndIn(q, e) == \E i \in DOMAIN q : Ends(q[i], e)

\* The kernel still has e to run, or to finish.
InKernel(e) == \E i \in DOMAIN kq : kq[i].exec = e

\* All that e printed is indexed, and it prints no more.
Quiet(e) == ~InKernel(e) /\ kout[e] = ev[e].out

\* The kernel holds a request once; its end follows all its outputs.
Channels ==
  /\ \A i \in DOMAIN kq : kq[i].exec # None => kq[i].info = 0
  /\ \A i, j \in DOMAIN kq : kq[i].exec = kq[j].exec /\ kq[i].exec # None => i = j
  /\ \A i \in DOMAIN shell : shell[i].kind \notin {"output", "idle"}
  /\ \A e \in Executions : \A i \in DOMAIN iopub :
       Ends(iopub[i], e) =>
         /\ ~InKernel(e)
         /\ \A j \in DOMAIN iopub : j > i => ~Prints(iopub[j], e)

\* A request that was not sent left no trace.
Unsent ==
  \A e \in Executions : sent[e] = 0 =>
    /\ kout[e] = 0
    /\ \A i \in DOMAIN iopub : iopub[i].parent # ExecRequest(e)
    /\ ev[e].complete => ev[e].out = 0 /\ ~ev[e].idle

\* A row whose end is recorded, or that is settled by a proof, has it all.
RowsQuiet ==
  \A e \in Executions :
    /\ state[e] \in TerminalStates => ev[e].finalized
    /\ ev[e].complete =>
         /\ state[e] # "disconnected"
         /\ ev[e].idle \/ state[e] \in TerminalStates \ {"unknown"} => Quiet(e)

\* The output taken off the wire and not yet indexed.
InHand == IF pc = "append" \/ (pc = "confirm" /\ msg.kind = "output") THEN 1 ELSE 0

\* While the worker watches: unless the wire broke before the end came over
\* it, what was printed is indexed, in hand or on the wire.
NothingSlips ==
  mode = "run" /\ pc \in Watch /\ ev[cur].complete =>
    /\ ev[cur].idle => proof.idle
    /\ proof.idle => ~InKernel(cur) /\ \A i \in DOMAIN iopub : ~Prints(iopub[i], cur)
    /\ tr = "up" \/ proof.idle \/ EndIn(iopub, cur) =>
         kout[cur] = ev[cur].out + Waiting(iopub, cur) + InHand

\* The worker's memory: where nothing is promised, the row says so.
Marked ==
  /\ cur # None => state[cur] # "absent"
  /\ mode = "run" /\ proof.idle => proof.confirmed
  /\ mode = "recover" /\ pc # "recover" => ~ev[cur].complete
  /\ pc = "disconnect" => ~ev[cur].complete
  /\ pc \in Watch => tr # "none"
  /\ pc \in {"confirm", "evidence"} /\ msg.kind = "idle" => proof.idle
  /\ pc \in {"finalize", "commit"} /\ target # "unknown" /\ ev[cur].complete => Quiet(cur)

\* And the loop's.
MarkedByLoop ==
  /\ step \in {"read", "disconnect"} => ~ev[work].complete
  /\ lpc = "force" /\ step # "pick" => goal = "unknown"
  /\ step # "pick" /\ goal # "unknown" /\ ev[work].complete => Quiet(work)

CompleteInv == Channels /\ Unsent /\ RowsQuiet /\ NothingSlips /\ Marked /\ MarkedByLoop


\* The positions of q with a message of a kind are finitely many.
LEMMA WaitingType ==
  ASSUME NEW q \in Seq(Messages), NEW e
  PROVE  /\ IsFiniteSet({i \in DOMAIN q : Prints(q[i], e)})
         /\ Waiting(q, e) \in Nat
         /\ (\A i \in DOMAIN q : ~Prints(q[i], e)) => Waiting(q, e) = 0
<1> DEFINE S == {i \in DOMAIN q : Prints(q[i], e)}
<1>1. Len(q) \in Nat /\ DOMAIN q = 1..Len(q)
  BY LenProperties
<1>2. IsFiniteSet(1..Len(q))
  BY <1>1, FS_Interval
<1>3. S \subseteq 1..Len(q)
  BY <1>1
<1>4. IsFiniteSet(S)
  BY <1>2, <1>3, FS_Subset
<1>5. Cardinality(S) \in Nat
  BY <1>4, FS_CardinalityType
<1>6. (\A i \in DOMAIN q : ~Prints(q[i], e)) => S = {}
  OBVIOUS
<1> QED
  BY <1>4, <1>5, <1>6, FS_EmptySet DEF Waiting

\* A message joins a channel.
LEMMA WaitingAppend ==
  ASSUME NEW q \in Seq(Messages), NEW m \in Messages, NEW e
  PROVE  /\ Waiting(Append(q, m), e) = Waiting(q, e) + (IF Prints(m, e) THEN 1 ELSE 0)
         /\ EndIn(Append(q, m), e) <=> EndIn(q, e) \/ Ends(m, e)
<1> DEFINE r == Append(q, m)
           S == {i \in DOMAIN q : Prints(q[i], e)}
           T == {i \in DOMAIN r : Prints(r[i], e)}
           n == Len(q) + 1
<1>1. /\ Len(q) \in Nat /\ DOMAIN q = 1..Len(q) /\ DOMAIN r = 1..n
      /\ \A i \in 1..Len(q) : r[i] = q[i]
      /\ r[n] = m /\ n \notin 1..Len(q)
  BY AppendProperties, LenProperties
<1>2. IsFiniteSet(S) /\ Cardinality(S) \in Nat
  BY WaitingType, FS_CardinalityType
<1>3. n \notin S
  BY <1>1
<1>w. Waiting(q, e) = Cardinality(S) /\ Waiting(r, e) = Cardinality(T)
  BY DEF Waiting
<1>n. EndIn(r, e) <=> EndIn(q, e) \/ Ends(m, e)
  BY <1>1 DEF EndIn
<1> HIDE DEF S, T
<1>4. CASE Prints(m, e)
  <2>1. T = S \cup {n}
    BY <1>1, <1>4 DEF S, T
  <2>2. Cardinality(T) = Cardinality(S) + 1
    BY <1>2, <1>3, <2>1, FS_AddElement
  <2> QED
    BY <1>4, <1>w, <1>n, <2>2
<1>5. CASE ~Prints(m, e)
  <2>1. T = S
    BY <1>1, <1>5 DEF S, T
  <2> QED
    BY <1>2, <1>5, <1>w, <1>n, <2>1
<1> QED
  BY <1>4, <1>5

\* A message is taken off a channel.
LEMMA WaitingTail ==
  ASSUME NEW q \in Seq(Messages), q # <<>>, NEW e
  PROVE  /\ Waiting(q, e) = Waiting(Tail(q), e) + (IF Prints(Head(q), e) THEN 1 ELSE 0)
         /\ EndIn(q, e) <=> EndIn(Tail(q), e) \/ Ends(Head(q), e)
<1> DEFINE r == Tail(q)
           S == {i \in DOMAIN q : Prints(q[i], e)}
           T == {i \in DOMAIN r : Prints(r[i], e)}
           f == [i \in T |-> i + 1]
<1>1. /\ Len(q) \in Nat /\ Len(q) > 0 /\ DOMAIN q = 1..Len(q)
      /\ DOMAIN r = 1..(Len(q) - 1) /\ r \in Seq(Messages)
      /\ \A i \in 1..(Len(q) - 1) : r[i] = q[i + 1]
      /\ Head(q) = q[1]
  BY HeadTailProperties, LenProperties, EmptySeq
<1>2. IsFiniteSet(S) /\ IsFiniteSet(T) /\ Cardinality(S) \in Nat /\ Cardinality(T) \in Nat
  BY <1>1, WaitingType, FS_CardinalityType
<1>3. f \in Bijection(T, S \ {1})
  <2>1. \A i \in T : i \in Nat /\ i + 1 \in S \ {1}
    BY <1>1
  <2>2. f \in [T -> S \ {1}]
    BY <2>1
  <2>3. \A i, j \in T : f[i] = f[j] => i = j
    BY <2>1
  <2>4. \A j \in S \ {1} : \E i \in T : f[i] = j
    <3> SUFFICES ASSUME NEW j \in S \ {1} PROVE \E i \in T : f[i] = j
      OBVIOUS
    <3>1. j - 1 \in T /\ (j - 1) + 1 = j
      BY <1>1
    <3> QED
      BY <3>1
  <2> QED
    BY <2>2, <2>3, <2>4 DEF Bijection, Injection, Surjection, IsInjective
<1>4. Cardinality(S \ {1}) = Cardinality(T)
  <2>1. ExistsBijection(T, S \ {1})
    BY <1>3 DEF ExistsBijection
  <2> QED
    BY <1>2, <2>1, FS_Bijection
<1>5. 1 \in S <=> Prints(Head(q), e)
  BY <1>1
<1>6. Cardinality(S \ {1}) = IF 1 \in S THEN Cardinality(S) - 1 ELSE Cardinality(S)
  BY <1>2, FS_RemoveElement
<1>w. Waiting(q, e) = Cardinality(S) /\ Waiting(r, e) = Cardinality(T)
  BY DEF Waiting
<1>7. EndIn(q, e) <=> EndIn(r, e) \/ Ends(Head(q), e)
  <2>1. \A i \in DOMAIN q : i = 1 \/ (i - 1 \in DOMAIN r /\ r[i - 1] = q[i])
    BY <1>1
  <2>2. 1 \in DOMAIN q /\ \A i \in DOMAIN r : i + 1 \in DOMAIN q /\ r[i] = q[i + 1]
    BY <1>1
  <2>3. EndIn(r, e) \/ Ends(Head(q), e) => EndIn(q, e)
    BY <1>1, <2>2 DEF EndIn
  <2>4. EndIn(q, e) => EndIn(r, e) \/ Ends(Head(q), e)
    <3> SUFFICES ASSUME NEW i \in DOMAIN q, Ends(q[i], e)
                 PROVE  EndIn(r, e) \/ Ends(Head(q), e)
      BY DEF EndIn
    <3>1. CASE i = 1
      BY <1>1, <3>1
    <3>2. CASE i # 1
      <4>1. i - 1 \in DOMAIN r /\ Ends(r[i - 1], e)
        BY <2>1, <3>2
      <4> QED
        BY <4>1 DEF EndIn
    <3> QED
      BY <3>1, <3>2
  <2> QED
    BY <2>3, <2>4
<1> HIDE DEF S, T
<1> QED
  BY <1>2, <1>4, <1>5, <1>6, <1>7, <1>w


-----------------------------------------------------------------------------
\* The channels and the history that the rows are compared with stay.
WiresKept == UNCHANGED <<kq, kout, shell, iopub, tr, sent>>

\* A transaction on the row of e that indexes nothing: it may settle the row,
\* or record its end, only when all its output is there.
RowStays(e) ==
  /\ \A x \in Executions \ {e} : state'[x] = state[x] /\ ev'[x] = ev[x]
  /\ ev'[e].out = ev[e].out
  /\ ev'[e].complete => ev[e].complete
  /\ ev[e].finalized => ev'[e].finalized
  /\ state[e] # "absent" => state'[e] # "absent"
  /\ \/ state'[e] = state[e]
     \/ /\ state'[e] = "disconnected" => ~ev'[e].complete
        /\ state'[e] \in TerminalStates =>
             /\ ev'[e].finalized
             /\ state'[e] # "unknown" /\ ev'[e].complete => Quiet(e)
  /\ ev'[e].complete /\ ev'[e].idle => ev[e].idle \/ (Quiet(e) /\ sent[e] # 0)

\* Such a transaction keeps what the rows and the wire promise.
LEMMA RowStaysComplete ==
  ASSUME TypeOK, CompleteInv, NEW e \in Executions, RowStays(e), WiresKept
  PROVE  /\ Channels' /\ Unsent' /\ RowsQuiet'
         /\ \A x \in Executions : Quiet(x) => Quiet(x)'
<1> USE DEF WiresKept
<1>1. Channels'
  BY DEF CompleteInv, Channels, InKernel
<1>2. \A x \in Executions : ev'[x].complete => ev[x].complete
  BY DEF RowStays
<1>3. \A x \in Executions : ev'[x].out = ev[x].out
  BY DEF RowStays
<1>4. \A x \in Executions : Quiet(x) => Quiet(x)'
  BY <1>3 DEF Quiet, InKernel
<1>5. Unsent'
  BY <1>2, <1>3 DEF CompleteInv, Unsent, RowStays
<1>6. RowsQuiet'
  <2> SUFFICES ASSUME NEW x \in Executions
               PROVE  /\ state'[x] \in TerminalStates => ev'[x].finalized
                      /\ ev'[x].complete =>
                           /\ state'[x] # "disconnected"
                           /\ ev'[x].idle \/ state'[x] \in TerminalStates \ {"unknown"}
                                => Quiet(x)'
    BY DEF RowsQuiet
  <2>1. /\ state[x] \in TerminalStates => ev[x].finalized
        /\ ev[x].complete =>
             /\ state[x] # "disconnected"
             /\ ev[x].idle \/ state[x] \in TerminalStates \ {"unknown"} => Quiet(x)
    BY DEF CompleteInv, RowsQuiet
  <2>2. CASE x # e
    <3>1. state'[x] = state[x] /\ ev'[x] = ev[x]
      BY <2>2 DEF RowStays
    <3> QED
      BY <1>4, <2>1, <3>1
  <2>3. CASE x = e
    BY <1>4, <2>1, <2>3 DEF RowStays
  <2> QED
    BY <2>2, <2>3
<1> QED
  BY <1>1, <1>4, <1>5, <1>6

\* What the worker remembers survives a transaction that is not its own.
LEMMA MemoryStays ==
  ASSUME TypeOK, ScheduleInv, CompleteInv, NEW e \in Executions, RowStays(e), WiresKept,
         UNCHANGED workerVars, ev'[e].complete /\ ev'[e].idle => ev[e].idle
  PROVE  NothingSlips' /\ Marked'
<1>c. UNCHANGED <<pc, mode, cur, target, proof, msg>>
  BY DEF workerVars
<1>0. cur \in Executions \cup {None} /\ (pc \notin {"idle", "exited", "dead"} => cur \in Executions)
  BY DEF TypeOK, WorkerTypeOK, MemoryTypeOK
<1>1. \A x \in Executions :
        /\ ev'[x].complete => ev[x].complete
        /\ ev'[x].complete /\ ev'[x].idle => ev[x].idle
        /\ ev'[x].out = ev[x].out
        /\ state[x] # "absent" => state'[x] # "absent"
        /\ Quiet(x) => Quiet(x)'
  BY RowStaysComplete DEF RowStays
<1>2. UNCHANGED <<kq, kout, iopub, tr>>
  BY DEF WiresKept
<1>3. NothingSlips'
  <2>1. InHand' = InHand
    BY <1>c DEF InHand
  <2>2. CASE pc \in Watch /\ mode = "run" /\ ev'[cur].complete
    <3>1. cur \in Executions
      BY <1>0, <2>2 DEF Watch
    <3> QED
      BY <1>1, <1>2, <1>c, <2>1, <2>2, <3>1 DEF CompleteInv, NothingSlips, InKernel
  <2>3. CASE ~(pc \in Watch /\ mode = "run" /\ ev'[cur].complete)
    BY <1>c, <2>3 DEF NothingSlips
  <2> QED
    BY <2>2, <2>3
<1>4. Marked'
  <2>1. CASE cur \in Executions
    BY <1>1, <1>2, <1>c, <2>1 DEF CompleteInv, Marked
  <2>2. CASE cur \notin Executions
    <3>1. pc \in {"idle", "exited", "dead"} /\ mode = "run" /\ cur = None
      BY <1>0, <2>2 DEF ScheduleInv, InPlace, RowInHand
    <3> QED
      BY <1>2, <1>c, <3>1 DEF CompleteInv, Marked, Watch
  <2> QED
    BY <2>1, <2>2
<1> QED
  BY <1>3, <1>4


\* What the worker has in mind, and what it can rely on elsewhere.
InMind == NothingSlips /\ Marked
Around == Channels /\ Unsent /\ RowsQuiet /\ MarkedByLoop

\* Steps that leave the rows and what the kernel printed, whatever they lose.
LEMMA AroundStays ==
  ASSUME TypeOK, CompleteInv, UNCHANGED <<state, ev, kout, sent>>,
         kq' \in {kq, <<>>}, shell' \in {shell, <<>>}, iopub' \in {iopub, <<>>}
  PROVE  /\ Channels' /\ Unsent' /\ RowsQuiet' /\ \A x : Quiet(x) => Quiet(x)'
         /\ UNCHANGED loopVars => Around'
<1>1. \A x : ~InKernel(x) => ~InKernel(x)'
  BY DEF InKernel
<1>2. Channels'
  BY <1>1 DEF CompleteInv, Channels
<1>3. Unsent'
  BY DEF CompleteInv, Unsent
<1>4. \A x : Quiet(x) => Quiet(x)'
  BY <1>1 DEF Quiet
<1>5. RowsQuiet'
  BY <1>4 DEF CompleteInv, RowsQuiet
<1>6. UNCHANGED loopVars => MarkedByLoop'
  BY <1>4 DEF CompleteInv, MarkedByLoop, loopVars
<1> QED
  BY <1>2, <1>3, <1>4, <1>5, <1>6 DEF Around

\* While the worker is busy, a routine of the loop is a forced stop.
LEMMA LoopMindStays ==
  ASSUME TypeOK, ScheduleInv, CompleteInv, pc # "idle", UNCHANGED loopVars,
         \A x \in Executions : ev'[x].complete => ev[x].complete
  PROVE  MarkedByLoop'
<1>1. UNCHANGED <<lpc, step, goal, work>>
  BY DEF loopVars
<1>2. step # "pick" => lpc \in {"reconcile", "force"} /\ work \in Executions
  BY DEF TypeOK, LoopTypeOK
<1>3. step # "pick" => goal = "unknown"
  BY <1>2 DEF ScheduleInv, Reconciled, CompleteInv, MarkedByLoop
<1> QED
  BY <1>1, <1>2, <1>3 DEF CompleteInv, MarkedByLoop

\* The worker gives its item back.
LEMMA ReleasedMind ==
  ASSUME NEW p \in {"idle", "exited", "dead"}, Released(p)
  PROVE  InMind'
BY DEF Released, InMind, NothingSlips, Marked, Watch, NewProof

Elsewhere == Working \ (Watch \cup {"finalize", "commit", "disconnect"})

\* The worker goes on to a place where nothing is promised about output.
LEMMA AwayMind ==
  ASSUME TypeOK, CompleteInv, cur \in Executions, mode = "run" \/ pc # "recover",
         state[cur] # "absent" => state'[cur] # "absent",
         ev'[cur].complete => ev[cur].complete
  PROVE  /\ pc' \in Elsewhere /\ UNCHANGED <<mode, cur, proof>> => InMind'
         /\ \A p \in Elsewhere : Go(p) => InMind'
         /\ \A h : Handle(h) => InMind'
         /\ Raise => InMind'
         /\ Finalizing("unknown") => InMind'
<1> USE DEF CompleteInv, InMind, NothingSlips, Marked
<1>0. pc' \in Elsewhere /\ UNCHANGED <<mode, cur, proof>> => InMind'
  BY DEF Elsewhere, Working, Watch
<1>1. ASSUME NEW p \in Elsewhere, Go(p) PROVE InMind'
  BY <1>0, <1>1 DEF Go
<1>2. ASSUME NEW h, Handle(h) PROVE InMind'
  BY <1>2 DEF Handle, Watch
<1>3. Raise => InMind'
  BY <1>2, ReleasedMind DEF Raise
<1>4. Finalizing("unknown") => InMind'
  BY DEF Finalizing, Watch
<1> QED
  BY <1>0, <1>1, <1>2, <1>3, <1>4

\* The worker goes on watching with the same output in hand.
LEMMA WatchMind ==
  ASSUME TypeOK, CompleteInv, pc \in Watch, pc' \in Watch,
         UNCHANGED <<mode, cur, kq, kout, iopub, tr>>, InHand' = InHand,
         proof'.idle = proof.idle, proof'.confirmed = proof.confirmed,
         ev'[cur].out = ev[cur].out, ev'[cur].complete => ev[cur].complete,
         ev'[cur].complete /\ ev'[cur].idle => ev[cur].idle \/ proof.idle,
         state[cur] # "absent" => state'[cur] # "absent",
         pc' \in {"confirm", "evidence"} /\ msg'.kind = "idle" => proof.idle
  PROVE  InMind'
<1>1. NothingSlips'
  BY DEF CompleteInv, NothingSlips, InKernel
<1>2. Marked'
  BY DEF CompleteInv, Marked, Watch
<1> QED
  BY <1>1, <1>2 DEF InMind

\* Nothing was printed for a request that was not sent.
LEMMA UnsentQuiet ==
  ASSUME TypeOK, PromiseInv, CompleteInv, NEW e \in Executions, sent[e] = 0,
         ev[e].complete
  PROVE  Quiet(e)
<1>1. ~InKernel(e)
  BY NoneAssumption DEF InKernel, PromiseInv, KernelTold
<1> QED
  BY <1>1 DEF CompleteInv, Unsent, Quiet

\* What is watched to its end is all there.
LEMMA WatchedQuiet ==
  ASSUME TypeOK, CompleteInv, pc \in Watch \ {"append", "confirm"}, mode = "run",
         proof.idle, ev[cur].complete
  PROVE  Quiet(cur)
<1>1. /\ ~InKernel(cur)
      /\ \A i \in DOMAIN iopub : ~Prints(iopub[i], cur)
      /\ kout[cur] = ev[cur].out + Waiting(iopub, cur) + InHand
  BY DEF CompleteInv, NothingSlips
<1>2. Waiting(iopub, cur) = 0 /\ InHand = 0
  BY <1>1, WaitingType DEF TypeOK, LinkTypeOK, InHand
<1>3. cur \in Executions /\ ev[cur].out \in Nat
  BY DEF TypeOK, WorkerTypeOK, MemoryTypeOK, StoreTypeOK, Watch, Evidence
<1> QED
  BY <1>1, <1>2, <1>3 DEF Quiet


-----------------------------------------------------------------------------
\* The request is handed over: its trace begins.
LEMMA SendComplete ==
  ASSUME TypeOK, PromiseInv, ScheduleInv, CompleteInv, Send, UNCHANGED loopVars
  PROVE  CompleteInv'
<1> DEFINE r == ExecRequest(cur)
<1>0. /\ pc = "send" /\ cur \in Executions /\ UNCHANGED <<state, ev, kout, shell, iopub, tr>>
      /\ sent' = [sent EXCEPT ![cur] = @ + 1]
  BY DEF Send, SendReturns, SendRaises, TypeOK, WorkerTypeOK, MemoryTypeOK, storeVars,
         wireVars
<1>1. /\ sent[cur] = 0 /\ state[cur] \in {"dispatching", "unknown"}
      /\ mode = "run" /\ ~proof.confirmed
  BY <1>0 DEF PromiseInv, AboutToSend, ScheduleInv, InPlace, RowInHand
<1>2. kq' \in {kq, Append(kq, r)} /\ ((Go("loop") /\ tr # "none") \/ Handle("dispatch"))
  BY DEF Send, SendReturns, SendRaises
<1>k. ~InKernel(cur)
  BY <1>1, NoneAssumption, <1>0 DEF InKernel, PromiseInv, KernelTold
<1>u. /\ kout[cur] = 0 /\ \A i \in DOMAIN iopub : iopub[i].parent # r
      /\ ev[cur].complete => ev[cur].out = 0 /\ ~ev[cur].idle
  BY <1>0, <1>1 DEF CompleteInv, Unsent
<1>3. /\ Len(kq) \in Nat /\ DOMAIN kq = 1..Len(kq)
      /\ DOMAIN Append(kq, r) = 1..(Len(kq) + 1)
      /\ \A i \in 1..Len(kq) : Append(kq, r)[i] = kq[i]
      /\ Append(kq, r)[Len(kq) + 1] = r
  BY AppendProperties, LenProperties, ConstantsTyped, <1>0
     DEF TypeOK, LinkTypeOK, Requests, ExecRequest
<1>4. r.exec = cur /\ r.info = 0
  BY DEF ExecRequest
<1> HIDE DEF r
<1>5. \A e \in Executions \ {cur} : InKernel(e)' <=> InKernel(e)
  BY <1>2, <1>3, <1>4 DEF InKernel
<1>6. Channels'
  <2>1. \A i \in DOMAIN kq' : kq'[i].exec # None => kq'[i].info = 0
    BY <1>2, <1>3, <1>4 DEF CompleteInv, Channels
  <2>2. \A i, j \in DOMAIN kq' : kq'[i].exec = kq'[j].exec /\ kq'[i].exec # None => i = j
    BY <1>2, <1>3, <1>4, <1>k DEF CompleteInv, Channels, InKernel
  <2>3. \A e \in Executions : \A i \in DOMAIN iopub : Ends(iopub[i], e) => e # cur
    BY <1>u DEF Ends, r
  <2> QED
    BY <1>0, <1>5, <2>1, <2>2, <2>3 DEF CompleteInv, Channels
<1>7. Unsent'
  <2> SUFFICES ASSUME NEW e \in Executions, sent'[e] = 0 PROVE sent[e] = 0
    BY <1>0 DEF CompleteInv, Unsent
  <2> QED
    BY <1>0, <1>1 DEF TypeOK, WorkerTypeOK
<1>8. \A e \in Executions \ {cur} : Quiet(e) => Quiet(e)'
  BY <1>0, <1>5 DEF Quiet
<1>9. RowsQuiet'
  BY <1>0, <1>1, <1>u, <1>8 DEF CompleteInv, RowsQuiet, TerminalStates
<1>10. MarkedByLoop'
  BY <1>0, LoopMindStays
<1>11. InMind'
  <2>1. CASE Handle("dispatch")
    BY <1>0, <2>1, AwayMind
  <2>2. CASE Go("loop") /\ tr # "none"
    <3>1. \A i \in DOMAIN iopub : ~Prints(iopub[i], cur)
      BY <1>u DEF Prints, r
    <3>2. Waiting(iopub, cur) = 0
      BY <3>1, WaitingType DEF TypeOK, LinkTypeOK
    <3>3. ~proof.idle
      BY <1>1 DEF CompleteInv, Marked
    <3>4. pc' = "loop" /\ UNCHANGED <<mode, cur, target, proof>> /\ InHand' = 0
      BY <2>2 DEF Go, InHand
    <3>5. NothingSlips'
      BY <1>0, <1>u, <3>2, <3>3, <3>4 DEF NothingSlips
    <3>6. Marked'
      BY <1>0, <1>1, <2>2, <3>3, <3>4 DEF CompleteInv, Marked
    <3> QED
      BY <3>5, <3>6 DEF InMind
  <2> QED
    BY <1>2, <2>1, <2>2
<1> QED
  BY <1>6, <1>7, <1>9, <1>10, <1>11 DEF CompleteInv, InMind

\* An output in hand is indexed.
LEMMA AppendComplete ==
  ASSUME TypeOK, PromiseInv, ScheduleInv, CompleteInv, pc = "append",
         CanAppendOutput(cur), AppendOutput(cur), Go("loop"), WiresKept, UNCHANGED loopVars
  PROVE  CompleteInv'
<1> USE DEF WiresKept
<1>0. /\ cur \in Executions /\ ev \in [Executions -> Evidence] /\ state' = state
      /\ ~ev[cur].finalized
  BY DEF TypeOK, WorkerTypeOK, MemoryTypeOK, StoreTypeOK, AppendOutput, CanAppendOutput
<1>1. /\ \A e \in Executions \ {cur} : ev'[e] = ev[e]
      /\ ev'[cur].out = ev[cur].out + 1
      /\ ev'[cur].complete = ev[cur].complete /\ ev'[cur].idle = ev[cur].idle
      /\ ev'[cur].finalized = ev[cur].finalized /\ ev[cur].out \in Nat
  BY <1>0 DEF AppendOutput, Evidence
<1>2. pc' = "loop" /\ UNCHANGED <<mode, cur, target, proof, msg>>
  BY DEF Go
<1>3. ev[cur].complete => mode = "run" /\ sent[cur] = 1
  <2>1. mode \in {"run", "recover"}
    BY DEF TypeOK, WorkerTypeOK, MemoryTypeOK
  <2> QED
    BY <2>1 DEF CompleteInv, Marked, PromiseInv, Watching
<1>4. InHand = 1 /\ InHand' = 0
  BY <1>2 DEF InHand
<1>5. kout[cur] \in Nat /\ Waiting(iopub, cur) \in Nat
  BY <1>0, WaitingType DEF TypeOK, LinkTypeOK
<1>6. NothingSlips'
  BY <1>1, <1>2, <1>3, <1>4, <1>5 DEF CompleteInv, NothingSlips, Watch, InKernel
<1>7. Marked'
  BY <1>0, <1>1, <1>2 DEF CompleteInv, Marked, Watch
<1>8. Channels'
  BY DEF CompleteInv, Channels, InKernel
<1>9. Unsent'
  BY <1>0, <1>1, <1>3 DEF CompleteInv, Unsent
<1>10. \A e \in Executions \ {cur} : Quiet(e) => Quiet(e)'
  BY <1>1 DEF Quiet, InKernel
<1>11. ev[cur].complete => ~ev[cur].idle
  <2> SUFFICES ASSUME ev[cur].complete, ev[cur].idle PROVE FALSE
    OBVIOUS
  <2>1. kout[cur] = ev[cur].out + Waiting(iopub, cur) + 1
    BY <1>3, <1>4 DEF CompleteInv, NothingSlips, Watch
  <2>2. kout[cur] = ev[cur].out
    BY <1>0 DEF CompleteInv, RowsQuiet, Quiet
  <2> QED
    BY <1>1, <1>5, <2>1, <2>2
<1>12. RowsQuiet'
  BY <1>0, <1>1, <1>10, <1>11 DEF CompleteInv, RowsQuiet
<1>13. MarkedByLoop'
  BY <1>1, LoopMindStays
<1> QED
  BY <1>6, <1>7, <1>8, <1>9, <1>12, <1>13 DEF CompleteInv


\* A reply or the end of the execution is recorded.
LEMMA EvidenceComplete ==
  ASSUME TypeOK, PromiseInv, ScheduleInv, CompleteInv, EvidenceStep,
         CanRecordEvidence(cur), UNCHANGED loopVars
  PROVE  CompleteInv'
<1> DEFINE t == TerminalState(proof.reply, proof.idle, proof.want)
<1>0. /\ cur \in Executions /\ ev \in [Executions -> Evidence] /\ state' = state
      /\ pc = "evidence" /\ WiresKept
      /\ IF t = "none" THEN Go("loop") ELSE Finalizing(t)
      /\ RecordEvidence(cur, IF msg.kind \in ValidReplies THEN proof.reply ELSE "none",
                        msg.kind = "idle")
  BY DEF TypeOK, WorkerTypeOK, MemoryTypeOK, StoreTypeOK, EvidenceStep, RecordEvidence,
         WiresKept, linkVars, kernelVars, wireVars
<1>1. /\ \A e \in Executions \ {cur} : ev'[e] = ev[e]
      /\ ev'[cur].out = ev[cur].out /\ ev'[cur].finalized = ev[cur].finalized
      /\ ev'[cur].complete = ev[cur].complete
      /\ ev'[cur].idle => ev[cur].idle \/ msg.kind = "idle"
  BY <1>0 DEF RecordEvidence, Evidence
<1>2. ev[cur].complete => mode = "run" /\ sent[cur] = 1
  <2>1. mode \in {"run", "recover"}
    BY DEF TypeOK, WorkerTypeOK, MemoryTypeOK
  <2> QED
    BY <1>0, <2>1 DEF CompleteInv, Marked, PromiseInv, Watching
<1>3. msg.kind = "idle" => proof.idle
  BY <1>0 DEF CompleteInv, Marked
<1>4. proof.idle /\ ev[cur].complete => Quiet(cur)
  BY <1>0, <1>2, WatchedQuiet DEF Watch
<1>5. RowStays(cur)
  BY <1>0, <1>1, <1>2, <1>3, <1>4 DEF RowStays
<1>6. /\ Channels' /\ Unsent' /\ RowsQuiet' /\ \A x \in Executions : Quiet(x) => Quiet(x)'
  BY <1>0, <1>5, RowStaysComplete
<1>7. MarkedByLoop'
  BY <1>0, <1>1, LoopMindStays
<1>8. InMind'
  <2>1. CASE Go("loop")
    <3>1. pc' = "loop" /\ UNCHANGED <<mode, cur, proof, msg>> /\ InHand = 0 /\ InHand' = 0
      BY <1>0, <2>1 DEF Go, InHand
    <3> QED
      BY <1>0, <1>1, <1>3, <3>1, WatchMind DEF Watch, WiresKept
  <2>2. CASE t # "none" /\ Finalizing(t)
    <3>1. proof.idle
      BY <2>2 DEF TerminalState
    <3>2. pc' = "finalize" /\ UNCHANGED <<mode, cur, proof, msg>>
      BY <2>2 DEF Finalizing
    <3>3. NothingSlips'
      BY <3>2 DEF NothingSlips, Watch
    <3>4. Marked'
      BY <1>0, <1>1, <1>4, <1>6, <3>1, <3>2 DEF CompleteInv, Marked, Watch
    <3> QED
      BY <3>3, <3>4 DEF InMind
  <2> QED
    BY <1>0, <2>1, <2>2
<1> QED
  BY <1>6, <1>7, <1>8 DEF CompleteInv, InMind

\* A message comes off the wire.
LEMMA NextEventComplete ==
  ASSUME TypeOK, PromiseInv, ScheduleInv, CompleteInv, NextEvent, UNCHANGED loopVars
  PROVE  CompleteInv'
<1>0. /\ pc = "event" /\ cur \in Executions /\ mode \in {"run", "recover"}
      /\ UNCHANGED <<state, ev, kq, kout, tr, sent>> /\ UNCHANGED storeVars
      /\ shell \in Seq(Messages) /\ iopub \in Seq(Messages)
  BY DEF NextEvent, TypeOK, WorkerTypeOK, MemoryTypeOK, LinkTypeOK, storeVars, linkVars,
         kernelVars, wireVars, TakeMessage
<1>h. InHand = 0
  BY <1>0 DEF InHand
<1>1. CASE NextEventTimesOut /\ Go("loop") /\ UNCHANGED linkVars
  <2>1. UNCHANGED <<shell, iopub>>
    BY <1>1 DEF linkVars, wireVars
  <2>2. Around'
    BY <1>0, <2>1, AroundStays
  <2>3. pc' = "loop" /\ UNCHANGED <<mode, cur, proof, msg>> /\ InHand' = 0
    BY <1>1 DEF Go, InHand
  <2>4. InMind'
    BY <1>0, <1>h, <2>1, <2>3, WatchMind DEF Watch
  <2> QED
    BY <2>2, <2>4 DEF Around, InMind, CompleteInv
<1>2. CASE /\ UNCHANGED linkVars
           /\ \/ Handle("lost")
              \/ pc' = "drop" /\ UNCHANGED <<mode, cur, proof>>
  <2>1. Around'
    BY <1>0, <1>2, AroundStays DEF linkVars, wireVars
  <2>2. InMind'
    BY <1>0, <1>2, AwayMind DEF Elsewhere, Working, Places, Watch
  <2> QED
    BY <2>1, <2>2 DEF Around, InMind, CompleteInv
<1>3. ASSUME NEW m, TakeMessage(m),
             ObserveExecution(m) \/ ObserveBoundary(m) \/ Unmatched(m)
      PROVE  CompleteInv'
  <2> DEFINE w == IF Prints(m, cur) THEN 1 ELSE 0
  <2>1. \/ shell # <<>> /\ m = Head(shell) /\ shell' = Tail(shell) /\ iopub' = iopub
        \/ iopub # <<>> /\ m = Head(iopub) /\ iopub' = Tail(iopub) /\ shell' = shell
    BY <1>3 DEF TakeMessage
  <2>2. ASSUME NEW q \in Seq(Messages), q # <<>>
        PROVE  /\ Head(q) = q[1] /\ 1 \in DOMAIN q /\ DOMAIN q \subseteq Nat
               /\ \A i \in DOMAIN Tail(q) : i + 1 \in DOMAIN q /\ Tail(q)[i] = q[i + 1]
               /\ Tail(q) \in Seq(Messages)
    BY <2>2, HeadTailProperties, LenProperties, EmptySeq
  <2>3. /\ \A i \in DOMAIN shell' : \E j \in DOMAIN shell : shell'[i] = shell[j]
        /\ \A i \in DOMAIN iopub' : \E j \in DOMAIN iopub : iopub'[i] = iopub[j]
        /\ iopub' \in Seq(Messages)
    <3>1. ASSUME NEW q \in Seq(Messages), q # <<>>
          PROVE  \A i \in DOMAIN Tail(q) : \E j \in DOMAIN q : Tail(q)[i] = q[j]
      BY <2>2, <3>1
    <3>2. CASE shell # <<>> /\ shell' = Tail(shell) /\ iopub' = iopub
      <4>1. \A i \in DOMAIN shell' : \E j \in DOMAIN shell : shell'[i] = shell[j]
        BY <1>0, <3>1, <3>2
      <4> QED
        BY <1>0, <3>2, <4>1
    <3>3. CASE iopub # <<>> /\ iopub' = Tail(iopub) /\ shell' = shell
      <4>1. \A i \in DOMAIN iopub' : \E j \in DOMAIN iopub : iopub'[i] = iopub[j]
        BY <1>0, <3>1, <3>3
      <4> QED
        BY <1>0, <2>2, <3>3, <4>1
    <3> QED
      BY <2>1, <3>2, <3>3
  <2>4. \A e \in Executions : Ends(m, e) =>
          ~InKernel(e) /\ \A i \in DOMAIN iopub' : ~Prints(iopub'[i], e)
    <3> SUFFICES ASSUME NEW e \in Executions, Ends(m, e)
                 PROVE  ~InKernel(e) /\ \A i \in DOMAIN iopub' : ~Prints(iopub'[i], e)
      OBVIOUS
    <3>1. m.kind = "idle"
      BY DEF Ends
    <3>2. iopub # <<>> /\ m = Head(iopub) /\ iopub' = Tail(iopub)
      <4>1. ASSUME shell # <<>>, m = Head(shell) PROVE FALSE
        <5>1. m = shell[1] /\ 1 \in DOMAIN shell
          BY <1>0, <2>2, <4>1
        <5> QED
          BY <3>1, <5>1 DEF CompleteInv, Channels
      <4> QED
        BY <2>1, <4>1
    <3>3. m = iopub[1] /\ 1 \in DOMAIN iopub
      BY <1>0, <2>2, <3>2
    <3>4. ~InKernel(e) /\ \A j \in DOMAIN iopub : j > 1 => ~Prints(iopub[j], e)
      BY <3>3 DEF CompleteInv, Channels
    <3>5. \A i \in DOMAIN iopub' : i \in Nat /\ i > 0 /\ i + 1 \in DOMAIN iopub
                                   /\ iopub'[i] = iopub[i + 1]
      BY <1>0, <2>2, <3>2, LenProperties, DOMAIN iopub' = 1..Len(iopub')
    <3> QED
      BY <3>4, <3>5
  <2>5. /\ Waiting(iopub, cur) = Waiting(iopub', cur) + w
        /\ EndIn(iopub', cur) \/ Ends(m, cur) => EndIn(iopub, cur)
    <3>1. CASE iopub # <<>> /\ m = Head(iopub) /\ iopub' = Tail(iopub)
      BY <1>0, <3>1, WaitingTail
    <3>2. CASE shell # <<>> /\ m = Head(shell) /\ iopub' = iopub
      <4>1. m.kind \notin {"output", "idle"}
        BY <1>0, <2>2, <3>2 DEF CompleteInv, Channels
      <4>2. ~Prints(m, cur) /\ ~Ends(m, cur) /\ Waiting(iopub, cur) \in Nat
        BY <1>0, <4>1, WaitingType DEF Prints, Ends
      <4> QED
        BY <3>2, <4>2
    <3> QED
      BY <2>1, <3>1, <3>2
  <2>6. Channels'
    <3>1. \A e \in Executions : \A i \in DOMAIN iopub' :
            Ends(iopub'[i], e) =>
              /\ ~InKernel(e)
              /\ \A j \in DOMAIN iopub' : j > i => ~Prints(iopub'[j], e)
      <4>1. CASE iopub' = iopub
        BY <4>1 DEF CompleteInv, Channels
      <4>2. CASE iopub # <<>> /\ iopub' = Tail(iopub)
        <5>1. \A i \in DOMAIN iopub' : i \in Nat /\ i + 1 \in DOMAIN iopub
                                       /\ iopub'[i] = iopub[i + 1]
          BY <1>0, <2>2, <4>2, LenProperties, DOMAIN iopub' = 1..Len(iopub')
        <5>2. ASSUME NEW e \in Executions, NEW i \in DOMAIN iopub', Ends(iopub'[i], e),
                     NEW j \in DOMAIN iopub', j > i
              PROVE  ~Prints(iopub'[j], e)
          <6>1. Ends(iopub[i + 1], e) /\ j + 1 > i + 1
            BY <5>1, <5>2
          <6>2. ~Prints(iopub[j + 1], e)
            BY <5>1, <6>1 DEF CompleteInv, Channels
          <6> QED
            BY <5>1, <6>2
        <5>3. ASSUME NEW e \in Executions, NEW i \in DOMAIN iopub', Ends(iopub'[i], e)
              PROVE  ~InKernel(e)
          BY <5>1, <5>3 DEF CompleteInv, Channels
        <5> QED
          BY <5>2, <5>3
      <4> QED
        BY <2>1, <4>1, <4>2
    <3>2. \A e : InKernel(e)' <=> InKernel(e)
      BY <1>0 DEF InKernel
    <3> QED
      BY <1>0, <2>3, <3>1, <3>2 DEF CompleteInv, Channels
  <2>7. Unsent'
    BY <1>0, <2>3 DEF CompleteInv, Unsent
  <2>8. RowsQuiet'
    BY <1>0 DEF CompleteInv, RowsQuiet, Quiet, InKernel
  <2>9. MarkedByLoop'
    BY <1>0, LoopMindStays
  <2>k. InKernel(cur)' <=> InKernel(cur) \/ cur' # cur
    <3>1. cur' = cur
      BY <1>3 DEF ObserveExecution, ObserveBoundary, Unmatched, Go
    <3> QED
      BY <1>0, <3>1 DEF InKernel
  <2>10. NothingSlips'
    <3> SUFFICES ASSUME mode' = "run", pc' \in Watch, ev'[cur'].complete
                 PROVE  /\ ev'[cur'].idle => proof'.idle
                        /\ proof'.idle =>
                             /\ ~InKernel(cur)
                             /\ \A i \in DOMAIN iopub' : ~Prints(iopub'[i], cur)
                        /\ tr' = "up" \/ proof'.idle \/ EndIn(iopub', cur) =>
                             kout'[cur] = ev'[cur].out + Waiting(iopub', cur) + InHand'
      BY <1>3, <1>0 DEF NothingSlips, InKernel, ObserveExecution, ObserveBoundary, Unmatched, Go
    <3>1. mode = "run" /\ cur' = cur /\ ev[cur].complete
      BY <1>0, <1>3 DEF ObserveExecution, ObserveBoundary, Unmatched, Go
    <3>2. /\ ev[cur].idle => proof.idle
          /\ proof.idle => ~InKernel(cur) /\ \A i \in DOMAIN iopub : ~Prints(iopub[i], cur)
          /\ tr = "up" \/ proof.idle \/ EndIn(iopub, cur) =>
               kout[cur] = ev[cur].out + Waiting(iopub, cur)
      <4>1. ev[cur].out \in Nat /\ Waiting(iopub, cur) \in Nat
        BY <1>0, WaitingType DEF TypeOK, StoreTypeOK, Evidence
      <4> QED
        BY <1>0, <1>h, <3>1, <4>1 DEF CompleteInv, NothingSlips, Watch
    <3>3. /\ proof'.idle <=> proof.idle \/ Ends(m, cur)
          /\ InHand' = w
      <4>1. CASE ObserveExecution(m)
        <5>1. m.parent = ExecRequest(cur) /\ proof \in Proofs
              /\ (m.kind = "output" <=> Prints(m, cur)) /\ (m.kind = "idle" <=> Ends(m, cur))
          BY <4>1 DEF ObserveExecution, Prints, Ends, TypeOK, WorkerTypeOK, MemoryTypeOK
        <5>2. proof'.idle <=> proof.idle \/ m.kind = "idle"
          BY <4>1, <5>1 DEF ObserveExecution, Proofs
        <5>3. InHand' = IF m.kind = "output" THEN 1 ELSE 0
          BY <4>1 DEF ObserveExecution, InHand, AfterConfirm, ValidReplies
        <5> QED
          BY <5>1, <5>2, <5>3
      <4>2. CASE Unmatched(m)
        BY <4>2 DEF Unmatched, Go, InHand, Prints, Ends
      <4>3. CASE ObserveBoundary(m)
        BY <3>1, <4>3 DEF ObserveBoundary
      <4> QED
        BY <1>3, <4>1, <4>2, <4>3
    <3>4. proof'.idle => ~InKernel(cur) /\ \A i \in DOMAIN iopub' : ~Prints(iopub'[i], cur)
      BY <1>0, <2>3, <2>4, <3>2, <3>3
    <3>5. ev[cur].out \in Nat /\ Waiting(iopub', cur) \in Nat /\ w \in {0, 1}
      BY <1>0, <2>3, WaitingType DEF TypeOK, StoreTypeOK, Evidence
    <3>6. tr' = "up" \/ proof'.idle \/ EndIn(iopub', cur) =>
            kout'[cur] = ev'[cur].out + Waiting(iopub', cur) + InHand'
      <4> HIDE DEF w
      <4>1. tr' = "up" \/ proof'.idle \/ EndIn(iopub', cur) =>
              tr = "up" \/ proof.idle \/ EndIn(iopub, cur)
        BY <1>0, <2>5, <3>3
      <4>2. ev[cur].out + (Waiting(iopub', cur) + w) = ev[cur].out + Waiting(iopub', cur) + w
        BY <3>5
      <4> QED
        BY <1>0, <2>5, <3>2, <3>3, <4>1, <4>2
    <3> QED
      BY <1>0, <3>1, <3>2, <3>3, <3>4, <3>6
  <2>11. Marked'
    <3>1. CASE ObserveExecution(m)
      <4>1. /\ mode' = mode /\ cur' = cur /\ proof'.confirmed
            /\ m.kind = "idle" => proof'.idle
            /\ pc' \in {"confirm", "append", "evidence", "loop"}
            /\ pc' \in {"confirm", "evidence"} => msg' = m
        BY <3>1 DEF ObserveExecution, Proofs, AfterConfirm, TypeOK, WorkerTypeOK, MemoryTypeOK
      <4> QED
        BY <1>0, <4>1 DEF CompleteInv, Marked, Watch
    <3>2. CASE ObserveBoundary(m)
      <4>1. UNCHANGED <<mode, cur, proof>> /\ pc' \in {"handle", "loop"}
        BY <3>2 DEF ObserveBoundary
      <4> QED
        BY <1>0, <4>1 DEF CompleteInv, Marked, Watch
    <3>3. CASE Unmatched(m)
      <4>1. UNCHANGED <<mode, cur, proof>> /\ pc' = "loop"
        BY <3>3 DEF Unmatched, Go
      <4> QED
        BY <1>0, <4>1 DEF CompleteInv, Marked, Watch
    <3> QED
      BY <1>3, <3>1, <3>2, <3>3
  <2> QED
    BY <2>6, <2>7, <2>8, <2>9, <2>10, <2>11 DEF CompleteInv
<1> QED
  BY <1>1, <1>2, <1>3 DEF NextEvent


\* A step of the worker keeps all parts together.
LEMMA WorkerKeepsComplete ==
  ASSUME TypeOK, PromiseInv, ScheduleInv, CompleteInv, WorkerStep
  PROVE  CompleteInv'
<1>l. UNCHANGED loopVars
  BY DEF WorkerStep
<1>t. StoreTypeOK /\ MemoryTypeOK /\ state \in [Executions -> ExecStates]
      /\ ev \in [Executions -> Evidence]
  BY DEF TypeOK, WorkerTypeOK, StoreTypeOK
<1>c. pc \notin {"idle", "exited", "dead"} => cur \in Executions
  BY <1>t DEF MemoryTypeOK
<1>d. pc \notin {"idle", "exited", "dead"} => state[cur] # "absent"
  BY <1>c, NoneAssumption DEF CompleteInv, Marked
<1>w. \A x \in {"finalize", "commit", "disconnect"} : x \notin Elsewhere /\ x \notin Watch
  BY DEF Elsewhere, Watch
<1>q. ASSUME Around', InMind' PROVE CompleteInv'
  BY <1>q DEF CompleteInv, Around, InMind
<1>s. ASSUME UNCHANGED <<storeVars, kq, kout, shell, iopub, sent>> 
      PROVE  /\ Around' /\ UNCHANGED <<state, ev>>
             /\ \A x \in Executions : Quiet(x) => Quiet(x)'
  BY <1>l, <1>s, AroundStays DEF storeVars
<1>n. UNCHANGED linkVars => UNCHANGED <<kq, kout, shell, iopub, tr>>
  BY DEF linkVars, kernelVars, wireVars
<1>a. ASSUME UNCHANGED <<state, ev>>, cur \in Executions, mode = "run" \/ pc # "recover",
             \/ pc' \in Elsewhere /\ UNCHANGED <<mode, cur, proof>>
             \/ \E p \in Elsewhere : Go(p)
             \/ \E h \in Handlers : Handle(h)
             \/ Raise
             \/ Finalizing("unknown")
             \/ \E p \in {"idle", "exited", "dead"} : Released(p)
      PROVE  InMind'
  BY <1>a, AwayMind, ReleasedMind
<1>r. ASSUME pc # "idle", cur \in Executions, RowStays(cur), WiresKept
      PROVE  /\ Around' /\ \A x \in Executions : Quiet(x) => Quiet(x)'
             /\ (ev'[cur].complete => ev[cur].complete)
             /\ (state[cur] # "absent" => state'[cur] # "absent")
  <2>1. \A x \in Executions : ev'[x].complete => ev[x].complete
    BY <1>r DEF RowStays
  <2> QED
    BY <1>l, <1>r, <2>1, RowStaysComplete, LoopMindStays DEF Around, RowStays
<1>b. ASSUME pc # "idle", pc # "recover", cur \in Executions, RowStays(cur), WiresKept,
             \/ \E p \in Elsewhere : Go(p)
             \/ \E h \in Handlers : Handle(h)
             \/ Raise
             \/ Finalizing("unknown")
             \/ \E p \in {"idle", "exited", "dead"} : Released(p)
      PROVE  CompleteInv'
  BY <1>b, <1>q, <1>r, AwayMind, ReleasedMind
\* A queued row was not sent: it may be interrupted with what it has.
<1>f. ASSUME UNCHANGED <<state, ev>>, cur \in Executions, state[cur] = "queued", Around',
             pc # "recover",
             (\A x \in Executions : Quiet(x) => Quiet(x)'), Finalizing("interrupted")
      PROVE  InMind'
  <2>1. sent[cur] = 0
    BY <1>f DEF PromiseInv, Handed
  <2>2. ev[cur].complete => Quiet(cur)
    BY <1>f, <2>1, UnsentQuiet
  <2>3. pc' = "finalize" /\ UNCHANGED <<mode, cur, proof, msg>>
    BY <1>f DEF Finalizing
  <2> QED
    BY <1>f, <2>2, <2>3 DEF InMind, NothingSlips, Marked, CompleteInv, Watch
<1>p. {"read", "source", "connect", "register", "begin", "send", "recover", "info", "handle",
       "mark", "reread", "drop", "recheck"} \subseteq Elsewhere
  BY DEF Elsewhere, Working, Places, Watch
<1>h. {"dispatch", "lost", "interrupt", "worker", "recovery", "swap", "retry"} \subseteq Handlers
  BY DEF Handlers
<1>1. CASE TakeItem
  <2> DEFINE item == Head(fifo)
  <2>1. /\ pc = "idle" /\ fifo # <<>> /\ UNCHANGED <<storeVars, linkVars, sent>>
        /\ IF item.kind = "stop"
           THEN Released("exited")
           ELSE /\ pc' \in {"read", "recover"}
                /\ mode' = IF pc' = "read" THEN "run" ELSE "recover"
                /\ cur' = item.exec /\ UNCHANGED <<proof, msg>>
    BY <1>1 DEF TakeItem
  <2>2. Around' /\ UNCHANGED <<state, ev>>
    BY <1>n, <1>s, <2>1
  <2>3. mode = "run"
    BY <2>1 DEF ScheduleInv, InPlace, RowInHand
  <2>4. item.kind # "stop" => state[item.exec] # "absent"
    <3>1. 1 \in DOMAIN fifo /\ item = fifo[1]
      <4>1. fifo \in Seq(Items)
        BY DEF TypeOK, WorkerTypeOK
      <4> QED
        BY <2>1, <4>1
    <3>2. item.kind # "stop" => item.kind \in {"execute", "recover"}
      BY <3>1, QueueItems DEF Items
    <3> QED
      BY <3>1, <3>2 DEF ScheduleInv, Queue, TerminalStates
  <2> HIDE DEF item
  <2>5. CASE item.kind = "stop"
    BY <1>q, <2>1, <2>2, <2>5, ReleasedMind
  <2>6. CASE item.kind # "stop"
    <3>1. NothingSlips'
      BY <2>1, <2>6 DEF NothingSlips, Watch
    <3>2. Marked'
      BY <2>1, <2>2, <2>3, <2>4, <2>6 DEF CompleteInv, Marked, Watch
    <3> QED
      BY <1>q, <2>2, <3>1, <3>2 DEF InMind
  <2> QED
    BY <2>5, <2>6
<1>2. CASE ReadRow
  <2>1. /\ cur \in Executions /\ pc = "read" /\ UNCHANGED <<storeVars, linkVars, sent>>
        /\ \/ Released("idle")
           \/ state[cur] = "queued" /\ Finalizing("interrupted")
           \/ pc' = "source" /\ UNCHANGED <<mode, cur, proof>>
    BY <1>2, <1>c DEF ReadRow
  <2>2. Around' /\ UNCHANGED <<state, ev>>
    BY <1>n, <1>s, <2>1
  <2>3. \A x \in Executions : Quiet(x) => Quiet(x)'
    BY <1>n, <1>s, <2>1
  <2>4. InMind'
    BY <1>a, <1>f, <1>p, <2>1, <2>2, <2>3
  <2> QED
    BY <1>q, <2>2, <2>4
<1>3. CASE ReadSource
  <2>1. /\ cur \in Executions /\ pc = "source" /\ UNCHANGED <<storeVars, linkVars, sent>>
        /\ Go("connect") \/ Raise
    BY <1>3, <1>c DEF ReadSource
  <2>2. Around' /\ UNCHANGED <<state, ev>>
    BY <1>n, <1>s, <2>1
  <2> QED
    BY <1>a, <1>p, <1>q, <2>1, <2>2
<1>4. CASE ConnectForRun \/ ConnectForRecovery
  <2>1. /\ cur \in Executions /\ pc = "connect" /\ UNCHANGED <<storeVars, sent>>
        /\ UNCHANGED <<kq, kout, shell, iopub>>
        /\ \/ Go("begin") \/ Go("register") \/ Go("info") \/ Go("recover")
           \/ Handle("dispatch") \/ Handle("swap")
    BY <1>4, <1>c, <1>n DEF ConnectForRun, ConnectForRecovery, SameKernel, Connect, ConnectFails,
       kernelVars, wireVars
  <2>2. Around' /\ UNCHANGED <<state, ev>>
    BY <1>s, <2>1
  <2> QED
    BY <1>a, <1>h, <1>p, <1>q, <2>1, <2>2
<1>5. CASE RegisterConnection
  <2>1. /\ cur \in Executions /\ pc = "register" /\ UNCHANGED <<storeVars, linkVars, sent>>
        /\ \/ Go("begin") \/ Go("info") \/ Go("recover")
           \/ Handle("dispatch") \/ Handle("swap")
    BY <1>5, <1>c DEF RegisterConnection, SameKernel
  <2>2. Around' /\ UNCHANGED <<state, ev>>
    BY <1>n, <1>s, <2>1
  <2> QED
    BY <1>a, <1>h, <1>p, <1>q, <2>1, <2>2
<1>6. CASE BeginDispatchStep
  <2>1. cur \in Executions /\ pc = "begin" /\ UNCHANGED <<linkVars, sent>>
    BY <1>6, <1>c DEF BeginDispatchStep
  <2>2. CASE UNCHANGED storeVars /\ Handle("dispatch")
    <3>1. Around' /\ UNCHANGED <<state, ev>>
      BY <1>n, <1>s, <2>1, <2>2
    <3> QED
      BY <1>a, <1>h, <1>q, <2>1, <2>2, <3>1
  <2>3. CASE BeginDispatch(cur, seen, peer) /\ Go("send")
    <3>1. RowStays(cur)
      BY <1>t, <2>1, <2>3 DEF BeginDispatch, RowStays, Evidence, TerminalStates
    <3> QED
      BY <1>b, <1>n, <1>p, <2>1, <2>3, <3>1 DEF WiresKept
  <2> QED
    BY <1>6, <2>2, <2>3 DEF BeginDispatchStep
<1>7. CASE Send
  BY <1>7, <1>l, SendComplete
\* Another look at the row, and the interrupt that it may ask for.
<1>v. ASSUME pc \in {"loop", "expire"}, RowStays(cur), UNCHANGED <<linkVars, sent>>,
             ev'[cur].idle => ev[cur].idle, pc' \in {"event", "expire"},
             UNCHANGED <<mode, cur>>, proof'.idle = proof.idle,
             proof'.confirmed = proof.confirmed
      PROVE  CompleteInv'
  <2>1. cur \in Executions /\ WiresKept
    BY <1>c, <1>n, <1>v DEF WiresKept
  <2>2. Around' /\ ev'[cur].out = ev[cur].out /\ (ev'[cur].complete => ev[cur].complete)
        /\ (state[cur] # "absent" => state'[cur] # "absent")
    BY <1>r, <1>v, <2>1 DEF RowStays
  <2>3. InHand = 0 /\ InHand' = 0
    BY <1>v DEF InHand
  <2>4. InMind'
    BY <1>v, <2>1, <2>2, <2>3, WatchMind DEF Watch, WiresKept
  <2> QED
    BY <1>q, <2>2, <2>4
<1>i. ASSUME NEW x, proof' = [proof EXCEPT !.want = x]
      PROVE  proof'.idle = proof.idle /\ proof'.confirmed = proof.confirmed
  BY <1>i, <1>t DEF MemoryTypeOK, Proofs
<1>j. ASSUME NEW x, Interrupting(x)
      PROVE  /\ UNCHANGED <<kq, kout, shell, iopub, tr>>
             /\ \/ /\ pc' = "event" /\ UNCHANGED <<mode, cur, linkVars>>
                   /\ proof'.idle = proof.idle /\ proof'.confirmed = proof.confirmed
                \/ Handle("interrupt")
  BY <1>j, <1>i, <1>n DEF Interrupting, InterruptReturns, InterruptRaises, kernelVars, wireVars
<1>8. CASE Loop
  <2>1. cur \in Executions /\ pc = "loop" /\ UNCHANGED <<storeVars, sent>>
    BY <1>8, <1>c DEF Loop
  <2>2. RowStays(cur) /\ UNCHANGED <<state, ev>>
    BY <2>1 DEF RowStays, storeVars
  <2>3. CASE (Go("event") \/ Go("expire")) /\ UNCHANGED linkVars
    BY <1>v, <2>1, <2>2, <2>3 DEF Go
  <2>4. CASE Released("idle") /\ UNCHANGED linkVars
    BY <1>b, <1>n, <2>1, <2>2, <2>4 DEF WiresKept
  <2>5. ASSUME NEW x, Interrupting(x) PROVE CompleteInv'
    <3>1. CASE Handle("interrupt")
      BY <1>b, <1>h, <1>j, <2>1, <2>2, <2>5, <3>1 DEF WiresKept
    <3>2. CASE ~Handle("interrupt")
      BY <1>j, <1>v, <2>1, <2>2, <2>5, <3>2
    <3> QED
      BY <3>1, <3>2
  <2> QED
    BY <1>8, <2>3, <2>4, <2>5 DEF Loop
<1>9. CASE Expire
  <2>1. cur \in Executions /\ pc = "expire" /\ UNCHANGED sent
    BY <1>9, <1>c DEF Expire
  <2>2. RowStays(cur) /\ (ev'[cur].idle => ev[cur].idle)
    BY <1>9, <1>t, <2>1 DEF Expire, RequestTimeout, RowStays, Evidence
  <2>3. CASE Go("event") /\ UNCHANGED linkVars
    BY <1>v, <2>1, <2>2, <2>3 DEF Go
  <2>4. ASSUME NEW x, Interrupting(x) PROVE CompleteInv'
    <3>1. CASE Handle("interrupt")
      BY <1>b, <1>h, <1>j, <2>1, <2>2, <2>4, <3>1 DEF WiresKept
    <3>2. CASE ~Handle("interrupt")
      BY <1>j, <1>v, <2>1, <2>2, <2>4, <3>2
    <3> QED
      BY <3>1, <3>2
  <2> QED
    BY <1>9, <2>3, <2>4 DEF Expire
<1>10. CASE NextEvent
  BY <1>10, <1>l, NextEventComplete
<1>11. CASE ConfirmStep
  <2>1. cur \in Executions /\ pc = "confirm" /\ UNCHANGED <<linkVars, sent>>
    BY <1>11, <1>c DEF ConfirmStep
  <2>2. CASE UNCHANGED storeVars /\ Raise
    <3>1. Around' /\ UNCHANGED <<state, ev>>
      BY <1>n, <1>s, <2>1, <2>2
    <3> QED
      BY <1>a, <1>q, <2>1, <2>2, <3>1
  <2>3. CASE ConfirmDispatch(cur) /\ Go(AfterConfirm(msg.kind))
    <3>1. RowStays(cur) /\ (ev'[cur].idle => ev[cur].idle)
      BY <1>t, <2>1, <2>3 DEF ConfirmDispatch, RowStays, Evidence, TerminalStates
    <3>2. Around' /\ ev'[cur].out = ev[cur].out /\ (ev'[cur].complete => ev[cur].complete)
          /\ (state[cur] # "absent" => state'[cur] # "absent") /\ UNCHANGED <<kq, kout, iopub, tr>>
      BY <1>n, <1>r, <2>1, <3>1 DEF RowStays, WiresKept
    <3>3. /\ pc' \in {"append", "evidence", "loop"} /\ UNCHANGED <<mode, cur, proof, msg>>
          /\ pc' = "append" <=> msg.kind = "output"
      BY <2>3 DEF Go, AfterConfirm, ValidReplies
    <3>4. InHand' = InHand
      BY <2>1, <3>3 DEF InHand
    <3>5. pc' = "evidence" /\ msg'.kind = "idle" => proof.idle
      BY <2>1, <3>3 DEF CompleteInv, Marked
    <3>6. InMind'
      BY <2>1, <3>1, <3>2, <3>3, <3>4, <3>5, WatchMind DEF Watch
    <3> QED
      BY <1>q, <3>2, <3>6
  <2> QED
    BY <1>11, <2>2, <2>3 DEF ConfirmStep
<1>12. CASE AppendStep
  <2>1. cur \in Executions /\ pc = "append" /\ UNCHANGED <<linkVars, sent>>
    BY <1>12, <1>c DEF AppendStep
  <2>2. CASE UNCHANGED storeVars /\ Raise
    <3>1. Around' /\ UNCHANGED <<state, ev>>
      BY <1>n, <1>s, <2>1, <2>2
    <3> QED
      BY <1>a, <1>q, <2>1, <2>2, <3>1
  <2>3. CASE CanAppendOutput(cur) /\ AppendOutput(cur) /\ Go("loop")
    BY <1>l, <1>n, <2>1, <2>3, AppendComplete DEF WiresKept
  <2> QED
    BY <1>12, <2>2, <2>3 DEF AppendStep
<1>13. CASE EvidenceStep
  <2>1. cur \in Executions /\ pc = "evidence" /\ UNCHANGED <<linkVars, sent>>
    BY <1>13, <1>c DEF EvidenceStep
  <2>2. CASE UNCHANGED storeVars /\ Raise
    <3>1. Around' /\ UNCHANGED <<state, ev>>
      BY <1>n, <1>s, <2>1, <2>2
    <3> QED
      BY <1>a, <1>q, <2>1, <2>2, <3>1
  <2>3. CASE CanRecordEvidence(cur)
    BY <1>13, <1>l, <2>3, EvidenceComplete
  <2> QED
    BY <1>13, <2>2, <2>3 DEF EvidenceStep
<1>14. CASE RecoverRead
  <2>1. cur \in Executions /\ pc = "recover" /\ UNCHANGED <<storeVars, linkVars, sent>>
    BY <1>14, <1>c DEF RecoverRead
  <2>2. Around' /\ UNCHANGED <<state, ev>>
    BY <1>n, <1>s, <2>1
  <2>3. CASE Released("idle")
    BY <1>q, <2>2, <2>3, ReleasedMind
  <2>4. CASE ~Released("idle")
    <3>1. state[cur] = "disconnected" /\ mode' = "recover" /\ cur' = cur
          /\ pc' \in {"handle", "connect"}
      BY <1>14, <2>4 DEF RecoverRead
    <3>2. ~ev[cur].complete
      BY <2>1, <3>1 DEF CompleteInv, RowsQuiet
    <3>3. InMind'
      BY <2>2, <3>1, <3>2 DEF InMind, NothingSlips, Marked, Watch
    <3> QED
      BY <1>q, <2>2, <3>3
  <2> QED
    BY <2>3, <2>4
<1>15. CASE SendBoundary
  <2>1. /\ cur \in Executions /\ pc = "info" /\ mode = "recover"
        /\ UNCHANGED <<storeVars, kout, shell, iopub, tr, sent>>
    BY <1>15, <1>c, <1>n DEF SendBoundary, SendReturns, SendRaises, ScheduleInv, InPlace, RowInHand,
       wireVars
  <2>2. /\ kq' \in {kq, Append(kq, InfoRequest(boundary + 1))}
        /\ \/ tr # "none" /\ pc' = "loop" /\ UNCHANGED <<mode, cur, proof, msg>>
           \/ pc' = "drop" /\ UNCHANGED <<mode, cur, proof>>
    BY <1>15, <1>n DEF SendBoundary, SendReturns, SendRaises
  <2>3. UNCHANGED <<state, ev>>
    BY <2>1 DEF storeVars
  <2>4. /\ \A i \in DOMAIN kq' : kq'[i].exec # None => i \in DOMAIN kq /\ kq'[i] = kq[i]
    <3> DEFINE r == InfoRequest(boundary + 1)
    <3>1. r \in Requests /\ r.exec = None
      BY DEF InfoRequest, Requests, TypeOK, WorkerTypeOK
    <3> HIDE DEF r
    <3>2. /\ Len(kq) \in Nat /\ DOMAIN kq = 1..Len(kq)
          /\ DOMAIN Append(kq, r) = 1..(Len(kq) + 1)
          /\ \A i \in 1..Len(kq) : Append(kq, r)[i] = kq[i]
          /\ Append(kq, r)[Len(kq) + 1] = r
      BY <3>1, AppendProperties, LenProperties DEF TypeOK, LinkTypeOK
    <3>3. kq' \in {kq, Append(kq, r)}
      BY <2>2 DEF r
    <3> QED
      BY <3>1, <3>2, <3>3
  <2>5. \A e \in Executions : InKernel(e)' => InKernel(e)
    BY <2>4, NoneAssumption DEF InKernel
  <2>6. Channels'
    BY <2>1, <2>4, <2>5 DEF CompleteInv, Channels
  <2>7. \A e \in Executions : Quiet(e) => Quiet(e)'
    BY <2>1, <2>3, <2>5 DEF Quiet
  <2>8. Unsent' /\ RowsQuiet'
    BY <2>1, <2>3, <2>7 DEF CompleteInv, Unsent, RowsQuiet
  <2>9. MarkedByLoop'
    BY <1>l, <2>1, <2>3, LoopMindStays
  <2>10. InMind'
    <3>1. CASE pc' = "drop" /\ UNCHANGED <<mode, cur, proof>>
      BY <1>a, <1>p, <2>1, <2>3, <3>1
    <3>2. CASE tr # "none" /\ pc' = "loop" /\ UNCHANGED <<mode, cur, proof, msg>>
      BY <2>1, <2>3, <3>2 DEF CompleteInv, InMind, NothingSlips, Marked, Watch
    <3> QED
      BY <2>2, <3>1, <3>2
  <2> QED
    BY <1>q, <2>6, <2>8, <2>9, <2>10 DEF Around
<1>16. CASE HandleStep
  <2>1. cur \in Executions /\ pc = "handle" /\ UNCHANGED <<storeVars, linkVars, sent>>
    BY <1>16, <1>c DEF HandleStep
  <2>2. Around' /\ UNCHANGED <<state, ev>>
    BY <1>n, <1>s, <2>1
  <2>3. \/ state[cur] = "queued" /\ Finalizing("interrupted")
        \/ Finalizing("unknown")
        \/ Go("drop")
        \/ pc' = "mark" /\ UNCHANGED <<mode, cur, proof>>
        \/ Released("idle")
    BY <1>16 DEF HandleStep
  <2>4. \A x \in Executions : Quiet(x) => Quiet(x)'
    BY <1>n, <1>s, <2>1
  <2>5. InMind'
    BY <1>a, <1>f, <1>p, <2>1, <2>2, <2>3, <2>4
  <2> QED
    BY <1>q, <2>2, <2>5
<1>17. CASE MarkStep
  <2>1. cur \in Executions /\ pc = "mark" /\ UNCHANGED <<linkVars, sent>>
    BY <1>17, <1>c DEF MarkStep
  <2>2. RowStays(cur) /\ ~ev'[cur].complete /\ state' = state
    BY <1>17, <1>t, <2>1 DEF MarkStep, MarkOutputIncomplete, RowStays, Evidence
  <2>3. WiresKept
    BY <1>n, <2>1 DEF WiresKept
  <2>4. Go("disconnect") \/ Finalizing("unknown") \/ Go("drop")
    BY <1>17 DEF MarkStep
  <2>5. CASE Go("disconnect")
    <3>1. Around'
      BY <1>r, <2>1, <2>2, <2>3
    <3>2. pc' = "disconnect" /\ UNCHANGED <<mode, cur, proof>>
      BY <2>5 DEF Go
    <3>3. InMind'
      BY <1>d, <2>1, <2>2, <3>2 DEF CompleteInv, InMind, NothingSlips, Marked, Watch
    <3> QED
      BY <1>q, <3>1, <3>3
  <2> QED
    BY <1>b, <1>p, <2>1, <2>2, <2>3, <2>4, <2>5
<1>18. CASE DisconnectStep
  <2>1. cur \in Executions /\ pc = "disconnect" /\ UNCHANGED <<linkVars, sent>>
    BY <1>18, <1>c DEF DisconnectStep
  <2>2. CASE UNCHANGED storeVars /\ Raise
    <3>1. Around' /\ UNCHANGED <<state, ev>>
      BY <1>n, <1>s, <2>1, <2>2
    <3> QED
      BY <1>a, <1>q, <2>1, <2>2, <3>1
  <2>3. CASE TransitionExecution(cur, "disconnected") /\ (Go("drop") \/ Go("reread"))
    <3>1. ~ev[cur].complete
      BY <2>1 DEF CompleteInv, Marked
    <3>2. RowStays(cur)
      BY <1>t, <2>1, <2>3, <3>1 DEF TransitionExecution, RowStays, TerminalStates
    <3> QED
      BY <1>b, <1>n, <1>p, <2>1, <2>3, <3>2 DEF WiresKept
  <2> QED
    BY <1>18, <2>2, <2>3 DEF DisconnectStep
<1>19. CASE RereadStep
  <2>1. /\ cur \in Executions /\ pc = "reread" /\ UNCHANGED <<storeVars, linkVars, sent>>
        /\ Finalizing("unknown") \/ Go("drop")
    BY <1>19, <1>c DEF RereadStep
  <2>2. Around' /\ UNCHANGED <<state, ev>>
    BY <1>n, <1>s, <2>1
  <2> QED
    BY <1>a, <1>p, <1>q, <2>1, <2>2
<1>20. CASE FinalizeStep
  <2>1. cur \in Executions /\ pc = "finalize" /\ UNCHANGED <<linkVars, sent>>
    BY <1>20, <1>c DEF FinalizeStep
  <2>2. CASE UNCHANGED storeVars /\ Raise
    <3>1. Around' /\ UNCHANGED <<state, ev>>
      BY <1>n, <1>s, <2>1, <2>2
    <3> QED
      BY <1>a, <1>q, <2>1, <2>2, <3>1
  <2>3. CASE FinalizeOutput(cur) /\ Go("commit")
    <3>1. RowStays(cur) /\ state' = state
      BY <1>t, <2>1, <2>3 DEF FinalizeOutput, RowStays, Evidence
    <3>2. /\ Around' /\ (\A x \in Executions : Quiet(x) => Quiet(x)')
          /\ (ev'[cur].complete => ev[cur].complete)
      BY <1>n, <1>r, <2>1, <3>1 DEF WiresKept
    <3>3. pc' = "commit" /\ UNCHANGED <<mode, cur, proof, target>>
      BY <2>3 DEF Go
    <3>4. InMind'
      BY <1>d, <2>1, <3>1, <3>2, <3>3 DEF CompleteInv, InMind, NothingSlips, Marked, Watch
    <3> QED
      BY <1>q, <3>2, <3>4
  <2> QED
    BY <1>20, <2>2, <2>3 DEF FinalizeStep
<1>21. CASE CommitStep
  <2>1. cur \in Executions /\ pc = "commit" /\ UNCHANGED <<linkVars, sent>>
    BY <1>21, <1>c DEF CommitStep
  <2>2. CASE UNCHANGED storeVars /\ Raise
    <3>1. Around' /\ UNCHANGED <<state, ev>>
      BY <1>n, <1>s, <2>1, <2>2
    <3> QED
      BY <1>a, <1>q, <2>1, <2>2, <3>1
  <2>3. CASE /\ CanTransition(cur, target) /\ TransitionExecution(cur, target)
             /\ Released("idle") \/ Go("drop")
    <3>1. target \in TerminalStates
      BY <2>1 DEF ScheduleInv, InPlace, Failing
    <3>2. target # "unknown" /\ ev[cur].complete => Quiet(cur)
      BY <2>1 DEF CompleteInv, Marked
    <3>3. RowStays(cur)
      BY <1>t, <2>1, <2>3, <3>1, <3>2
         DEF TransitionExecution, CanTransition, RowStays, TerminalStates
    <3> QED
      BY <1>b, <1>n, <1>p, <2>1, <2>3, <3>3 DEF WiresKept
  <2> QED
    BY <1>21, <2>2, <2>3 DEF CommitStep
<1>22. CASE DropStep
  <2>1. /\ cur \in Executions /\ pc = "drop" /\ UNCHANGED <<storeVars, kq, kout, sent>>
        /\ shell' \in {shell, <<>>} /\ iopub' \in {iopub, <<>>}
        /\ Go("recheck") \/ Go("recover") \/ Released("idle")
    BY <1>22, <1>c DEF DropStep, CloseTransport, kernelVars
  <2>2. Around' /\ UNCHANGED <<state, ev>>
    BY <1>l, <2>1, AroundStays DEF storeVars
  <2> QED
    BY <1>a, <1>p, <1>q, <2>1, <2>2
<1>23. CASE RecheckStep
  <2>1. /\ cur \in Executions /\ pc = "recheck" /\ UNCHANGED <<storeVars, linkVars, sent>>
        /\ Go("recover") \/ Released("idle")
    BY <1>23, <1>c DEF RecheckStep
  <2>2. Around' /\ UNCHANGED <<state, ev>>
    BY <1>n, <1>s, <2>1
  <2> QED
    BY <1>a, <1>p, <1>q, <2>1, <2>2
<1> QED
  BY <1>1, <1>2, <1>3, <1>4, <1>5, <1>6, <1>7, <1>8, <1>9, <1>10, <1>11, <1>12, <1>13, <1>14,
     <1>15, <1>16, <1>17, <1>18, <1>19, <1>20, <1>21, <1>22, <1>23 DEF WorkerStep, Worker


\* What the kernel does shows on the channels, or is lost with the wire.
LEMMA KernelSteps ==
  ASSUME TypeOK, CompleteInv, KernelStep
  PROVE  /\ UNCHANGED <<storeVars, workerVars, sent, loopVars, tr>>
         /\ kq # <<>> /\ kq' \in {kq, Tail(kq)}
         /\ \A i \in DOMAIN shell' : shell'[i].kind \notin {"output", "idle"}
         /\ \E k \in {"busy", "output", "idle"} :
              /\ iopub' \in {iopub, Append(iopub, [parent |-> Current, kind |-> k])}
              /\ tr = "down" => iopub' = iopub
              /\ \/ kout' = kout /\ (k = "output" => iopub' = iopub)
                 \/ /\ k = "output" /\ Executing
                    /\ kout' = [kout EXCEPT ![Current.exec] = @ + 1]
                    /\ tr = "up" => iopub' = Append(iopub, [parent |-> Current, kind |-> k])
              /\ k = "idle" => kq' = Tail(kq)
<1> DEFINE M(k) == [parent |-> Current, kind |-> k]
<1>1. UNCHANGED <<storeVars, workerVars, sent, loopVars, tr>>
  BY DEF KernelStep, Kernel, KernelBusy, KernelOutput, KernelReply, KernelIdle
<1>2. \A q, m : /\ Publish(q, m) \subseteq {q, Append(q, m)}
                /\ tr = "up" => Publish(q, m) = {Append(q, m)}
                /\ tr = "down" => Publish(q, m) = {q}
  BY DEF Publish
<1>3. \A i \in DOMAIN shell : shell[i].kind \notin {"output", "idle"}
  BY DEF CompleteInv, Channels
<1>4. CASE KernelBusy
  <2>1. /\ kq # <<>> /\ kq' = kq /\ shell' = shell /\ kout' = kout
        /\ iopub' = iopub \/ iopub' \in Publish(iopub, M("busy"))
    BY <1>4 DEF KernelBusy
  <2> QED
    BY <1>1, <1>2, <1>3, <2>1
<1>5. CASE KernelOutput
  <2>1. /\ kq # <<>> /\ kq' = kq /\ shell' = shell /\ Executing
        /\ kout' = [kout EXCEPT ![Current.exec] = @ + 1]
        /\ iopub' \in Publish(iopub, M("output"))
    BY <1>5 DEF KernelOutput, Executing
  <2> QED
    BY <1>1, <1>2, <1>3, <2>1
<1>6. CASE KernelReply
  <2>1. PICK r \in (IF Executing THEN Replies ELSE {"info"}) : shell' \in Publish(shell, M(r))
    BY <1>6 DEF KernelReply
  <2>2. kq # <<>> /\ UNCHANGED <<kq, kout, iopub>>
    BY <1>6 DEF KernelReply
  <2>3. Current \in Requests /\ r \in Kinds /\ r \notin {"output", "idle"}
    BY <2>2, CurrentType, LinkAssumption DEF TypeOK, Kinds, ReplyKinds, ValidReplies
  <2>4. shell \in Seq(Messages) /\ M(r) \in Messages /\ M(r).kind = r
    BY <2>3 DEF TypeOK, LinkTypeOK, Messages
  <2>5. shell' \in {shell, Append(shell, M(r))}
    BY <1>2, <2>1
  <2> HIDE DEF M
  <2>6. /\ DOMAIN Append(shell, M(r)) = 1..(Len(shell) + 1) /\ DOMAIN shell = 1..Len(shell)
        /\ Len(shell) \in Nat
        /\ \A i \in 1..Len(shell) : Append(shell, M(r))[i] = shell[i]
        /\ Append(shell, M(r))[Len(shell) + 1] = M(r)
    BY <2>4, AppendProperties, LenProperties
  <2>7. \A i \in DOMAIN shell' : shell'[i].kind \notin {"output", "idle"}
    BY <1>3, <2>3, <2>4, <2>5, <2>6
  <2> QED
    BY <1>1, <2>2, <2>7
<1>7. CASE KernelIdle
  <2>1. /\ kq # <<>> /\ kq' = Tail(kq) /\ shell' = shell /\ kout' = kout
        /\ iopub' \in Publish(iopub, M("idle"))
    BY <1>7 DEF KernelIdle
  <2> QED
    BY <1>1, <1>2, <1>3, <2>1
<1> QED
  BY <1>4, <1>5, <1>6, <1>7 DEF KernelStep, Kernel

\* A step of the kernel keeps all parts together.
LEMMA KernelKeepsComplete ==
  ASSUME TypeOK, PromiseInv, ScheduleInv, CompleteInv, KernelStep
  PROVE  CompleteInv'
<1>0. /\ UNCHANGED <<storeVars, workerVars, sent, loopVars, tr>>
      /\ kq # <<>> /\ kq' \in {kq, Tail(kq)}
      /\ \A i \in DOMAIN shell' : shell'[i].kind \notin {"output", "idle"}
  BY KernelSteps
<1>1. PICK k \in {"busy", "output", "idle"} :
        /\ iopub' \in {iopub, Append(iopub, [parent |-> Current, kind |-> k])}
        /\ tr = "down" => iopub' = iopub
        /\ \/ kout' = kout /\ (k = "output" => iopub' = iopub)
           \/ /\ k = "output" /\ Executing
              /\ kout' = [kout EXCEPT ![Current.exec] = @ + 1]
              /\ tr = "up" => iopub' = Append(iopub, [parent |-> Current, kind |-> k])
        /\ k = "idle" => kq' = Tail(kq)
  BY KernelSteps
<1> DEFINE m == [parent |-> Current, kind |-> k]
           x == Current.exec
<1>c. /\ UNCHANGED <<state, ev, pc, mode, cur, target, proof, msg, lpc, step, goal, work>>
      /\ cur \in Executions \cup {None}
      /\ (pc \notin {"idle", "exited", "dead"} => cur \in Executions)
      /\ step # "pick" => work \in Executions
  BY <1>0 DEF storeVars, workerVars, loopVars, TypeOK, WorkerTypeOK, MemoryTypeOK, LoopTypeOK
<1>2. /\ Current \in Requests /\ m \in Messages /\ m.parent = Current /\ m.kind = k
      /\ kq \in Seq(Requests) /\ iopub \in Seq(Messages) /\ kout \in [Executions -> Nat]
      /\ tr \in {"none", "up", "down"}
  BY <1>0, CurrentType DEF TypeOK, LinkTypeOK, Messages, Kinds
<1>3. /\ Len(kq) \in Nat /\ Len(kq) > 0 /\ DOMAIN kq = 1..Len(kq) /\ Current = kq[1]
      /\ DOMAIN Tail(kq) = 1..(Len(kq) - 1)
      /\ \A i \in 1..(Len(kq) - 1) : Tail(kq)[i] = kq[i + 1]
  BY <1>0, <1>2, HeadTailProperties, LenProperties, EmptySeq DEF Current
<1>4. /\ x \in Executions \cup {None}
      /\ (x # None => Current = ExecRequest(x) /\ InKernel(x) /\ sent[x] = 1)
  <2>1. x # None => Current.info = 0 /\ InKernel(x) /\ sent[x] = 1
    BY <1>3 DEF CompleteInv, Channels, InKernel, PromiseInv, KernelTold
  <2> QED
    BY <1>2, <2>1 DEF Requests, ExecRequest
<1> HIDE DEF m, x
<1>5. \A e \in Executions : Current = ExecRequest(e) => e = x
  BY DEF ExecRequest, x
<1>6. \A e \in Executions : ~InKernel(e) => ~InKernel(e)' /\ e # x
  BY <1>0, <1>3, <1>4, NoneAssumption DEF InKernel
<1>7. k = "idle" => \A e \in Executions : e = x => ~InKernel(e)'
  <2> SUFFICES ASSUME k = "idle", x \in Executions, NEW i \in DOMAIN kq', kq'[i].exec = x
               PROVE  FALSE
    BY <1>4 DEF InKernel
  <2>1. kq[i + 1].exec = kq[1].exec /\ i + 1 \in DOMAIN kq /\ i + 1 # 1 /\ 1 \in DOMAIN kq
    BY <1>1, <1>3 DEF x
  <2> QED
    BY <1>1, <1>3, <2>1, NoneAssumption DEF CompleteInv, Channels, x
<1>8. /\ Len(iopub) \in Nat /\ DOMAIN iopub = 1..Len(iopub)
      /\ DOMAIN Append(iopub, m) = 1..(Len(iopub) + 1)
      /\ \A i \in 1..Len(iopub) : Append(iopub, m)[i] = iopub[i]
      /\ Append(iopub, m)[Len(iopub) + 1] = m
  BY <1>2, AppendProperties, LenProperties
<1>9. iopub' \in {iopub, Append(iopub, m)}
  BY <1>1 DEF m
<1>10. \A e \in Executions :
         /\ (Prints(m, e) => e = x /\ k = "output")
         /\ (Ends(m, e) => e = x /\ k = "idle")
  BY <1>2, <1>5 DEF Prints, Ends
<1>11. \A e \in Executions : e # x => kout'[e] = kout[e]
  BY <1>1, <1>2 DEF x
<1>12. Channels'
  <2>1. /\ \A i \in DOMAIN kq' : kq'[i].exec # None => kq'[i].info = 0
        /\ \A i, j \in DOMAIN kq' : kq'[i].exec = kq'[j].exec /\ kq'[i].exec # None => i = j
    <3>1. CASE kq' = kq
      BY <3>1 DEF CompleteInv, Channels
    <3>2. CASE kq' = Tail(kq)
      <4>1. \A i \in DOMAIN kq' : i \in Nat /\ i + 1 \in DOMAIN kq /\ kq'[i] = kq[i + 1]
        BY <1>3, <3>2
      <4>2. \A i, j \in DOMAIN kq' :
              kq'[i].exec = kq'[j].exec /\ kq'[i].exec # None => i + 1 = j + 1
        BY <4>1 DEF CompleteInv, Channels
      <4> QED
        BY <4>1, <4>2 DEF CompleteInv, Channels
    <3> QED
      BY <1>0, <3>1, <3>2
  <2>2. ASSUME NEW e \in Executions, NEW i \in DOMAIN iopub', Ends(iopub'[i], e)
        PROVE  /\ ~InKernel(e)'
               /\ \A j \in DOMAIN iopub' : j > i => ~Prints(iopub'[j], e)
    <3>1. CASE i \in DOMAIN iopub
      <4>1. Ends(iopub[i], e)
        BY <1>8, <1>9, <2>2, <3>1
      <4>2. ~InKernel(e) /\ \A j \in DOMAIN iopub : j > i => ~Prints(iopub[j], e)
        BY <3>1, <4>1 DEF CompleteInv, Channels
      <4>3. ~Prints(m, e)
        BY <1>6, <1>10, <4>2
      <4> QED
        BY <1>6, <1>8, <1>9, <4>2, <4>3
    <3>2. CASE i \notin DOMAIN iopub
      <4>1. iopub' = Append(iopub, m) /\ i = Len(iopub) + 1 /\ Ends(m, e)
        BY <1>8, <1>9, <2>2, <3>2
      <4>2. e = x /\ k = "idle"
        BY <1>10, <4>1
      <4>3. \A j \in DOMAIN iopub' : ~(j > i)
        BY <1>8, <4>1
      <4> QED
        BY <1>7, <4>2, <4>3
    <3> QED
      BY <3>1, <3>2
  <2> QED
    BY <1>0, <2>1, <2>2 DEF Channels
<1>13. Unsent'
  <2>1. \A e \in Executions : sent[e] = 0 => e # x
    BY <1>4, NoneAssumption
  <2>2. \A e \in Executions :
          sent[e] = 0 => \A i \in DOMAIN iopub' : iopub'[i].parent # ExecRequest(e)
    <3> SUFFICES ASSUME NEW e \in Executions, sent[e] = 0, NEW i \in DOMAIN iopub'
                 PROVE  iopub'[i].parent # ExecRequest(e)
      OBVIOUS
    <3>1. \A j \in DOMAIN iopub : iopub[j].parent # ExecRequest(e)
      BY DEF CompleteInv, Unsent
    <3>2. m.parent # ExecRequest(e)
      BY <1>2, <1>5, <2>1
    <3> QED
      BY <1>8, <1>9, <3>1, <3>2
  <2> QED
    BY <1>0, <1>11, <1>c, <2>1, <2>2 DEF CompleteInv, Unsent
<1>14. \A e \in Executions : Quiet(e) => Quiet(e)'
  BY <1>6, <1>11, <1>c DEF Quiet
<1>15. RowsQuiet' /\ MarkedByLoop'
  BY <1>14, <1>c DEF CompleteInv, RowsQuiet, MarkedByLoop
<1>16. Marked'
  BY <1>0, <1>14, <1>c DEF CompleteInv, Marked
<1>17. NothingSlips'
  <2> SUFFICES ASSUME mode = "run", pc \in Watch, ev[cur].complete, cur \in Executions
               PROVE  /\ ev[cur].idle => proof.idle
                      /\ proof.idle =>
                           /\ ~InKernel(cur)'
                           /\ \A i \in DOMAIN iopub' : ~Prints(iopub'[i], cur)
                      /\ tr = "up" \/ proof.idle \/ EndIn(iopub', cur) =>
                           kout'[cur] = ev[cur].out + Waiting(iopub', cur) + InHand
    BY <1>0, <1>c DEF NothingSlips, Watch, InHand
  <2>1. /\ ev[cur].idle => proof.idle
        /\ proof.idle => ~InKernel(cur) /\ \A i \in DOMAIN iopub : ~Prints(iopub[i], cur)
        /\ tr = "up" \/ proof.idle \/ EndIn(iopub, cur) =>
             kout[cur] = ev[cur].out + Waiting(iopub, cur) + InHand
        /\ tr # "none"
    BY DEF CompleteInv, NothingSlips, Marked
  <2>2. proof.idle => ~Prints(m, cur) /\ ~InKernel(cur)'
    BY <1>6, <1>10, <1>c, <2>1
  <2>3. proof.idle => \A i \in DOMAIN iopub' : ~Prints(iopub'[i], cur)
    BY <1>8, <1>9, <2>1, <2>2
  <2>4. EndIn(iopub, cur) => ~InKernel(cur)
    BY DEF EndIn, CompleteInv, Channels
  <2>5. /\ Waiting(Append(iopub, m), cur)
             = Waiting(iopub, cur) + (IF Prints(m, cur) THEN 1 ELSE 0)
        /\ Waiting(iopub, cur) \in Nat /\ ev[cur].out \in Nat /\ InHand \in {0, 1}
        /\ kout[cur] \in Nat
    BY <1>2, WaitingAppend, WaitingType DEF InHand, TypeOK, StoreTypeOK, Evidence
  <2>6. CASE tr = "up"
    <3>1. kout[cur] = ev[cur].out + Waiting(iopub, cur) + InHand
      BY <2>1, <2>6
    <3>2. CASE kout'[cur] = kout[cur]
      <4>1. iopub' = iopub \/ ~Prints(m, cur)
        <5>1. CASE k = "output" => iopub' = iopub
          BY <1>10, <5>1
        <5>2. CASE ~(k = "output" => iopub' = iopub)
          <6>1. kout' = [kout EXCEPT ![x] = @ + 1] /\ x # None
            BY <1>1, <5>2 DEF Executing, x
          <6>2. x # cur
            BY <1>2, <2>5, <3>2, <6>1
          <6> QED
            BY <1>10, <6>2
        <5> QED
          BY <5>1, <5>2
      <4>2. Waiting(iopub', cur) = Waiting(iopub, cur)
        <5>1. CASE iopub' = iopub
          BY <5>1
        <5>2. CASE ~Prints(m, cur) /\ iopub' = Append(iopub, m)
          BY <2>5, <5>2
        <5> QED
          BY <1>9, <4>1, <5>1, <5>2
      <4> QED
        BY <2>1, <2>2, <2>3, <3>1, <3>2, <4>2
    <3>3. CASE kout'[cur] # kout[cur]
      <4>1. /\ k = "output" /\ x # None /\ kout' = [kout EXCEPT ![x] = @ + 1]
            /\ iopub' = Append(iopub, m)
        BY <1>1, <2>6, <3>3 DEF Executing, x, m
      <4>2. x = cur
        BY <1>11, <3>3
      <4>3. Prints(m, cur) /\ kout'[cur] = kout[cur] + 1
        BY <1>2, <1>4, <4>1, <4>2 DEF Prints
      <4>4. Waiting(iopub', cur) = Waiting(iopub, cur) + 1
        BY <2>5, <4>1, <4>3
      <4>5. kout'[cur] = ev[cur].out + Waiting(iopub', cur) + InHand
        BY <2>5, <3>1, <4>3, <4>4
      <4> QED
        BY <2>1, <2>2, <2>3, <4>5
    <3> QED
      BY <3>2, <3>3
  <2>7. CASE tr = "down"
    <3>1. iopub' = iopub
      BY <1>1, <2>7
    <3>2. proof.idle \/ EndIn(iopub, cur) => kout'[cur] = kout[cur]
      BY <1>6, <1>11, <2>1, <2>4
    <3> QED
      BY <2>1, <2>2, <2>3, <2>7, <3>1, <3>2
  <2> QED
    BY <1>2, <2>1, <2>6, <2>7
<1> QED
  BY <1>12, <1>13, <1>15, <1>16, <1>17 DEF CompleteInv


\* What the worker has in mind while only others are at work.
LEMMA MindStays ==
  ASSUME TypeOK, CompleteInv, UNCHANGED <<workerVars, state, ev, kout>>,
         kq' \in {kq, <<>>}, tr = "none" \/ (tr' # "none" /\ iopub' = iopub),
         tr' = "up" => tr = "up"
  PROVE  InMind'
<1>1. UNCHANGED <<pc, mode, cur, target, proof, msg>>
  BY DEF workerVars
<1>2. \A x : ~InKernel(x) => ~InKernel(x)'
  BY DEF InKernel
<1>3. \A x : Quiet(x) => Quiet(x)'
  BY <1>2 DEF Quiet
<1>4. Marked'
  BY <1>1, <1>3 DEF CompleteInv, Marked
<1>5. pc \in Watch => tr # "none"
  BY DEF CompleteInv, Marked
<1>6. NothingSlips'
  BY <1>1, <1>2, <1>5 DEF CompleteInv, NothingSlips, InHand
<1> QED
  BY <1>4, <1>6 DEF InMind

\* A failure of the wire, the kernel or the session loses, but adds nothing.
LEMMA LinkKeepsComplete ==
  ASSUME TypeOK, CompleteInv, LinkStep
  PROVE  CompleteInv'
<1>1. /\ UNCHANGED <<storeVars, workerVars, sent, loopVars, kout>>
      /\ kq' \in {kq, <<>>} /\ shell' \in {shell, <<>>} /\ iopub' \in {iopub, <<>>}
      /\ tr' = "up" => tr = "up"
      /\ tr = "none" \/ (tr' # "none" /\ iopub' = iopub)
  BY DEF LinkStep, LinkFault, WireDrop, KernelRestart, KernelReplace, SessionRemove,
         SessionEnsure, KernelGone, kernelVars, wireVars
<1>2. UNCHANGED <<state, ev>>
  BY <1>1 DEF storeVars
<1>3. Around' /\ InMind'
  BY <1>1, <1>2, AroundStays, MindStays
<1> QED
  BY <1>3 DEF CompleteInv, Around, InMind

\* The end of the process: the rows stay, and memory is as good as new.
LEMMA EndKeepsComplete ==
  ASSUME TypeOK, CompleteInv, ProcessEnds, UNCHANGED <<state, ev>>
  PROVE  CompleteInv'
<1>1. /\ UNCHANGED <<kq, kout, sent>> /\ step' = "pick"
      /\ shell' \in {shell, <<>>} /\ iopub' \in {iopub, <<>>} /\ Released("idle")
  BY DEF ProcessEnds, LoopIdle, CloseTransport, kernelVars
<1>2. Channels' /\ Unsent' /\ RowsQuiet'
  BY <1>1, AroundStays
<1>3. MarkedByLoop'
  BY <1>1 DEF MarkedByLoop
<1>4. InMind'
  BY <1>1, ReleasedMind
<1> QED
  BY <1>2, <1>3, <1>4 DEF CompleteInv, InMind

\* A step of reconcile_after_restart or force_uncertain_active.
LEMMA RoutineKeepsComplete ==
  ASSUME TypeOK, ScheduleInv, CompleteInv, Visits
  PROVE  CompleteInv'
<1>t. StoreTypeOK /\ LoopTypeOK /\ state \in [Executions -> ExecStates]
      /\ ev \in [Executions -> Evidence]
  BY DEF TypeOK, StoreTypeOK
<1>a. UNCHANGED <<workerVars, kq, kout, shell, iopub, tr, sent>>
  BY DEF Visits, ReconcileRow, ForceRow, RoutineMark, RoutineRead, RoutineDisconnect,
         RoutineFinalize, RoutineCommit, RoutineRaises, LoopOnly, linkVars, kernelVars,
         wireVars
<1>w. step # "pick" => work \in Executions
  BY <1>t DEF LoopTypeOK
<1>s. ASSUME UNCHANGED <<state, ev>>, MarkedByLoop' PROVE CompleteInv'
  <2>1. InMind' /\ Channels' /\ Unsent' /\ RowsQuiet'
    BY <1>a, <1>s, AroundStays, MindStays
  <2> QED
    BY <1>s, <2>1 DEF CompleteInv, InMind
<1>r. ASSUME step # "pick", RowStays(work), ev'[work].idle => ev[work].idle,
             (\A x \in Executions : Quiet(x) => Quiet(x)') => MarkedByLoop'
      PROVE  CompleteInv'
  <2>1. WiresKept
    BY <1>a DEF WiresKept
  <2>2. NothingSlips' /\ Marked'
    BY <1>a, <1>r, <1>w, <2>1, MemoryStays
  <2>3. Channels' /\ Unsent' /\ RowsQuiet' /\ \A x \in Executions : Quiet(x) => Quiet(x)'
    BY <1>r, <1>w, <2>1, RowStaysComplete
  <2> QED
    BY <1>r, <2>2, <2>3 DEF CompleteInv
<1>d. ASSUME step' = "pick" PROVE MarkedByLoop'
  BY <1>d DEF MarkedByLoop
<1>1. ASSUME NEW e \in Executions, ReconcileRow(e) PROVE CompleteInv'
  <2>1. UNCHANGED <<state, ev>> /\ work' = e /\ lpc' = "reconcile"
    BY <1>1 DEF ReconcileRow, storeVars
  <2>2. \A x : Quiet(x) => Quiet(x)'
    BY <1>a, <2>1 DEF Quiet, InKernel
  <2>3. step' \in {"finalize", "mark"} /\ (goal' = "unknown" \/ ev[e].idle)
    BY <1>1 DEF ReconcileRow, TerminalFromEvidence, TerminalState
  <2>4. MarkedByLoop'
    BY <2>1, <2>2, <2>3 DEF CompleteInv, RowsQuiet, MarkedByLoop
  <2> QED
    BY <1>s, <2>1, <2>4
<1>2. ASSUME NEW e \in Executions, ForceRow(e) PROVE CompleteInv'
  <2>1. UNCHANGED <<state, ev>> /\ step' = "mark" /\ goal' = "unknown"
    BY <1>2 DEF ForceRow, storeVars
  <2>2. MarkedByLoop'
    BY <2>1 DEF MarkedByLoop
  <2> QED
    BY <1>s, <2>1, <2>2
<1>3. CASE RoutineMark
  <2>1. step = "mark" /\ step' = "read" /\ UNCHANGED <<lpc, work, goal>>
    BY <1>3 DEF RoutineMark, Routine
  <2>2. RowStays(work) /\ ~ev'[work].complete /\ (ev'[work].idle => ev[work].idle)
    BY <1>3, <1>t, <1>w, <2>1 DEF RoutineMark, MarkOutputIncomplete, RowStays, Evidence
  <2>3. MarkedByLoop'
    BY <2>1, <2>2 DEF CompleteInv, MarkedByLoop
  <2> QED
    BY <1>r, <2>1, <2>2, <2>3
<1>4. CASE RoutineRead
  <2>1. step = "read" /\ UNCHANGED <<state, ev, lpc>>
    BY <1>4 DEF RoutineRead, Routine, RowDone, storeVars
  <2>2. \/ step' \in {"disconnect", "finalize"} /\ UNCHANGED <<work, goal>>
        \/ step' = "pick"
    BY <1>4 DEF RoutineRead, Routine, RowDone
  <2>3. MarkedByLoop'
    BY <1>d, <2>1, <2>2 DEF CompleteInv, MarkedByLoop
  <2> QED
    BY <1>s, <2>1, <2>3
<1>5. CASE RoutineDisconnect
  <2>1. CASE TransitionExecution(work, "disconnected") /\ Routine("read")
    <3>1. step = "disconnect" /\ step' = "read" /\ UNCHANGED <<lpc, work, goal>> /\ ev' = ev
      BY <1>5, <2>1 DEF RoutineDisconnect, Routine, TransitionExecution
    <3>2. ~ev[work].complete
      BY <3>1 DEF CompleteInv, MarkedByLoop
    <3>3. RowStays(work)
      BY <1>t, <1>w, <2>1, <3>1, <3>2 DEF TransitionExecution, RowStays, TerminalStates
    <3>4. MarkedByLoop'
      BY <3>1, <3>2 DEF CompleteInv, MarkedByLoop
    <3> QED
      BY <1>r, <3>1, <3>3, <3>4
  <2>2. CASE UNCHANGED storeVars /\ StopRaises
    BY <1>d, <1>s, <2>2 DEF StopRaises, LoopIdle, storeVars
  <2> QED
    BY <1>5, <2>1, <2>2 DEF RoutineDisconnect
<1>6. CASE RoutineFinalize
  <2>1. step = "finalize" /\ step' = "commit" /\ UNCHANGED <<lpc, work, goal>>
    BY <1>6 DEF RoutineFinalize, Routine
  <2>2. RowStays(work) /\ ev'[work].idle = ev[work].idle
    BY <1>6, <1>t, <1>w, <2>1 DEF RoutineFinalize, FinalizeOutput, RowStays, Evidence
  <2>3. (\A x \in Executions : Quiet(x) => Quiet(x)') => MarkedByLoop'
    BY <1>w, <2>1, <2>2 DEF CompleteInv, MarkedByLoop, RowStays
  <2> QED
    BY <1>r, <2>1, <2>2, <2>3
<1>7. CASE RoutineCommit
  <2>1. CASE CanTransition(work, goal) /\ TransitionExecution(work, goal) /\ RowDone
    <3>1. step = "commit" /\ step' = "pick" /\ ev' = ev
      BY <1>7, <2>1 DEF RoutineCommit, RowDone, TransitionExecution
    <3>2. goal \in TerminalStates
      BY <1>t, <2>1, <3>1, <1>w DEF LoopTypeOK, CanTransition, AllowedTransitions, ExecStates,
         TerminalStates, ActiveStates
    <3>3. goal # "unknown" /\ ev[work].complete => Quiet(work)
      BY <3>1 DEF CompleteInv, MarkedByLoop
    <3>4. RowStays(work)
      BY <1>t, <1>w, <2>1, <3>1, <3>2, <3>3
         DEF TransitionExecution, CanTransition, RowStays, TerminalStates
    <3> QED
      BY <1>d, <1>r, <3>1, <3>4
  <2>2. CASE UNCHANGED storeVars /\ StopRaises
    BY <1>d, <1>s, <2>2 DEF StopRaises, LoopIdle, storeVars
  <2> QED
    BY <1>7, <2>1, <2>2 DEF RoutineCommit
<1>8. CASE RoutineRaises /\ lpc = "force"
  BY <1>8, <1>d, <1>s DEF RoutineRaises, StopRaises, LoopIdle, storeVars
<1> QED
  BY <1>1, <1>2, <1>3, <1>4, <1>5, <1>6, <1>7, <1>8 DEF Visits

\* A request, a stop, a crash or a restart.
LEMMA LoopKeepsComplete ==
  ASSUME TypeOK, PromiseInv, ScheduleInv, CompleteInv, LoopStep
  PROVE  CompleteInv'
<1>t. /\ StoreTypeOK /\ LoopTypeOK /\ state \in [Executions -> ExecStates]
      /\ ev \in [Executions -> Evidence]
  BY DEF TypeOK, StoreTypeOK
<1>s. ASSUME UNCHANGED <<state, ev, workerVars, kq, kout, shell, iopub, tr, sent>>, step' = "pick"
      PROVE  CompleteInv'
  <2>1. InMind' /\ Channels' /\ Unsent' /\ RowsQuiet'
    BY <1>s, AroundStays, MindStays
  <2>2. MarkedByLoop'
    BY <1>s DEF MarkedByLoop
  <2> QED
    BY <2>1, <2>2 DEF CompleteInv, InMind
<1>n. UNCHANGED linkVars => UNCHANGED <<kq, kout, shell, iopub, tr>>
  BY DEF linkVars, kernelVars, wireVars
<1>p. lpc = "ready" \/ lpc = "down" => step = "pick"
  BY <1>t DEF LoopTypeOK
<1>1. ASSUME NEW k \in Keys \cup {None}, NEW e \in Executions, StartNew(e, k)
      PROVE  CompleteInv'
  <2>1. /\ state[e] = "absent" /\ step' = "pick"
        /\ state' = [state EXCEPT ![e] = "queued"]
        /\ ev' = [ev EXCEPT ![e] = NewEvidence(session)]
        /\ UNCHANGED <<workerVars, kq, kout, shell, iopub, tr, sent>>
    BY <1>1, <1>n, <1>p DEF StartNew, CreateExecution
  <2>2. sent[e] = 0
    BY <2>1 DEF PromiseInv, Handed
  <2>3. /\ \A x \in Executions \ {e} : state'[x] = state[x] /\ ev'[x] = ev[x]
        /\ state'[e] = "queued" /\ ev'[e].out = 0 /\ ~ev'[e].idle
    BY <1>t, <2>1 DEF NewEvidence
  <2>4. UNCHANGED <<pc, mode, cur, target, proof, msg>>
    BY <2>1 DEF workerVars
  <2>5. \A x : InKernel(x)' <=> InKernel(x)
    BY <2>1 DEF InKernel
  <2>6. \A x \in Executions \ {e} : Quiet(x) => Quiet(x)'
    BY <2>1, <2>3, <2>5 DEF Quiet
  <2>7. cur \in Executions \ {e} \/ cur = None
    BY <2>1 DEF CompleteInv, Marked, TypeOK, WorkerTypeOK, MemoryTypeOK
  <2>8. Channels'
    BY <2>1, <2>5 DEF CompleteInv, Channels
  <2>9. Unsent'
    BY <2>1, <2>2, <2>3 DEF CompleteInv, Unsent
  <2>10. RowsQuiet'
    BY <2>3, <2>6 DEF CompleteInv, RowsQuiet, TerminalStates
  <2>11. MarkedByLoop'
    BY <2>1 DEF MarkedByLoop
  <2>12. CASE cur = None
    <3>1. pc \in {"idle", "exited", "dead"} /\ mode = "run"
      BY <2>12, NoneAssumption
         DEF TypeOK, WorkerTypeOK, MemoryTypeOK, ScheduleInv, InPlace, RowInHand
    <3>2. NothingSlips' /\ Marked'
      BY <2>4, <2>12, <3>1 DEF CompleteInv, NothingSlips, Marked, Watch
    <3> QED
      BY <2>8, <2>9, <2>10, <2>11, <3>2 DEF CompleteInv
  <2>13. CASE cur \in Executions \ {e}
    <3>1. state'[cur] = state[cur] /\ ev'[cur] = ev[cur] /\ (Quiet(cur) => Quiet(cur)')
      BY <2>3, <2>4, <2>6, <2>13
    <3>2. NothingSlips'
      BY <2>1, <2>4, <2>5, <3>1 DEF CompleteInv, NothingSlips, InHand
    <3>3. Marked'
      BY <2>1, <2>4, <3>1 DEF CompleteInv, Marked
    <3> QED
      BY <2>8, <2>9, <2>10, <2>11, <3>2, <3>3 DEF CompleteInv
  <2> QED
    BY <2>7, <2>12, <2>13
<1>2. ASSUME NEW e \in Executions, Cancel(e) PROVE CompleteInv'
  <2>1. /\ RequestCancel(e) /\ lpc = "ready" /\ UNCHANGED <<workerVars, sent, loopVars>>
        /\ UNCHANGED <<kq, kout, shell, iopub, tr>>
    BY <1>2, <1>n DEF Cancel
  <2>2. state[e] = "queued" /\ ev[e].complete => Quiet(e)
    BY UnsentQuiet DEF PromiseInv, Handed
  <2>3. RowStays(e) /\ ev'[e].idle = ev[e].idle
    BY <1>t, <2>1, <2>2 DEF RequestCancel, RowStays, Evidence, TerminalStates
  <2>4. NothingSlips' /\ Marked' /\ Channels' /\ Unsent' /\ RowsQuiet'
    BY <2>1, <2>3, MemoryStays, RowStaysComplete DEF WiresKept
  <2>5. MarkedByLoop'
    BY <1>p, <2>1 DEF MarkedByLoop, loopVars
  <2> QED
    BY <2>4, <2>5 DEF CompleteInv
<1>3. ASSUME NEW k \in Keys, StartAgain(k) PROVE CompleteInv'
  BY <1>3, <1>n, <1>p, <1>s DEF StartAgain, storeVars
<1>4. CASE \/ Submit \/ Boot \/ Resume \/ ForceStop \/ ForceDone \/ StopWhenIdle \/ CloseCoordinator
  <2>1. /\ UNCHANGED <<state, ev, workerVars, kq, kout, shell, iopub, tr, sent>>
        /\ step' = "pick"
    BY <1>4, <1>n, <1>p DEF Submit, Boot, Resume, ForceStop, ForceDone, StopWhenIdle,
       CloseCoordinator, LoopIdle, LoopOnly, storeVars, kernelVars, wireVars
  <2> QED
    BY <1>s, <2>1
<1>5. CASE Exit \/ Crash \/ CrashInTransaction
  <2>1. ProcessEnds /\ UNCHANGED <<state, ev>>
    BY <1>5 DEF Exit, Crash, CrashInTransaction, storeVars
  <2> QED
    BY <2>1, EndKeepsComplete
<1>6. CASE RoutineStep
  <2>1. CASE Visits
    BY <2>1, RoutineKeepsComplete
  <2>2. CASE StartFails
    BY <2>2, StartFailsEnds, EndKeepsComplete DEF storeVars
  <2> QED
    BY <1>6, <2>1, <2>2, RoutineEnds
<1> QED
  BY <1>1, <1>2, <1>3, <1>4, <1>5, <1>6 DEF LoopStep

-----------------------------------------------------------------------------
\* CompleteInv holds at first.
LEMMA CompleteInit == Init => CompleteInv
<1> SUFFICES ASSUME Init PROVE CompleteInv
  OBVIOUS
<1> USE DEF Init, StoreInit, LinkInit, WorkerInit, NewEvidence, NewProof
<1>1. Channels /\ Unsent
  BY DEF Channels, Unsent, Ends, InKernel
<1>2. RowsQuiet
  BY DEF RowsQuiet, TerminalStates
<1>3. NothingSlips /\ Marked /\ MarkedByLoop
  BY DEF NothingSlips, Marked, MarkedByLoop, Watch
<1> QED
  BY <1>1, <1>2, <1>3 DEF CompleteInv

\* Every step keeps it.
LEMMA CompleteNext ==
  TypeOK /\ PromiseInv /\ ScheduleInv /\ CompleteInv /\ [Next]_allVars => CompleteInv'
<1> SUFFICES ASSUME TypeOK, PromiseInv, ScheduleInv, CompleteInv, [Next]_allVars
             PROVE  CompleteInv'
  OBVIOUS
<1>1. CASE UNCHANGED allVars
  <2>1. UNCHANGED <<workerVars, loopVars, state, ev, kq, kout, shell, iopub, tr, sent>>
    BY <1>1 DEF allVars, vars, storeVars, linkVars, kernelVars, wireVars
  <2>2. Around' /\ InMind'
    BY <2>1, AroundStays, MindStays
  <2> QED
    BY <2>2 DEF CompleteInv, Around, InMind
<1> QED
  BY <1>1, WorkerKeepsComplete, KernelKeepsComplete, LinkKeepsComplete, LoopKeepsComplete DEF Next

(***************************************************************************)
(* A proven row that claims complete output has all of it indexed: nothing *)
(* the kernel printed was lost on a broken wire, skipped, counted twice or *)
(* left behind when the row was settled by the worker, a cancel or the     *)
(* next process.                                                           *)
(***************************************************************************)
THEOREM CompleteOutputIsAll == Spec => []CompleteMeansAll
<1>1. CompleteInv => CompleteMeansAll
  BY DEF CompleteInv, RowsQuiet, Quiet, CompleteMeansAll
<1> QED
  BY <1>1, CompleteInit, CompleteNext, TypeCorrect, PromiseInvariant, ScheduleHolds, PTL DEF Spec

-----------------------------------------------------------------------------
(***************************************************************************)
(* A proof that reached the row is not lost.  A row has no evidence before *)
(* it runs (Fresh), whoever adds to the evidence of a row knows what is    *)
(* there already (Covered, Heard), and so the step that completes a proof  *)
(* also settles the row, or a new process does so before it serves         *)
(* (Settling); or its torn spool refuses every attempt to finalize it      *)
(* (Abandoned).                                                            *)
(***************************************************************************)
Proven(e) == ev[e].reply # "none" /\ ev[e].idle

Fresh ==
  \A e \in Executions :
    state[e] \in {"absent", "queued", "dispatching"} => ev[e].reply = "none" /\ ~ev[e].idle

\* Where the worker's memory holds at least what the row holds.
Knowing == {"source", "connect", "register", "begin", "send", "info"} \cup Watch

Covered ==
  pc \in Knowing =>
    /\ ev[cur].reply # "none" => proof.reply # "none"
    /\ ev[cur].idle => proof.idle

\* A message that is being recorded has been observed.
Heard ==
  pc \in {"confirm", "evidence"} =>
    /\ msg.kind \in ValidReplies => proof.reply # "none"
    /\ msg.kind = "idle" => proof.idle

\* The worker is about to commit what the row proves.
Concluding(e) ==
  /\ cur = e /\ pc \in {"finalize", "commit"}
  /\ target \in TerminalStates \ {"unknown"}
  /\ pc = "commit" => ev[e].finalized

\* _internal_failure is on its way to fail on the same spool, or has failed.
Abandoned(e) ==
  /\ ~CanFinalizeOutput(e)
  /\ \/ pc = "dead"
     \/ /\ cur = e /\ handler = "worker"
        /\ pc \in {"handle", "mark", "disconnect", "reread", "finalize"}
        /\ pc = "reread" => state[e] = "disconnected"

Settling ==
  \A e \in Active :
    Proven(e) =>
      \/ Concluding(e)
      \/ Abandoned(e)
      \/ lpc = "down"
      \/ /\ lpc = "reconcile" /\ e \in todo
         /\ step # "pick" /\ work = e => step \in {"finalize", "commit"} /\ goal # "unknown"

ProvenInv == Fresh /\ Covered /\ Heard /\ Settling

\* What almost every step does to the rows.
EvidenceKept ==
  \A e \in Executions :
    /\ ev'[e].reply = ev[e].reply /\ ev'[e].idle = ev[e].idle
    /\ ev[e].finalized => ev'[e].finalized

RowsOnward ==
  \A e \in Executions :
    /\ state'[e] \in {"absent", "queued", "dispatching"} =>
         state[e] \in {"absent", "queued", "dispatching"}
    /\ state'[e] \in ActiveStates => state[e] \in ActiveStates \cup {"queued"}

\* What almost every step does to an unsettled row with a torn spool.
TornStays ==
  \A e \in Active :
    e \in Active' =>
      /\ ~CanFinalizeOutput(e) => ~CanFinalizeOutput(e)'
      /\ state[e] = "disconnected" => state'[e] = "disconnected"

LEMMA RowsStayFresh ==
  ASSUME Fresh, EvidenceKept, RowsOnward
  PROVE  /\ Fresh'
         /\ \A e \in Executions : e \in Active' /\ Proven(e)' => e \in Active /\ Proven(e)
<1>1. Fresh'
  BY DEF Fresh, EvidenceKept, RowsOnward
<1>2. ASSUME NEW e \in Executions, e \in Active', Proven(e)'
      PROVE  e \in Active /\ Proven(e)
  BY <1>2 DEF Fresh, EvidenceKept, RowsOnward, Active, Proven
<1> QED
  BY <1>1, <1>2

\* Steps of the others, which the worker's memory does not see.
LEMMA ProvenUnseen ==
  ASSUME TypeOK, Fresh, Covered, Heard, EvidenceKept, UNCHANGED workerVars
  PROVE  /\ Covered' /\ Heard'
         /\ \A e \in Executions : Concluding(e) => Concluding(e)'
         /\ TornStays =>
              \A e \in Active : e \in Active' /\ Abandoned(e) => Abandoned(e)'
<1>1. UNCHANGED <<pc, cur, proof, msg, target, handler>>
  BY DEF workerVars
<1>2. pc \in Knowing => cur \in Executions
  BY DEF Knowing, Watch, TypeOK, WorkerTypeOK, MemoryTypeOK
<1>3. Covered'
  BY <1>1, <1>2 DEF Covered, EvidenceKept
<1>4. Heard'
  BY <1>1 DEF Heard
<1>5. ASSUME TornStays, NEW e \in Active, e \in Active', Abandoned(e)
      PROVE  Abandoned(e)'
  <2>1. /\ ~CanFinalizeOutput(e)'
        /\ state[e] = "disconnected" => state'[e] = "disconnected"
    BY <1>5 DEF TornStays, Abandoned
  <2> QED
    BY <1>1, <1>5, <2>1 DEF Abandoned
<1> QED
  BY <1>1, <1>3, <1>4, <1>5 DEF Concluding, EvidenceKept

\* A worker that failed on a torn spool fails on it again, and is gone.
LEMMA WorkerAbandons ==
  ASSUME TypeOK, Fresh, Worker, NEW e \in Active, e \in Active', Proven(e), Abandoned(e)
  PROVE  Abandoned(e)'
<1>1. /\ e \in Executions /\ state[e] \in {"running", "disconnected"}
      /\ state \in [Executions -> ExecStates] /\ ev \in [Executions -> Evidence]
  BY DEF Active, ActiveStates, Fresh, Proven, TypeOK, StoreTypeOK
<1>2. pc # "dead"
  BY DEF Worker, TakeItem, ReadRow, ReadSource, ConnectForRun, RegisterConnection,
         BeginDispatchStep, Send, Loop, Expire, NextEvent, ConfirmStep, AppendStep,
         EvidenceStep, RecoverRead, ConnectForRecovery, SendBoundary, HandleStep, MarkStep,
         DisconnectStep, RereadStep, FinalizeStep, CommitStep, DropStep, RecheckStep
<1>3. /\ cur = e /\ handler = "worker" /\ ~CanFinalizeOutput(e)
      /\ pc \in {"handle", "mark", "disconnect", "reread", "finalize"}
      /\ pc = "reread" => state[e] = "disconnected"
  BY <1>2 DEF Abandoned
<1>4. HandleStep \/ MarkStep \/ DisconnectStep \/ RereadStep \/ FinalizeStep
  BY <1>3 DEF Worker, TakeItem, ReadRow, ReadSource, ConnectForRun, RegisterConnection,
         BeginDispatchStep, Send, Loop, Expire, NextEvent, ConfirmStep, AppendStep,
         EvidenceStep, RecoverRead, ConnectForRecovery, SendBoundary, CommitStep, DropStep,
         RecheckStep
<1>5. CASE HandleStep
  <2>1. pc' = "mark" /\ UNCHANGED <<cur, handler, storeVars>>
    BY <1>1, <1>3, <1>5 DEF HandleStep, TerminalStates
  <2> QED
    BY <1>3, <2>1 DEF Abandoned, CanFinalizeOutput, storeVars
<1>6. CASE MarkStep
  <2>1. pc' \in {"finalize", "disconnect"} /\ UNCHANGED <<cur, handler, state, torn>>
    BY <1>3, <1>6 DEF MarkStep, MarkOutputIncomplete, Finalizing, Go
  <2>2. ev'[e].finalized = ev[e].finalized /\ ev'[e].out = ev[e].out
    BY <1>1, <1>3, <1>6 DEF MarkStep, MarkOutputIncomplete, Evidence
  <2> QED
    BY <1>3, <2>1, <2>2 DEF Abandoned, CanFinalizeOutput
<1>7. CASE DisconnectStep
  <2>1. CASE CanTransition(cur, "disconnected")
    <3>1. /\ state' = [state EXCEPT ![e] = "disconnected"] /\ UNCHANGED <<ev, torn>>
          /\ pc' = "reread" /\ UNCHANGED <<cur, handler>>
      BY <1>3, <1>7, <2>1 DEF DisconnectStep, TransitionExecution, Go
    <3> QED
      BY <1>1, <1>3, <3>1 DEF Abandoned, CanFinalizeOutput
  <2>2. CASE ~CanTransition(cur, "disconnected")
    BY <1>3, <1>7, <2>2
       DEF DisconnectStep, Raise, Released, Abandoned, CanFinalizeOutput, storeVars
  <2> QED
    BY <2>1, <2>2
<1>8. CASE RereadStep
  BY <1>3, <1>8 DEF RereadStep, Finalizing, Abandoned, CanFinalizeOutput, storeVars
<1>9. CASE FinalizeStep
  BY <1>3, <1>9 DEF FinalizeStep, Raise, Released, Abandoned, CanFinalizeOutput, storeVars
<1> QED
  BY <1>4, <1>5, <1>6, <1>7, <1>8, <1>9

\* A step of the worker that concludes nothing.
LEMMA WorkerConcludesNothing ==
  ASSUME TypeOK, ProvenInv, Worker, EvidenceKept, RowsOnward, UNCHANGED loopVars,
         pc \notin {"finalize", "commit"}, Covered', Heard'
  PROVE  ProvenInv'
<1>1. /\ Fresh'
      /\ \A e \in Executions : e \in Active' /\ Proven(e)' => e \in Active /\ Proven(e)
  BY RowsStayFresh DEF ProvenInv
<1>2. Settling'
  <2> SUFFICES ASSUME NEW e \in Active', Proven(e)'
               PROVE  \/ Abandoned(e)'
                      \/ lpc' = "down"
                      \/ /\ lpc' = "reconcile" /\ e \in todo'
                         /\ step' # "pick" /\ work' = e =>
                              step' \in {"finalize", "commit"} /\ goal' # "unknown"
    BY DEF Settling
  <2>1. e \in Active /\ Proven(e)
    BY <1>1 DEF Active
  <2>2. ~Concluding(e)
    BY DEF Concluding
  <2>3. Abandoned(e) => Abandoned(e)'
    BY <2>1, WorkerAbandons DEF ProvenInv
  <2> QED
    BY <2>1, <2>2, <2>3 DEF ProvenInv, Settling, loopVars
<1> QED
  BY <1>1, <1>2 DEF ProvenInv

\* The worker's steps between the places where it records and commits.
LEMMA WorkerKnows ==
  ASSUME TypeOK, ScheduleInv, ProvenInv, Worker,
         ~EvidenceStep, ~FinalizeStep, ~CommitStep
  PROVE  EvidenceKept /\ RowsOnward /\ Covered' /\ Heard' /\ pc \notin {"finalize", "commit"}
<1>0. /\ state \in [Executions -> ExecStates] /\ ev \in [Executions -> Evidence]
      /\ pc \notin {"idle", "exited", "dead"} => cur \in Executions
      /\ proof \in Proofs /\ mode \in {"run", "recover"}
  BY DEF TypeOK, StoreTypeOK, WorkerTypeOK, MemoryTypeOK
<1>1. Fresh /\ Covered /\ Heard
  BY DEF ProvenInv
<1> DEFINE Rows == EvidenceKept /\ RowsOnward
<1> DEFINE Mind == Covered' /\ Heard'
<1>s. UNCHANGED <<state, ev>> => Rows
  BY DEF EvidenceKept, RowsOnward, ActiveStates
<1>a. pc' \notin Knowing => Mind
  BY DEF Covered, Heard, Knowing, Watch
<1>r. ASSUME NEW p \in {"idle", "dead", "exited"}, Released(p)
      PROVE  Mind
  BY <1>a, <1>r DEF Released, Knowing, Watch
<1>h. ASSUME NEW h, Handle(h) \/ Raise
      PROVE  Mind
  <2>1. pc' \in {"handle", "dead"}
    BY <1>h DEF Handle, Raise, Released
  <2> QED
    BY <1>a, <2>1 DEF Knowing, Watch
<1>m. ASSUME Rows, cur' = cur, pc \in Knowing, pc' \notin {"confirm", "evidence"},
             proof.reply # "none" => proof'.reply # "none", proof.idle => proof'.idle
      PROVE  Mind
  <2>1. cur \in Executions
    BY <1>0, <1>m DEF Knowing, Watch
  <2> QED
    BY <1>1, <1>m, <2>1 DEF Covered, Heard, EvidenceKept
<1>g. ASSUME NEW p \in Knowing \ {"confirm", "evidence"}, Rows, pc \in Knowing, Go(p)
      PROVE  Mind
  BY <1>g, <1>m DEF Go
<1> DEFINE Goal == Rows /\ Mind /\ pc \notin {"finalize", "commit"}
<1>2. CASE TakeItem
  <2>1. pc' \in {"exited", "read", "recover"} /\ UNCHANGED <<state, ev>> /\ pc = "idle"
    BY <1>2 DEF TakeItem, Released, storeVars
  <2> QED
    BY <1>a, <1>s, <2>1 DEF Knowing, Watch
<1>3. CASE ReadRow
  <2>1. UNCHANGED <<state, ev>> /\ pc = "read"
    BY <1>3 DEF ReadRow, storeVars
  <2>2. CASE pc' # "source"
    <3>1. pc' \in {"idle", "finalize"}
      BY <1>3, <2>2 DEF ReadRow, Released, Finalizing
    <3> QED
      BY <1>a, <1>s, <2>1, <3>1 DEF Knowing, Watch
  <2>3. CASE pc' = "source"
    <3>1. state[cur] = "queued" /\ cur' = cur /\ cur \in Executions
      BY <1>0, <1>3, <2>1, <2>3 DEF ReadRow, Released, Finalizing
    <3>2. ev'[cur'].reply = "none" /\ ~ev'[cur'].idle
      BY <1>1, <2>1, <3>1 DEF Fresh
    <3> QED
      BY <1>s, <2>1, <2>3, <3>2 DEF Covered, Heard
  <2> QED
    BY <2>2, <2>3
<1>4. CASE ReadSource \/ ConnectForRun \/ RegisterConnection \/ ConnectForRecovery
  <2>1. UNCHANGED <<state, ev>> /\ pc \in {"source", "connect", "register"}
    BY <1>4 DEF ReadSource, ConnectForRun, RegisterConnection, ConnectForRecovery, storeVars
  <2>2. \/ \E p \in {"connect", "begin", "register", "info"} : Go(p)
        \/ Go("recover") \/ (\E h \in Handlers : Handle(h)) \/ Raise
    BY <1>4 DEF ReadSource, ConnectForRun, RegisterConnection, ConnectForRecovery, SameKernel,
                Handlers
  <2>3. CASE \E p \in {"connect", "begin", "register", "info"} : Go(p)
    BY <1>g, <1>s, <2>1, <2>3 DEF Knowing, Watch
  <2>4. CASE Go("recover")
    BY <1>a, <1>s, <2>1, <2>4 DEF Go, Knowing, Watch
  <2>5. CASE (\E h \in Handlers : Handle(h)) \/ Raise
    BY <1>h, <1>s, <2>1, <2>5
  <2> QED
    BY <2>2, <2>3, <2>4, <2>5
<1>5. CASE BeginDispatchStep
  <2>1. CASE UNCHANGED storeVars /\ Handle("dispatch")
    BY <1>5, <1>h, <1>s, <2>1 DEF BeginDispatchStep, storeVars
  <2>2. CASE CanBeginDispatch(cur) /\ BeginDispatch(cur, seen, peer) /\ Go("send")
    <3>1. Rows
      BY <1>0, <1>5, <2>2
         DEF BeginDispatchStep, CanBeginDispatch, BeginDispatch, EvidenceKept, RowsOnward,
             Evidence, ActiveStates
    <3> QED
      BY <1>5, <1>g, <2>2, <3>1 DEF BeginDispatchStep, Knowing, Watch
  <2> QED
    BY <1>5, <2>1, <2>2 DEF BeginDispatchStep
<1>6. CASE Send
  <2>1. UNCHANGED <<state, ev>> /\ pc = "send" /\ (Go("loop") \/ Handle("dispatch"))
    BY <1>6 DEF Send, storeVars
  <2> QED
    BY <1>g, <1>h, <1>s, <2>1 DEF Knowing, Watch
<1>i. ASSUME NEW intent, Interrupting(intent), pc \in {"loop", "expire"}, Rows
      PROVE  Mind
  <2>1. CASE Handle("interrupt")
    BY <1>h, <2>1
  <2>2. CASE /\ pc' = "event" /\ cur' = cur
             /\ proof' = [proof EXCEPT !.want = RequestInterrupt(@, intent)]
    BY <1>0, <1>i, <1>m, <2>2 DEF Proofs, Knowing, Watch
  <2> QED
    BY <1>i, <2>1, <2>2 DEF Interrupting
<1>7. CASE Loop
  <2>1. UNCHANGED <<state, ev>> /\ pc = "loop"
    BY <1>7 DEF Loop, storeVars
  <2>2. \/ Released("idle") \/ Interrupting(ev[cur].intent) \/ Go("event") \/ Go("expire")
    BY <1>7 DEF Loop
  <2> QED
    BY <1>g, <1>i, <1>r, <1>s, <2>1, <2>2 DEF Knowing, Watch
<1>8. CASE Expire
  <2>1. pc = "expire" /\ cur \in Executions
    BY <1>0, <1>8 DEF Expire
  <2>2. Rows
    BY <1>0, <1>8, <2>1 DEF Expire, RequestTimeout, EvidenceKept, RowsOnward, Evidence,
                            ActiveStates
  <2>3. Go("event") \/ \E intent : Interrupting(intent)
    BY <1>8 DEF Expire
  <2> QED
    BY <1>g, <1>i, <2>1, <2>2, <2>3 DEF Knowing, Watch
<1>9. CASE NextEvent
  <2>1. UNCHANGED <<state, ev>> /\ pc = "event" /\ cur \in Executions
    BY <1>0, <1>9 DEF NextEvent, storeVars
  <2>2. ASSUME NEW m, ObserveExecution(m)
        PROVE  Mind
    <3>1. /\ cur' = cur
          /\ pc' \in {"confirm", "evidence"} => msg' = m
          /\ proof.reply # "none" \/ m.kind \in ValidReplies => proof'.reply # "none"
          /\ proof.idle \/ m.kind = "idle" => proof'.idle
      BY <1>0, <2>2 DEF ObserveExecution, Proofs, ValidReplies, ReplyKinds
    <3> QED
      BY <1>1, <2>1, <3>1 DEF Covered, Heard, Knowing, Watch
  <2>3. ASSUME NEW m, ObserveBoundary(m)
        PROVE  Mind
    <3>1. pc' \in {"handle", "loop"} /\ UNCHANGED <<cur, proof>>
      BY <2>3 DEF ObserveBoundary
    <3> QED
      BY <1>m, <1>s, <2>1, <3>1 DEF Knowing, Watch
  <2>4. ASSUME NEW m, Unmatched(m)
        PROVE  Mind
    BY <1>g, <1>s, <2>1, <2>4 DEF Unmatched, Knowing, Watch
  <2>5. CASE NextEventTimesOut /\ Go("loop")
    BY <1>g, <1>s, <2>1, <2>5 DEF Knowing, Watch
  <2>6. CASE pc' = "drop"
    BY <1>a, <1>s, <2>1, <2>6 DEF Knowing, Watch
  <2>7. CASE Handle("lost")
    BY <1>h, <1>s, <2>1, <2>7
  <2> QED
    BY <1>9, <1>s, <2>1, <2>2, <2>3, <2>4, <2>5, <2>6, <2>7 DEF NextEvent
<1>10. CASE ConfirmStep
  <2>1. pc = "confirm" /\ cur \in Executions
    BY <1>0, <1>10 DEF ConfirmStep
  <2>2. CASE UNCHANGED storeVars /\ Raise
    BY <1>h, <1>s, <2>1, <2>2 DEF storeVars
  <2>3. CASE CanConfirmDispatch(cur) /\ ConfirmDispatch(cur) /\ Go(AfterConfirm(msg.kind))
    <3>1. Rows
      BY <1>0, <2>1, <2>3 DEF CanConfirmDispatch, ConfirmDispatch, EvidenceKept, RowsOnward,
                              Evidence, ActiveStates
    <3>2. UNCHANGED <<cur, proof, msg>>
      BY <2>3 DEF Go
    <3> QED
      BY <1>1, <2>1, <3>1, <3>2 DEF Covered, Heard, EvidenceKept, Knowing, Watch
  <2> QED
    BY <1>10, <2>2, <2>3 DEF ConfirmStep
<1>11. CASE AppendStep
  <2>1. pc = "append" /\ cur \in Executions
    BY <1>0, <1>11 DEF AppendStep
  <2>2. CASE UNCHANGED storeVars /\ Raise
    BY <1>h, <1>s, <2>1, <2>2 DEF storeVars
  <2>3. CASE AppendOutput(cur) /\ Go("loop")
    <3>1. Rows
      BY <1>0, <2>1, <2>3 DEF AppendOutput, EvidenceKept, RowsOnward, Evidence, ActiveStates
    <3> QED
      BY <1>g, <2>1, <2>3, <3>1 DEF Knowing, Watch
  <2> QED
    BY <1>11, <2>2, <2>3 DEF AppendStep
<1>12. CASE RecoverRead
  <2>1. UNCHANGED <<state, ev>> /\ pc = "recover"
    BY <1>12 DEF RecoverRead, storeVars
  <2>2. CASE Released("idle")
    BY <1>r, <1>s, <2>1, <2>2
  <2>3. CASE proof' = Restored(ev[cur]) /\ cur' = cur /\ pc' \in {"handle", "connect"}
    BY <1>s, <2>1, <2>3 DEF Covered, Heard, Restored
  <2> QED
    BY <1>12, <2>2, <2>3 DEF RecoverRead
<1>13. CASE SendBoundary
  <2>1. UNCHANGED <<state, ev>> /\ pc = "info"
    BY <1>13 DEF SendBoundary, storeVars
  <2>2. pc' \in {"loop", "drop"} /\ UNCHANGED <<cur, proof>>
    BY <1>13 DEF SendBoundary
  <2> QED
    BY <1>m, <1>s, <2>1, <2>2 DEF Knowing, Watch
<1>14. CASE HandleStep
  <2>1. UNCHANGED <<state, ev>> /\ pc = "handle"
    BY <1>14 DEF HandleStep, storeVars
  <2>2. pc' \in {"finalize", "drop", "mark", "idle"}
    BY <1>14 DEF HandleStep, Finalizing, Go, Released
  <2> QED
    BY <1>a, <1>s, <2>1, <2>2 DEF Knowing, Watch
<1>15. CASE MarkStep
  <2>1. pc = "mark" /\ cur \in Executions
    BY <1>0, <1>15 DEF MarkStep
  <2>2. Rows
    BY <1>0, <1>15, <2>1 DEF MarkStep, MarkOutputIncomplete, EvidenceKept, RowsOnward, Evidence,
                             ActiveStates
  <2>3. pc' \in {"disconnect", "finalize", "drop"}
    BY <1>15 DEF MarkStep, Finalizing, Go
  <2> QED
    BY <1>a, <2>1, <2>2, <2>3 DEF Knowing, Watch
<1>16. CASE DisconnectStep
  <2>1. pc = "disconnect" /\ cur \in Executions
    BY <1>0, <1>16 DEF DisconnectStep
  <2>2. CASE UNCHANGED storeVars /\ Raise
    BY <1>h, <1>s, <2>1, <2>2 DEF storeVars
  <2>3. CASE CanTransition(cur, "disconnected") /\ TransitionExecution(cur, "disconnected")
             /\ pc' \in {"drop", "reread"}
    <3>1. state[cur] \in ActiveStates
      BY <1>0, <2>1, <2>3 DEF CanTransition, AllowedTransitions, ExecStates, ActiveStates,
                              TerminalStates
    <3>2. state' = [state EXCEPT ![cur] = "disconnected"] /\ UNCHANGED ev
      BY <2>3 DEF TransitionExecution
    <3>3. Rows
      BY <1>0, <2>1, <3>1, <3>2 DEF EvidenceKept, RowsOnward, ActiveStates
    <3> QED
      BY <1>a, <2>1, <2>3, <3>3 DEF Knowing, Watch
  <2> QED
    BY <1>16, <2>2, <2>3 DEF DisconnectStep, Go
<1>17. CASE RereadStep \/ DropStep \/ RecheckStep
  <2>1. UNCHANGED <<state, ev>> /\ pc \in {"reread", "drop", "recheck"}
    BY <1>17 DEF RereadStep, DropStep, RecheckStep, storeVars
  <2>2. pc' \in {"finalize", "drop", "recheck", "recover", "idle"}
    BY <1>17 DEF RereadStep, DropStep, RecheckStep, Finalizing, Go, Released
  <2> QED
    BY <1>a, <1>s, <2>1, <2>2 DEF Knowing, Watch
<1> QED
  BY <1>2, <1>3, <1>4, <1>5, <1>6, <1>7, <1>8, <1>9, <1>10, <1>11, <1>12, <1>13, <1>14, <1>15,
     <1>16, <1>17 DEF Worker

\* record_execution_evidence settles what it completes.
LEMMA EvidenceConcludes ==
  ASSUME TypeOK, ScheduleInv, ProvenInv, EvidenceStep, UNCHANGED loopVars
  PROVE  ProvenInv'
<1>0. /\ state \in [Executions -> ExecStates] /\ ev \in [Executions -> Evidence]
      /\ cur \in Executions /\ pc = "evidence" /\ proof \in Proofs
  BY DEF TypeOK, StoreTypeOK, WorkerTypeOK, MemoryTypeOK, EvidenceStep
<1>1. Fresh /\ Covered /\ Heard /\ Settling
  BY DEF ProvenInv
<1>2. CASE UNCHANGED storeVars /\ Raise
  <2>1. EvidenceKept /\ RowsOnward
    BY <1>2 DEF storeVars, EvidenceKept, RowsOnward, ActiveStates
  <2>2. pc' \in {"handle", "dead"}
    BY <1>2 DEF Raise, Handle, Released
  <2>3. Covered' /\ Heard'
    BY <2>2 DEF Covered, Heard, Knowing, Watch
  <2>4. Worker
    BY DEF Worker
  <2> QED
    BY <1>0, <2>1, <2>3, <2>4, WorkerConcludesNothing
<1>3. CASE CanRecordEvidence(cur) /\ ~(UNCHANGED storeVars /\ Raise)
  <2> DEFINE reply == IF msg.kind \in ValidReplies THEN proof.reply ELSE "none"
             t == TerminalState(proof.reply, proof.idle, proof.want)
  <2>1. /\ RecordEvidence(cur, reply, msg.kind = "idle")
        /\ IF t = "none" THEN Go("loop") ELSE Finalizing(t)
    BY <1>3 DEF EvidenceStep
  <2>2. /\ UNCHANGED state /\ state[cur] \in {"running", "disconnected"}
        /\ \A e \in Executions \ {cur} : ev'[e] = ev[e]
        /\ ev'[cur].reply = IF reply = "none" THEN ev[cur].reply ELSE reply
        /\ ev'[cur].idle = IF msg.kind = "idle" THEN TRUE ELSE ev[cur].idle
    BY <1>0, <1>3, <2>1 DEF RecordEvidence, CanRecordEvidence, Evidence
  <2>3. UNCHANGED <<cur, proof>> /\ pc' \in {"loop", "finalize"}
    BY <2>1 DEF Go, Finalizing
  <2>4. /\ ev'[cur].reply # "none" => proof.reply # "none"
        /\ ev'[cur].idle => proof.idle
    BY <1>0, <1>1, <2>2 DEF Covered, Heard, Knowing, Watch
  <2>5. Fresh'
    BY <1>1, <2>2 DEF Fresh
  <2>6. Covered' /\ Heard'
    BY <2>3, <2>4 DEF Covered, Heard
  <2>7. ASSUME NEW e \in Active', Proven(e)'
        PROVE  \/ Concluding(e)' \/ Abandoned(e)'
               \/ lpc' = "down"
               \/ /\ lpc' = "reconcile" /\ e \in todo'
                  /\ step' # "pick" /\ work' = e =>
                       step' \in {"finalize", "commit"} /\ goal' # "unknown"
    <3>1. CASE e = cur
      <4>1. t \in {"finished", "error", "interrupted", "timed_out"}
        BY <1>0, <2>4, <2>7, <3>1 DEF Proven, TerminalState, Proofs, Intents
      <4>2. pc' = "finalize" /\ target' = t
        BY <2>1, <4>1 DEF Finalizing
      <4> QED
        BY <2>3, <3>1, <4>1, <4>2 DEF Concluding, TerminalStates
    <3>2. CASE e # cur
      <4>1. e \in Active /\ Proven(e) /\ e \in Executions
        BY <2>2, <2>7, <3>2 DEF Active, Proven
      <4>2. ~Concluding(e)
        BY <3>2 DEF Concluding
      <4>3. Abandoned(e) => Abandoned(e)'
        BY <1>1, <2>7, <4>1, WorkerAbandons DEF Worker
      <4> QED
        BY <1>1, <4>1, <4>2, <4>3 DEF Settling, loopVars
    <3> QED
      BY <3>1, <3>2
  <2>8. Settling'
    BY <2>7 DEF Settling
  <2> QED
    BY <2>5, <2>6, <2>8 DEF ProvenInv
<1> QED
  BY <1>2, <1>3 DEF EvidenceStep

\* finalize_output and transition_execution carry the conclusion out.
LEMMA CommitConcludes ==
  ASSUME TypeOK, ScheduleInv, ProvenInv, FinalizeStep \/ CommitStep, UNCHANGED loopVars
  PROVE  ProvenInv'
<1>0. /\ state \in [Executions -> ExecStates] /\ ev \in [Executions -> Evidence]
      /\ cur \in Executions /\ pc \in {"finalize", "commit"} /\ target \in TerminalStates
  BY DEF TypeOK, StoreTypeOK, WorkerTypeOK, MemoryTypeOK, FinalizeStep, CommitStep,
         ScheduleInv, InPlace, Failing
<1>1. Fresh /\ Settling
  BY DEF ProvenInv
<1>2. pc' \in {"commit", "idle", "dead", "drop", "handle"}
  BY DEF FinalizeStep, CommitStep, Go, Raise, Handle, Released
<1>3. Covered' /\ Heard'
  BY <1>2 DEF Covered, Heard, Knowing, Watch
<1>a. ASSUME NEW e \in Active, e \in Active', Proven(e), Abandoned(e)
      PROVE  Abandoned(e)'
  BY <1>1, <1>a, WorkerAbandons DEF Worker
<1>6. CASE FinalizeStep /\ ~CanFinalizeOutput(cur)
  <2>1. /\ UNCHANGED storeVars
        /\ \/ pc' = "dead"
           \/ pc' = "handle" /\ handler' = "worker" /\ cur' = cur
    BY <1>6 DEF FinalizeStep, Raise, Released, Handle
  <2>2. EvidenceKept /\ RowsOnward
    BY <2>1 DEF storeVars, EvidenceKept, RowsOnward, ActiveStates
  <2>3. /\ Fresh'
        /\ \A e \in Executions : e \in Active' /\ Proven(e)' => e \in Active /\ Proven(e)
    BY <1>1, <2>2, RowsStayFresh
  <2>4. \A e \in Active : Concluding(e) => Abandoned(e)'
    BY <1>6, <2>1 DEF Concluding, Abandoned, CanFinalizeOutput, storeVars
  <2>5. Settling'
    BY <1>1, <1>a, <2>3, <2>4 DEF Settling, Active, loopVars
  <2> QED
    BY <1>3, <2>3, <2>5 DEF ProvenInv
<1>4. CASE FinalizeStep /\ CanFinalizeOutput(cur)
  <2>1. /\ EvidenceKept /\ RowsOnward /\ ev'[cur].finalized
        /\ UNCHANGED <<cur, target>> /\ pc' = "commit"
    BY <1>0, <1>4
       DEF FinalizeStep, FinalizeOutput, Go, EvidenceKept, RowsOnward, Evidence, ActiveStates
  <2>2. /\ Fresh'
        /\ \A e \in Executions : e \in Active' /\ Proven(e)' => e \in Active /\ Proven(e)
    BY <1>1, <2>1, RowsStayFresh
  <2>3. \A e \in Active : Concluding(e) => Concluding(e)'
    BY <2>1 DEF Concluding
  <2>4. Settling'
    BY <1>1, <1>a, <2>2, <2>3 DEF Settling, Active, loopVars
  <2> QED
    BY <1>3, <2>2, <2>4 DEF ProvenInv
<1>5. CASE CommitStep
  <2>1. pc = "commit" /\ UNCHANGED ev
    BY <1>5 DEF CommitStep, TransitionExecution, storeVars
  <2>2. CASE CanTransition(cur, target) /\ TransitionExecution(cur, target)
    <3>1. state' = [state EXCEPT ![cur] = target]
      BY <2>2 DEF TransitionExecution
    <3>2. EvidenceKept /\ RowsOnward /\ cur \notin Active'
      BY <1>0, <2>1, <3>1 DEF EvidenceKept, RowsOnward, TerminalStates, ActiveStates, Active
    <3>3. /\ Fresh'
          /\ \A e \in Executions : e \in Active' /\ Proven(e)' => e \in Active /\ Proven(e)
      BY <1>1, <3>2, RowsStayFresh
    <3>4. \A e \in Active' : ~Concluding(e)
      BY <3>2 DEF Concluding
    <3>5. Settling'
      BY <1>1, <1>a, <3>3, <3>4 DEF Settling, Active, loopVars
    <3> QED
      BY <1>3, <3>3, <3>5 DEF ProvenInv
  <2>3. CASE ~CanTransition(cur, target)
    <3>1. UNCHANGED state
      BY <1>5, <2>3 DEF CommitStep, storeVars
    <3>2. EvidenceKept /\ RowsOnward
      BY <2>1, <3>1 DEF EvidenceKept, RowsOnward, ActiveStates
    <3>3. /\ Fresh'
          /\ \A e \in Executions : e \in Active' /\ Proven(e)' => e \in Active /\ Proven(e)
      BY <1>1, <3>2, RowsStayFresh
    <3>4. ASSUME NEW e \in Active, Proven(e), Concluding(e)
          PROVE  FALSE
      <4>1. e = cur /\ ev[cur].finalized /\ target \in TerminalStates \ {"unknown"}
        BY <2>1, <3>4 DEF Concluding
      <4>2. state[cur] \in {"running", "disconnected"}
        BY <1>1, <3>4, <4>1 DEF Fresh, Proven, Active, ActiveStates
      <4>3. target \in AllowedTransitions[state[cur]]
        BY <4>1, <4>2 DEF AllowedTransitions, ExecStates, ActiveStates, TerminalStates
      <4> QED
        BY <2>3, <4>1, <4>3 DEF CanTransition
    <3>5. Settling'
      BY <1>1, <1>a, <3>3, <3>4 DEF Settling, Active, loopVars
    <3> QED
      BY <1>3, <3>3, <3>5 DEF ProvenInv
  <2> QED
    BY <1>5, <2>2, <2>3 DEF CommitStep
<1> QED
  BY <1>4, <1>5, <1>6

LEMMA WorkerKeepsProof ==
  ASSUME TypeOK, ScheduleInv, ProvenInv, WorkerStep
  PROVE  ProvenInv'
<1>1. Worker /\ UNCHANGED loopVars
  BY DEF WorkerStep
<1>2. CASE EvidenceStep
  BY <1>1, <1>2, EvidenceConcludes
<1>3. CASE FinalizeStep \/ CommitStep
  BY <1>1, <1>3, CommitConcludes
<1>4. CASE ~EvidenceStep /\ ~FinalizeStep /\ ~CommitStep
  BY <1>1, <1>4, WorkerKnows, WorkerConcludesNothing
<1> QED
  BY <1>2, <1>3, <1>4

\* A routine takes a proven row only to settle it, unless it is a forced stop.
LEMMA RoutineKeepsProof ==
  ASSUME TypeOK, ScheduleInv, ProvenInv, Visits
  PROVE  ProvenInv'
<1>0. /\ state \in [Executions -> ExecStates] /\ ev \in [Executions -> Evidence]
      /\ goal \in {"none"} \cup TerminalStates
      /\ step # "pick" => work \in Executions /\ lpc \in {"reconcile", "force"}
      /\ Fresh /\ Covered /\ Heard /\ Settling
  BY DEF TypeOK, StoreTypeOK, LoopTypeOK, ProvenInv
<1>1. UNCHANGED workerVars /\ lpc \in {"reconcile", "force"}
  BY RoutineRow
<1>2. RowsOnward
  BY <1>0, RoutineRow DEF RowsOnward, ActiveStates, TerminalStates
<1>3. EvidenceKept
  <2>1. CASE RoutineMark \/ RoutineFinalize
    <3>1. /\ work \in Executions
          /\ \/ ev' = [ev EXCEPT ![work].complete = FALSE]
             \/ ev' = [ev EXCEPT ![work].finalized = TRUE]
      BY <1>0, <2>1
         DEF RoutineMark, RoutineFinalize, MarkOutputIncomplete, FinalizeOutput
    <3> QED
      BY <1>0, <3>1 DEF EvidenceKept, Evidence
  <2>2. CASE ~(RoutineMark \/ RoutineFinalize)
    <3>1. UNCHANGED ev
      BY <2>2 DEF Visits, ReconcileRow, ForceRow, RoutineRead, RoutineDisconnect,
                  RoutineCommit, RoutineRaises, TransitionExecution, storeVars
    <3> QED
      BY <3>1 DEF EvidenceKept
  <2> QED
    BY <2>1, <2>2
<1>4. /\ Fresh'
      /\ \A e \in Executions : e \in Active' /\ Proven(e)' => e \in Active /\ Proven(e)
  BY <1>0, <1>2, <1>3, RowsStayFresh
<1>8. TornStays
  <2>1. \A e \in Active : e \in Active' /\ state[e] = "disconnected"
                            => state'[e] = "disconnected"
    BY <1>0, RoutineRow DEF Active, ActiveStates, TerminalStates
  <2>2. ASSUME NEW e \in Active, ~CanFinalizeOutput(e)
        PROVE  ~CanFinalizeOutput(e)'
    <3>0. e \in Executions
      BY DEF Active
    <3>1. CASE RoutineFinalize
      <4>1. work # e /\ work \in Executions /\ UNCHANGED torn
            /\ ev' = [ev EXCEPT ![work].finalized = TRUE]
        BY <1>0, <2>2, <3>1 DEF RoutineFinalize, FinalizeOutput
      <4>2. ev'[e] = ev[e]
        BY <1>0, <3>0, <4>1
      <4> QED
        BY <2>2, <4>1, <4>2 DEF CanFinalizeOutput
    <3>2. CASE ~RoutineFinalize
      <4>1. UNCHANGED torn /\ (UNCHANGED ev \/ RoutineMark)
        BY <3>2 DEF Visits, ReconcileRow, ForceRow, RoutineRead, RoutineDisconnect,
           RoutineCommit, RoutineRaises, RoutineMark, MarkOutputIncomplete,
           TransitionExecution, storeVars
      <4>2. ev'[e].finalized = ev[e].finalized /\ ev'[e].out = ev[e].out
        BY <1>0, <3>0, <4>1 DEF RoutineMark, MarkOutputIncomplete, Evidence
      <4> QED
        BY <2>2, <4>1, <4>2 DEF CanFinalizeOutput
    <3> QED
      BY <3>1, <3>2
  <2> QED
    BY <2>1, <2>2 DEF TornStays
<1>5. /\ Covered' /\ Heard'
      /\ \A e \in Executions : Concluding(e) => Concluding(e)'
      /\ \A e \in Active : e \in Active' /\ Abandoned(e) => Abandoned(e)'
  BY <1>0, <1>1, <1>3, <1>8, ProvenUnseen
<1>6. CASE lpc = "force"
  BY <1>0, <1>4, <1>5, <1>6 DEF Settling, Active, ProvenInv
<1>7. CASE lpc = "reconcile"
  <2>1. lpc' = "reconcile"
    BY <1>7, ReconciliationProceeds
  <2>2. /\ step \in {"mark", "read"} => goal = "unknown"
        /\ step = "commit" => CanTransition(work, goal)
    BY <1>7 DEF ScheduleInv, Reconciled, CanTransition
  <2> SUFFICES ASSUME NEW e \in Active', Proven(e)', ~Concluding(e)', ~Abandoned(e)'
               PROVE  /\ e \in todo'
                      /\ step' # "pick" /\ work' = e =>
                           step' \in {"finalize", "commit"} /\ goal' # "unknown"
    BY <1>4, <1>5, <2>1 DEF Settling, ProvenInv
  <2>3. /\ e \in Active /\ Proven(e) /\ e \in todo
        /\ step # "pick" /\ work = e => step \in {"finalize", "commit"} /\ goal # "unknown"
    BY <1>0, <1>4, <1>5, <1>7 DEF Settling, Active
  <2>4. ASSUME NEW x \in Executions, ReconcileRow(x)
        PROVE  /\ e \in todo'
               /\ step' # "pick" /\ work' = e =>
                    step' \in {"finalize", "commit"} /\ goal' # "unknown"
    <3>1. todo' = todo /\ work' = x
      BY <2>4 DEF ReconcileRow
    <3>2. CASE x # e
      BY <2>3, <3>1, <3>2
    <3>3. CASE x = e
      <4>1. state[e] # "dispatching"
        BY <1>0, <2>3 DEF Fresh, Proven, Active
      <4>2. TerminalFromEvidence(e) \in {"finished", "error", "interrupted", "timed_out"}
        BY <1>0, <2>3 DEF TerminalFromEvidence, TerminalState, Proven, Evidence, Intents, Active
      <4>3. step' = "finalize" /\ goal' = TerminalFromEvidence(e)
        BY <2>4, <3>3, <4>1, <4>2 DEF ReconcileRow
      <4> QED
        BY <2>3, <3>1, <4>2, <4>3
    <3> QED
      BY <3>2, <3>3
  <2>5. CASE RoutineMark
    BY <2>3, <2>5 DEF RoutineMark, Routine
  <2>6. CASE RoutineRead
    <3>1. work # e
      BY <2>3, <2>6 DEF RoutineRead
    <3>2. CASE RowDone
      BY <2>3, <3>1, <3>2 DEF RowDone
    <3>3. CASE UNCHANGED <<todo, work>>
      BY <2>3, <3>1, <3>3
    <3> QED
      BY <2>6, <3>2, <3>3 DEF RoutineRead, Routine
  <2>7. CASE RoutineDisconnect
    <3>1. work # e /\ step = "disconnect"
      BY <2>3, <2>7 DEF RoutineDisconnect
    <3>2. UNCHANGED <<todo, work>>
      BY <2>1, <2>7 DEF RoutineDisconnect, Routine, StopRaises, LoopIdle
    <3> QED
      BY <2>3, <3>1, <3>2
  <2>8. CASE RoutineFinalize
    BY <2>3, <2>8 DEF RoutineFinalize, Routine
  <2>9. CASE RoutineCommit
    <3>1. TransitionExecution(work, goal) /\ RowDone /\ work \in Executions
      BY <1>0, <2>2, <2>9 DEF RoutineCommit
    <3>2. goal \in TerminalStates
      BY <1>0, <2>2, <2>9
         DEF RoutineCommit, CanTransition, AllowedTransitions, ExecStates, TerminalStates
    <3>3. work \notin Active'
      BY <1>0, <3>1, <3>2 DEF TransitionExecution, Active, ActiveStates, TerminalStates
    <3> QED
      BY <2>3, <3>1, <3>3 DEF RowDone
  <2>10. ~\E x \in Executions : ForceRow(x)
    BY <1>7 DEF ForceRow
  <2> QED
    BY <1>7, <2>4, <2>5, <2>6, <2>7, <2>8, <2>9, <2>10 DEF Visits
<1> QED
  BY <1>1, <1>6, <1>7

LEMMA LoopKeepsProof ==
  ASSUME TypeOK, ScheduleInv, ProvenInv, LoopStep
  PROVE  ProvenInv'
<1>0. /\ state \in [Executions -> ExecStates] /\ ev \in [Executions -> Evidence]
      /\ lpc # "reconcile" => (step # "pick" => lpc = "force")
      /\ Fresh /\ Covered /\ Heard /\ Settling
  BY DEF TypeOK, StoreTypeOK, LoopTypeOK, ProvenInv
<1>a. ASSUME ProcessEnds, UNCHANGED <<state, ev>>
      PROVE  ProvenInv'
  <2>1. pc' = "idle" /\ lpc' = "down"
    BY <1>a DEF ProcessEnds, LoopIdle, Released
  <2>2. Fresh'
    BY <1>0, <1>a DEF Fresh
  <2> QED
    BY <2>1, <2>2 DEF ProvenInv, Covered, Heard, Settling, Knowing, Watch
<1>1. CASE RoutineStep
  BY <1>1, <1>a, RoutineEnds, RoutineKeepsProof, StartFailsEnds DEF storeVars
<1>2. ASSUME RowsOnward, EvidenceKept, TornStays, UNCHANGED workerVars,
             lpc \notin {"down", "reconcile"}
      PROVE  ProvenInv'
  <2>1. /\ Fresh'
        /\ \A e \in Executions : e \in Active' /\ Proven(e)' => e \in Active /\ Proven(e)
    BY <1>0, <1>2, RowsStayFresh
  <2>2. /\ Covered' /\ Heard'
        /\ \A e \in Executions : Concluding(e) => Concluding(e)'
        /\ \A e \in Active : e \in Active' /\ Abandoned(e) => Abandoned(e)'
    BY <1>0, <1>2, ProvenUnseen
  <2> QED
    BY <1>0, <1>2, <2>1, <2>2 DEF Settling, Active, ProvenInv
<1>3. ASSUME NEW e \in Executions, NEW k, StartNew(e, k)
      PROVE  ProvenInv'
  <2>1. /\ state[e] = "absent" /\ state' = [state EXCEPT ![e] = "queued"]
        /\ ev' = [ev EXCEPT ![e] = NewEvidence(session)]
        /\ UNCHANGED <<workerVars, torn>> /\ lpc = "ready"
    BY <1>3 DEF StartNew, CreateExecution
  <2>2. /\ ev'[e].reply = "none" /\ ~ev'[e].idle /\ ~ev'[e].finalized
        /\ ev[e].reply = "none" /\ ~ev[e].idle
        /\ \A x \in Executions \ {e} : ev'[x] = ev[x] /\ state'[x] = state[x]
    BY <1>0, <2>1 DEF NewEvidence, Fresh
  <2>3. Fresh'
    BY <1>0, <2>2 DEF Fresh
  <2>4. UNCHANGED <<pc, cur, proof, msg, target, handler>>
    BY <2>1 DEF workerVars
  <2>5. pc \in Knowing => cur \in Executions
    BY DEF Knowing, Watch, TypeOK, WorkerTypeOK, MemoryTypeOK
  <2>6. Covered' /\ Heard'
    BY <1>0, <2>2, <2>4, <2>5 DEF Covered, Heard
  <2>7. ASSUME NEW x \in Active', Proven(x)'
        PROVE  Concluding(x)' \/ Abandoned(x)'
    <3>1. x # e /\ x \in Active /\ Proven(x)
      BY <2>1, <2>2, <2>7 DEF Active, Proven, ActiveStates
    <3>2. Concluding(x) \/ Abandoned(x)
      BY <1>0, <2>1, <3>1 DEF Settling
    <3>3. ev'[x] = ev[x] /\ state'[x] = state[x]
      BY <2>2, <3>1 DEF Active
    <3>4. Concluding(x) => Concluding(x)'
      BY <2>4, <3>3 DEF Concluding
    <3>5. Abandoned(x) => Abandoned(x)'
      BY <2>1, <2>4, <3>3 DEF Abandoned, CanFinalizeOutput
    <3> QED
      BY <3>2, <3>4, <3>5
  <2>8. Settling'
    BY <2>7 DEF Settling
  <2> QED
    BY <2>3, <2>6, <2>8 DEF ProvenInv
<1>4. ASSUME NEW e \in Executions, Cancel(e)
      PROVE  ProvenInv'
  <2>1. RowsOnward /\ EvidenceKept
    BY <1>0, <1>4 DEF Cancel, RequestCancel, RowsOnward, EvidenceKept, Evidence, ActiveStates,
                      TerminalStates
  <2>2. UNCHANGED workerVars /\ lpc = "ready"
    BY <1>4 DEF Cancel
  <2>3. TornStays
    BY <1>0, <1>4 DEF Cancel, RequestCancel, TornStays, CanFinalizeOutput, Active, Evidence,
                      ActiveStates, TerminalStates
  <2> QED
    BY <1>2, <2>1, <2>2, <2>3
<1>q. UNCHANGED <<state, ev, torn>> => RowsOnward /\ EvidenceKept /\ TornStays
  BY DEF RowsOnward, EvidenceKept, TornStays, CanFinalizeOutput, ActiveStates
<1>5. CASE \/ \E k \in Keys : StartAgain(k)
           \/ Submit \/ ForceStop \/ ForceDone \/ StopWhenIdle \/ CloseCoordinator
  <2>1. UNCHANGED <<state, ev, torn>> /\ UNCHANGED workerVars /\ lpc \notin {"down", "reconcile"}
    BY <1>5 DEF StartAgain, Submit, ForceStop, ForceDone, StopWhenIdle, CloseCoordinator,
                LoopOnly, storeVars
  <2> QED
    BY <1>2, <1>q, <2>1
<1>6. CASE Boot
  <2>1. /\ UNCHANGED <<state, ev, torn>> /\ UNCHANGED workerVars /\ todo' = Active
        /\ lpc' = "reconcile" /\ step' = "pick"
    BY <1>0, <1>6 DEF Boot, LoopOnly, storeVars
  <2>2. /\ Fresh'
        /\ \A e \in Executions : e \in Active' /\ Proven(e)' => e \in Active /\ Proven(e)
    BY <1>0, <1>q, <2>1, RowsStayFresh
  <2>3. Covered' /\ Heard'
    BY <1>0, <1>q, <2>1, ProvenUnseen
  <2>4. Settling'
    BY <2>1, <2>2 DEF Settling, Active
  <2> QED
    BY <2>2, <2>3, <2>4 DEF ProvenInv
<1>7. CASE Resume
  <2>1. /\ UNCHANGED <<state, ev, torn>> /\ UNCHANGED workerVars /\ todo = {}
        /\ lpc = "reconcile"
    BY <1>7 DEF Resume, storeVars
  <2>2. /\ Fresh'
        /\ \A e \in Executions : e \in Active' /\ Proven(e)' => e \in Active /\ Proven(e)
    BY <1>0, <1>q, <2>1, RowsStayFresh
  <2>3. /\ Covered' /\ Heard'
        /\ \A e \in Executions : Concluding(e) => Concluding(e)'
        /\ \A e \in Active : e \in Active' /\ Abandoned(e) => Abandoned(e)'
    BY <1>0, <1>q, <2>1, ProvenUnseen
  <2>4. Settling'
    BY <1>0, <2>1, <2>2, <2>3 DEF Settling, Active
  <2> QED
    BY <2>2, <2>3, <2>4 DEF ProvenInv
<1>8. CASE Exit \/ Crash \/ CrashInTransaction
  BY <1>8, <1>a DEF Exit, Crash, CrashInTransaction, storeVars
<1> QED
  BY <1>1, <1>3, <1>4, <1>5, <1>6, <1>7, <1>8 DEF LoopStep

\* The invariant holds in every reachable state.
LEMMA ProvenHolds == Spec => []ProvenInv
<1>1. Init => ProvenInv
  BY DEF Init, StoreInit, WorkerInit, NewEvidence, ProvenInv, Fresh, Covered, Heard, Settling,
         Active, ActiveStates, Knowing, Watch
<1>2. TypeOK /\ ScheduleInv /\ ProvenInv /\ [Next]_allVars => ProvenInv'
  <2> SUFFICES ASSUME TypeOK, ScheduleInv, ProvenInv, [Next]_allVars
               PROVE  ProvenInv'
    OBVIOUS
  <2>1. CASE WorkerStep
    BY <2>1, WorkerKeepsProof
  <2>2. CASE LoopStep
    BY <2>2, LoopKeepsProof
  <2>3. CASE KernelStep \/ LinkStep \/ UNCHANGED allVars
    <3>1. /\ UNCHANGED <<state, ev, torn, pc, cur, target, proof, msg, handler>>
          /\ UNCHANGED loopVars
      BY <2>3 DEF KernelStep, LinkStep, allVars, vars, storeVars, workerVars
    <3>2. Fresh' /\ Covered' /\ Heard'
      BY <3>1 DEF ProvenInv, Fresh, Covered, Heard
    <3>3. Settling'
      BY <3>1 DEF ProvenInv, Settling, Concluding, Abandoned, CanFinalizeOutput, Proven,
                  Active, loopVars
    <3> QED
      BY <3>2, <3>3 DEF ProvenInv
  <2> QED
    BY <2>1, <2>2, <2>3 DEF Next
<1> QED
  BY <1>1, <1>2, TypeCorrect, ScheduleHolds, PTL DEF Spec

\* Reply and idle status that reached the row before a crash, a lost
\* connection or a failed transaction still settle it: of all steps that give
\* a row up as unknown (the worker's error paths, the reconciliation of a new
\* process) none gives up a proven one, but the forced stop that visits it.
THEOREM ProofKept == Spec => ProofNotLost
<1>1. ASSUME TypeOK, ScheduleInv, ProvenInv, [Next]_allVars, NEW e \in Executions,
             state[e] \in ActiveStates, Proven(e), state'[e] = "unknown"
      PROVE  lpc = "force" /\ work = e
  <2>0. /\ state \in [Executions -> ExecStates] /\ e \in Active /\ state[e] # "unknown"
        /\ state[e] \in {"running", "disconnected"}
    BY <1>1 DEF TypeOK, StoreTypeOK, Active, ActiveStates, ProvenInv, Fresh, Proven
  <2>1. CASE WorkerStep
    <3>1. CASE CommitStep
      <4>1. e = cur /\ target = "unknown" /\ pc = "commit"
        BY <1>1, <2>0, <3>1 DEF CommitStep, TransitionExecution, storeVars
      <4>2. lpc \notin {"down", "reconcile"}
        BY <1>1, <4>1 DEF ScheduleInv, Reconciled
      <4> QED
        BY <1>1, <2>0, <4>1, <4>2 DEF ProvenInv, Settling, Concluding, Abandoned
    <3>2. CASE DisconnectStep \/ ConfirmStep \/ BeginDispatchStep
      BY <1>1, <2>0, <3>2 DEF DisconnectStep, TransitionExecution, ConfirmStep, ConfirmDispatch,
                        BeginDispatchStep, BeginDispatch, storeVars
    <3>3. CASE UNCHANGED state
      BY <1>1, <2>0, <3>3
    <3> QED
      BY <2>1, <3>1, <3>2, <3>3
         DEF WorkerStep, Worker, TakeItem, ReadRow, ReadSource, ConnectForRun, RegisterConnection,
             Send, Loop, Expire, RequestTimeout, NextEvent, AppendStep, AppendOutput,
             EvidenceStep, RecordEvidence, RecoverRead, ConnectForRecovery, SendBoundary,
             HandleStep, MarkStep, MarkOutputIncomplete, RereadStep, FinalizeStep,
             FinalizeOutput, DropStep, RecheckStep, storeVars
  <2>2. CASE RoutineStep
    <3>1. CASE RoutineCommit
      <4>1. e = work /\ goal = "unknown" /\ step = "commit"
        BY <1>1, <2>0, <3>1 DEF RoutineCommit, TransitionExecution, storeVars
      <4>2. lpc \in {"reconcile", "force"}
        BY <1>1, <4>1 DEF TypeOK, LoopTypeOK
      <4>3. lpc = "reconcile" => pc = "idle"
        BY <1>1 DEF ScheduleInv, Reconciled
      <4> QED
        BY <1>1, <2>0, <4>1, <4>2, <4>3 DEF ProvenInv, Settling, Concluding, Abandoned
    <3>2. CASE RoutineDisconnect
      BY <1>1, <2>0, <3>2 DEF RoutineDisconnect, TransitionExecution, storeVars
    <3> QED
      BY <1>1, <2>0, <2>2, <3>1, <3>2
         DEF RoutineStep, ReconcileRow, ForceRow, RoutineMark, MarkOutputIncomplete, RoutineRead,
             RoutineFinalize, FinalizeOutput, RoutineRaises, storeVars
  <2>3. CASE LoopStep /\ ~RoutineStep
    BY <1>1, <2>0, <2>3 DEF LoopStep, StartNew, CreateExecution, StartAgain, Submit, Cancel,
       RequestCancel, Boot, Resume, ForceStop, ForceDone, StopWhenIdle, CloseCoordinator, Exit,
       Crash, CrashInTransaction, LoopOnly, storeVars
  <2>4. CASE KernelStep \/ LinkStep \/ UNCHANGED allVars
    BY <1>1, <2>0, <2>4 DEF KernelStep, LinkStep, allVars, vars, storeVars
  <2> QED
    BY <1>1, <2>1, <2>2, <2>3, <2>4 DEF Next
<1>2. TypeOK /\ ScheduleInv /\ ProvenInv /\ [Next]_allVars =>
        [\A e \in Executions :
           /\ state[e] \in ActiveStates
           /\ ev[e].reply # "none" /\ ev[e].idle
           /\ state'[e] = "unknown"
           => lpc = "force" /\ work = e]_state
  BY <1>1 DEF Proven
<1> QED
  BY <1>2, TypeCorrect, ScheduleHolds, ProvenHolds, PTL DEF Spec, ProofNotLost
=============================================================================
