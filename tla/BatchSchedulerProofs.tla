------------------------ MODULE BatchSchedulerProofs ------------------------
(***************************************************************************)
(* No member of a batch is sent twice, for any number of batches, members, *)
(* standalone executions and disturbances.  MemberSentOnce needs one more  *)
(* fact to be inductive: a batch without a parent row has no member rows,  *)
(* so that creating it queues no row that was sent before.  BatchProof     *)
(* follows the parent, the place in its loop and the children the worker   *)
(* left; from it, a settled parent's verdict agrees with its members       *)
(* (BatchInv), and members are dispatched in order (ChildOrder).           *)
(***************************************************************************)
EXTENDS BatchScheduler, FiniteSetTheorems, SequenceTheorems, TLAPS

RowTypes ==
  /\ bstate \in [Batches -> {"absent"} \cup BatchActive \cup BatchTerminal]
  /\ state \in [Executions -> ExecStates]
  /\ sent \in [Executions -> Nat]

NoEarlyMembers ==
  \A b \in Batches : bstate[b] = "absent" =>
    \A e \in MembersOf(b) : state[e] = "absent"

SentInv == RowTypes /\ NoEarlyMembers /\ MemberSentOnce

-----------------------------------------------------------------------------
\* The state that a batch action commits to a row belongs to the schema.
LEMMA RowStates ==
  /\ TerminalStates \cup ActiveStates \cup {"absent", "queued"} = ExecStates
  /\ "queued" \notin TerminalStates \cup ActiveStates
  /\ "absent" \notin TerminalStates \cup ActiveStates
  BY DEF ExecStates, TerminalStates, ActiveStates

\* Members are executions.
LEMMA MembersAreRows == \A b \in Batches : MembersOf(b) \subseteq Executions
  BY BatchAssumption DEF MembersOf

\* set_batch_state keeps the invariant for every state but "absent".
LEMMA ParentKept ==
  ASSUME SentInv, NEW b, NEW s \in BatchActive \cup BatchTerminal,
         SetBatchState(b, s), sent' = sent
  PROVE  SentInv'
  BY DEF SentInv, RowTypes, NoEarlyMembers, MemberSentOnce, SetBatchState,
     BatchActive, BatchTerminal

\* A commit that takes a row from the queue or from an active state to a
\* settled one keeps it, if an active row is interrupted only after a cancel.
LEMMA RowSettled ==
  ASSUME SentInv, NEW e, NEW s, SetState(e, s), sent' = sent,
         \/ s = state[e]
         \/ /\ state[e] # "absent" /\ s \in ExecStates \ {"absent", "queued"}
            /\ s = "interrupted" => state[e] = "queued" \/ e \in intent
  PROVE  SentInv'
<1> USE DEF SentInv, RowTypes, NoEarlyMembers, MemberSentOnce, SetState
<1>1. CASE s = state[e] \/ e \notin Executions
  <2>1. state' = state
    BY <1>1
  <2> QED
    BY <2>1
<1>2. CASE /\ e \in Executions
           /\ state[e] # "absent" /\ s \in ExecStates \ {"absent", "queued"}
           /\ s = "interrupted" => state[e] = "queued" \/ e \in intent
  <2>1. RowTypes' /\ MemberSentOnce'
    BY <1>2
  <2>2. NoEarlyMembers'
    BY <1>2, MembersAreRows
  <2> QED
    BY <2>1, <2>2
<1> QED
  BY <1>1, <1>2

\* request_execution_cancel keeps it.
LEMMA RowCancelled ==
  ASSUME SentInv, NEW e, CancelRow(e), sent' = sent
  PROVE  SentInv'
<1> USE DEF SentInv, RowTypes, NoEarlyMembers, MemberSentOnce, CancelRow
<1>1. RowTypes' /\ MemberSentOnce'
  BY RowStates DEF TerminalStates
<1>2. NoEarlyMembers'
  BY MembersAreRows
<1> QED
  BY <1>1, <1>2

\* A step that leaves the rows alone keeps it.
LEMMA RowsUntouched ==
  ASSUME SentInv, UNCHANGED <<bstate, state, intent, sent>>
  PROVE  SentInv'
  BY DEF SentInv, RowTypes, NoEarlyMembers, MemberSentOnce
-----------------------------------------------------------------------------
\* The accepted batch: its members are rows for the first time.
LEMMA BatchAccepted ==
  ASSUME SentInv, NEW b \in Batches, StartBatch(b)
  PROVE  SentInv'
<1> USE DEF SentInv, StartBatch
<1>1. RowTypes'
  BY RowStates DEF RowTypes, BatchActive
<1>2. MemberSentOnce'
  BY MembersAreRows DEF RowTypes, NoEarlyMembers, MemberSentOnce
<1>3. NoEarlyMembers'
  BY BatchAssumption, MembersAreRows DEF RowTypes, NoEarlyMembers
<1> QED
  BY <1>1, <1>2, <1>3

\* A standalone execution belongs to no batch.
LEMMA OneAccepted ==
  ASSUME SentInv, NEW e \in Executions, StartOne(e)
  PROVE  SentInv'
<1> USE DEF SentInv, StartOne
<1>1. RowTypes' /\ MemberSentOnce'
  BY RowStates DEF RowTypes, MemberSentOnce
<1>2. NoEarlyMembers'
  BY MembersAreRows DEF RowTypes, NoEarlyMembers, Standalone, IsMember
<1> QED
  BY <1>1, <1>2

\* Reconciliation after a restart never queues a row again.
LEMMA Restarted ==
  ASSUME SentInv, Boot \/ BootFails
  PROVE  SentInv'
<1>1. PICK rows \in [Executions -> ExecStates] :
        /\ \A e \in Executions : rows[e] \in {state[e]} \cup Reconciled(e)
        /\ state' = rows
  BY DEF Boot, BootFails
<1>2. \A e \in Executions :
        \/ state'[e] = state[e]
        \/ /\ state[e] \in ActiveStates
           /\ state'[e] \in ExecStates \ {"absent", "queued"}
           /\ state'[e] = "interrupted" => e \in intent
  BY <1>1 DEF Reconciled, Provable, ActiveStates, ExecStates, TerminalStates
<1>3. UNCHANGED <<bstate, intent, sent>>
  BY DEF Boot, BootFails
<1>4. RowTypes'
  BY <1>1, <1>3 DEF SentInv, RowTypes
<1>5. MemberSentOnce'
  BY <1>2, <1>3, RowStates DEF SentInv, MemberSentOnce
<1>6. NoEarlyMembers'
  BY <1>2, <1>3, RowStates, MembersAreRows DEF SentInv, NoEarlyMembers
<1> QED
  BY <1>4, <1>5, <1>6 DEF SentInv

-----------------------------------------------------------------------------
\* An exception of _run_one settles a standalone row and no member.
LEMMA Raised ==
  ASSUME SentInv, ChildRaises, sent' = sent
  PROVE  SentInv'
<1>1. CASE batch # None
  BY <1>1, RowsUntouched DEF ChildRaises, rowVars
<1>2. CASE batch = None
  <2>1. CASE state[child] = "queued"
    BY <1>2, <2>1, RowSettled DEF ChildRaises, ExecStates, TerminalStates
  <2>2. CASE state[child] \in ActiveStates
    <3>1. SetState(child, "unknown")
      BY <1>2, <2>2, RowStates DEF ChildRaises
    <3> QED
      BY <2>2, <3>1, RowSettled, RowStates DEF TerminalStates
  <2>3. CASE state[child] # "queued" /\ state[child] \notin ActiveStates
    BY <1>2, <2>3, RowSettled DEF ChildRaises
  <2> QED
    BY <2>1, <2>2, <2>3
<1> QED
  BY <1>1, <1>2

\* The verdict that the batch loop commits is always a verdict.
LEMMA FinalVerdict ==
  ASSUME final \in BatchTerminal, Next
  PROVE  final' \in BatchTerminal
<1> USE DEF BatchTerminal
<1>1. CASE Worker
  BY <1>1 DEF Worker, TakeItem, Begin, Watch, Event, OpenBatch, StartRunning,
     NextMember, AfterMember, StopRead, StopCommit, BatchStopped, BatchFailed,
     CloseBatch, FinishBatch, Settles, TornRaises, ChildReturns, ChildRaises,
     Released, Go
<1>2. CASE Server
  BY <1>2 DEF Server, StartBatch, CancelBatch, StartOne, CancelOne, Submit,
     CancelParent, CancelMember, ForceStop, ForceRow, ForceRaises, ForceDone,
     StopWhenIdle, CloseCoordinator, Exit, Crash, CrashInAppend, CrashInCancel,
     Boot, BootFails, ProcessEnds, Released, ServerOnly, batchVars
<1> QED
  BY <1>1, <1>2 DEF Next

\* What _run_one does to the member's row up to its dispatch: it is sent only
\* in the transaction's aftermath that took it from the queue.
LEMMA Dispatched ==
  ASSUME SentInv, Begin
  PROVE  SentInv'
<1>1. CASE /\ state[child] = "queued" /\ SetState(child, "dispatching")
           /\ sent' = [sent EXCEPT ![child] = @ + 1]
  <2> USE <1>1 DEF SentInv, SetState
  <2>1. RowTypes'
    <3>1. state' \in [Executions -> ExecStates]
      BY RowStates DEF RowTypes, ActiveStates
    <3>2. sent' \in [Executions -> Nat]
      <4>1. CASE child \in Executions
        BY <4>1 DEF RowTypes
      <4>2. CASE child \notin Executions
        <5>1. sent' = sent
          BY <4>2 DEF RowTypes
        <5> QED
          BY <5>1 DEF RowTypes
      <4> QED
        BY <4>1, <4>2
    <3> QED
      BY <3>1, <3>2 DEF RowTypes
  <2>2. \A e \in Executions :
          /\ e # child => state'[e] = state[e] /\ sent'[e] = sent[e]
          /\ e = child => state'[e] = "dispatching" /\ sent'[e] = sent[e] + 1
    BY DEF RowTypes
  <2>3. MemberSentOnce'
    BY <2>2 DEF RowTypes, MemberSentOnce
  <2>4. NoEarlyMembers'
    BY MembersAreRows DEF RowTypes, NoEarlyMembers
  <2> QED
    BY <2>1, <2>3, <2>4
<1>2. CASE /\ state[child] = "queued" /\ SetState(child, "interrupted")
           /\ sent' = sent
  BY <1>2, RowSettled DEF ExecStates, TerminalStates
<1>3. CASE ChildRaises /\ sent' = sent
  BY <1>3, Raised
<1>4. CASE UNCHANGED <<rowVars, sent>>
  BY <1>4, RowsUntouched DEF rowVars
<1> QED
  BY <1>1, <1>2, <1>3, <1>4 DEF Begin

\* What an observed event makes of the child: its row moves on, or it is settled
\* by the proof rules and the call returns, or it is left ...
Proceeds ==
  /\ Go("watch")
  /\ \/ state[child] = "dispatching" /\ SetState(child, "running")
     \/ state[child] = "running" /\ SetState(child, "disconnected")
Concludes ==
  /\ state[child] \in ActiveStates /\ ChildReturns
  /\ \E s \in TerminalStates :
       SetState(child, s) /\ (s = "interrupted" => child \in intent)
Leaves == state[child] \in ActiveStates /\ ChildReturns /\ Leave(child)

\* ... or its spool is torn, or nothing new is known of it, or it was settled
\* behind the loop's back.
GivesUp ==
  /\ batch # None /\ state[child] \in ActiveStates /\ Leave(child)
  /\ pc' = "failed" /\ failing' = TRUE /\ child' = None
  /\ UNCHANGED <<batch, pos, spos, saw, final>>
Dies ==
  batch = None /\ state[child] = "disconnected" /\ Released("dead") /\ UNCHANGED rowVars
Waits == Go("watch") /\ (Heals \/ UNCHANGED rowVars)
Surprised == state[child] \in TerminalStates /\ ChildRaises

\* These are all the outcomes of an event.
LEMMA EventOutcome ==
  ASSUME Event
  PROVE  Proceeds \/ Concludes \/ Leaves \/ GivesUp \/ Dies \/ Waits \/ Surprised
<1> USE DEF TerminalStates, ActiveStates
<1>1. CASE state[child] = "dispatching" /\ SetState(child, "running") /\ Go("watch")
  BY <1>1 DEF Proceeds
<1>2. CASE state[child] \in {"dispatching", "disconnected"} /\ Settles("unknown")
  BY <1>2 DEF Concludes, Settles
<1>3. CASE /\ state[child] \in {"running", "disconnected"}
           /\ \E s \in Provable(child) : Settles(s)
  <2>1. PICK s \in Provable(child) : Settles(s)
    BY <1>3
  <2>2. s \in TerminalStates /\ (s = "interrupted" => child \in intent)
    BY DEF Provable
  <2> QED
    BY <1>3, <2>1, <2>2 DEF Concludes, Settles
<1>4. CASE state[child] = "disconnected" /\ TornRaises
  BY <1>4 DEF TornRaises, GivesUp, Dies
<1>5. CASE state[child] = "running" /\ SetState(child, "disconnected") /\ Go("watch")
  BY <1>5 DEF Proceeds
<1>6. CASE /\ child \in intent /\ state[child] \in ActiveStates /\ ChildReturns
           /\ IF state[child] = "dispatching" THEN Leave(child) ELSE SetState(child, "unknown")
  BY <1>6 DEF Leaves, Concludes
<1>7. CASE Go("watch") /\ (Heals \/ UNCHANGED rowVars)
  BY <1>7 DEF Waits
<1>8. CASE state[child] \in TerminalStates /\ ChildRaises
  BY <1>8 DEF Surprised
<1> QED
  BY <1>1, <1>2, <1>3, <1>4, <1>5, <1>6, <1>7, <1>8 DEF Event

\* What the observation loops do to it: the outcomes of the proof rules.
LEMMA Observed ==
  ASSUME SentInv, Event
  PROVE  SentInv'
<1> USE DEF ExecStates, ActiveStates, TerminalStates
<1>0. sent' = sent
  BY DEF Event
<1>1. CASE Proceeds
  BY <1>0, <1>1, RowSettled DEF Proceeds
<1>2. CASE Concludes
  <2>1. PICK s \in TerminalStates :
          SetState(child, s) /\ (s = "interrupted" => child \in intent)
    BY <1>2 DEF Concludes
  <2> QED
    BY <1>0, <1>2, <2>1, RowSettled DEF Concludes
<1>3. CASE Leaves \/ GivesUp \/ Dies \/ Waits
  BY <1>0, <1>3, RowsUntouched DEF Leaves, GivesUp, Dies, Waits, Leave, Heals, rowVars
<1>4. CASE Surprised
  BY <1>0, <1>4, Raised DEF Surprised
<1> QED
  BY <1>1, <1>2, <1>3, <1>4, EventOutcome

\* A step of the worker keeps the invariant.
LEMMA WorkerStep ==
  ASSUME SentInv, final \in BatchTerminal, Worker
  PROVE  SentInv'
<1>1. CASE Begin
  BY <1>1, Dispatched
<1>2. CASE Event
  BY <1>2, Observed
<1>3. CASE StartRunning \/ BatchStopped
  BY <1>3, ParentKept DEF StartRunning, BatchStopped, BatchActive, BatchTerminal
<1>4. CASE FinishBatch
  BY <1>4, ParentKept DEF FinishBatch
<1>5. CASE StopCommit
  BY <1>5, RowSettled, RowsUntouched
     DEF StopCommit, rowVars, ExecStates, TerminalStates
<1>6. CASE TakeItem \/ Watch \/ OpenBatch \/ NextMember \/ AfterMember
           \/ StopRead \/ BatchFailed \/ CloseBatch
  BY <1>6, RowsUntouched DEF TakeItem, Watch, OpenBatch, NextMember, AfterMember,
     StopRead, BatchFailed, CloseBatch, Leave, rowVars
<1> QED
  BY <1>1, <1>2, <1>3, <1>4, <1>5, <1>6 DEF Worker

\* A step of the event loop, a crash and a restart keep it.
LEMMA ServerStep ==
  ASSUME SentInv, Server
  PROVE  SentInv'
<1>1. CASE \E b \in Batches : StartBatch(b)
  BY <1>1, BatchAccepted
<1>2. CASE \E e \in Executions : StartOne(e)
  BY <1>2, OneAccepted
<1>3. CASE \E e \in Executions : CancelOne(e)
  BY <1>3, RowCancelled DEF CancelOne
<1>4. CASE CancelParent
  BY <1>4, ParentKept DEF CancelParent, BatchActive
<1>5. CASE CancelMember
  BY <1>5, RowCancelled, RowsUntouched DEF CancelMember, rowVars
<1>6. CASE ForceRow
  <2>1. PICK e \in todo :
          SetState(e, IF state[e] \in ActiveStates THEN "unknown" ELSE state[e])
    BY <1>6 DEF ForceRow
  <2> QED
    BY <1>6, <2>1, RowSettled DEF ForceRow, ExecStates, ActiveStates, TerminalStates
<1>7. CASE Boot \/ BootFails
  BY <1>7, Restarted
<1>8. CASE \/ \E b \in Batches : CancelBatch(b)
           \/ Submit \/ ForceStop \/ ForceRaises \/ ForceDone \/ StopWhenIdle
           \/ CloseCoordinator \/ Exit \/ Crash \/ CrashInAppend \/ CrashInCancel
  BY <1>8, RowsUntouched DEF CancelBatch, Submit, ForceStop, ForceRaises, ForceDone,
     StopWhenIdle, CloseCoordinator, Exit, Crash, CrashInAppend, CrashInCancel,
     ProcessEnds, rowVars
<1> QED
  BY <1>1, <1>2, <1>3, <1>4, <1>5, <1>6, <1>7, <1>8 DEF Server

\* create_batch_executions, begin_dispatch, reconcile_after_restart: no member
\* of a batch is ever sent twice, however stops, crashes, cancels and restarts
\* interleave with the batch loop.
THEOREM MembersSentOnce == Spec => []MemberSentOnce
<1> DEFINE IInv == SentInv /\ final \in BatchTerminal
<1>1. Init => IInv
  BY RowStates, MembersAreRows DEF Init, SentInv, RowTypes, NoEarlyMembers,
     MemberSentOnce, BatchTerminal
<1>2. IInv /\ [Next]_vars => IInv'
  <2> SUFFICES ASSUME SentInv, final \in BatchTerminal, [Next]_vars
               PROVE  SentInv' /\ final' \in BatchTerminal
    OBVIOUS
  <2>1. CASE UNCHANGED vars
    BY <2>1, RowsUntouched DEF vars, rowVars, batchVars
  <2>2. CASE Next
    BY <2>2, WorkerStep, ServerStep, FinalVerdict DEF Next
  <2> QED
    BY <2>1, <2>2
<1>3. IInv => MemberSentOnce
  BY DEF SentInv
<1> QED
  BY <1>1, <1>2, <1>3, PTL DEF Spec

-----------------------------------------------------------------------------
(***************************************************************************)
(* The second result: the batch loop's verdicts and its order.  BatchProof *)
(* follows the loop: how far it is, what it has passed, why it stops, and  *)
(* that no other member runs, but for those that the worker left.          *)
(***************************************************************************)
Loop == {"member", "begin", "watch", "event", "after"}
InBatch == {"open", "start", "member", "after", "stopread", "stopcommit", "stopped",
            "failed", "close", "final"}
Running == {"begin", "watch", "event"}
Stop == {"stopread", "stopcommit", "stopped"}
Waiting == {"queued", "interrupted"}

\* Where the loop is, and on what.
Shape ==
  /\ batch = None => pos = 1 /\ ~saw /\ ~failing
  /\ pc \in {"idle", "exited", "dead"} => batch = None /\ child = None
  /\ pc \in InBatch => batch \in Batches
  /\ batch \in Batches => bstate[batch] # "absent" /\ pos \in 1..(Len(Members[batch]) + 1)
  /\ batch \in Batches /\ pc \notin {"open", "start"} => bstate[batch] # "queued"
  /\ batch \in Batches /\ pc # "open" => bstate[batch] \notin BatchTerminal
  /\ pc \in Running =>
       /\ child \in Executions
       /\ batch \in Batches => pos \in DOMAIN Members[batch] /\ child = Members[batch][pos]
  /\ pc = "begin" /\ batch = None => child \in Standalone
  /\ pc = "after" => pos \in DOMAIN Members[batch]
  /\ pc \in {"open", "start"} => pos = 1 /\ ~saw
  /\ pc \in {"close", "final"} => pos > Len(Members[batch])
  /\ pc \in Stop => spos \in 1..(Len(Members[batch]) + 1)
  /\ pc = "stopcommit" => spos \in DOMAIN Members[batch]
  /\ pc = "stopped" => spos > Len(Members[batch])

\* What the worker's queue may hold.
Queueable(i) ==
  /\ i.kind = "batch" => i.id \in Batches /\ bstate[i.id] # "absent"
  /\ i.kind = "execute" => i.id \in Standalone
  /\ i.kind = "recover" => i.id \in Executions

\* What the event loop is about to do.
EventLoop ==
  /\ \A i \in 1..Len(fifo) : Queueable(fifo[i])
  /\ lpc = "submit" => job \in Standalone \/ (job \in Batches /\ bstate[job] # "absent")
  /\ lpc = "cancel" => job \in Batches /\ bstate[job] # "absent"
  /\ lpc = "down" => pc = "idle" /\ fifo = <<>>

\* A parent and its members are created together, a settled parent leaves no
\* member queued, and an unstarted one has none that was dispatched.  What the
\* worker left had been dispatched.
Parents ==
  /\ \A b \in Batches :
       /\ bstate[b] = "absent" => \A e \in MembersOf(b) : state[e] = "absent"
       /\ bstate[b] # "absent" => \A e \in MembersOf(b) : state[e] # "absent"
       /\ bstate[b] \in BatchTerminal => \A e \in MembersOf(b) : state[e] # "queued"
       /\ bstate[b] = "cancelling" => b \in requested
       /\ bstate[b] = "queued" \/ (pc = "start" /\ b = batch) =>
            \A e \in MembersOf(b) : state[e] \in Waiting
  /\ \A e \in left : state[e] \notin {"absent", "queued"}

\* What may have happened to the child behind the loop's back.
Child ==
  /\ pc = "begin" => state[child] \in Waiting
  /\ pc \in {"watch", "event"} =>
       state[child] \in ActiveStates \cup Failures

Settled(e) ==
  /\ state[e] \notin {"absent", "queued"}
  /\ state[e] \in TerminalStates \/ e \in left
SomeFailed == \E e \in MembersOf(batch) : state[e] \in Failures
SomeLeft == \E e \in MembersOf(batch) : e \in left
LeftFrom(b, i, j) == \E k \in i..j : Members[b][k] \in left

\* What the loop has passed, and what it makes of it.
Progress == batch \in Batches =>
  /\ \A i \in 1..(pos - 1) :
       /\ Settled(Members[batch][i])
       /\ ~saw => state[Members[batch][i]] = "finished" \/ Members[batch][i] \in left
  /\ pc = "after" => Settled(Members[batch][pos])
  /\ saw => SomeFailed
  /\ saw /\ pc \in Loop => batch \in cont \/ bstate[batch] = "cancelling"
  /\ pc = "final" => /\ final = "interrupted" => batch \in requested
                     /\ final = "error" => saw
                     /\ final = "finished" => ~saw
  /\ pc \in Running =>
       \A j \in (pos + 1)..Len(Members[batch]) :
         state[Members[batch][j]] \in ActiveStates => LeftFrom(batch, pos, j)

\* A batch is stopped for a reason that will show, and what is still active
\* comes after a member that was left.
Stopping ==
  /\ pc \in Stop => \A i \in 1..(spos - 1) : state[Members[batch][i]] \notin {"absent", "queued"}
  /\ pc \in Stop \cup {"failed"} =>
       \A j \in 1..Len(Members[batch]) :
         state[Members[batch][j]] \in ActiveStates => LeftFrom(batch, 1, j)
  /\ pc = "stopcommit" => state[Members[batch][spos]] \in Waiting
  /\ pc = "failed" => \/ SomeFailed \/ SomeLeft
                      \/ \E e \in MembersOf(batch) : state[e] = "queued"
  /\ pc \in {"stopread", "stopcommit"} =>
       \/ SomeFailed \/ SomeLeft
       \/ \E i \in spos..Len(Members[batch]) : state[Members[batch][i]] = "queued"
  /\ pc = "stopped" => SomeFailed \/ SomeLeft

\* An active member that was not left comes after passed ones, and only the
\* child runs.
InOrderOf(b, j) ==
  state[Members[b][j]] \in ActiveStates /\ Members[b][j] \notin left =>
    /\ \A i \in 1..(j - 1) :
         /\ Passed(Members[b][i])
         /\ \/ state[Members[b][i]] = "finished" \/ Members[b][i] \in left
            \/ b \in cont \/ bstate[b] \in {"cancelling"} \cup BatchTerminal
    /\ lpc # "down" /\ state[Members[b][j]] \in {"dispatching", "running"} =>
         pc \in {"watch", "event"} /\ child = Members[b][j]
Strict == \A b \in Batches : \A j \in DOMAIN Members[b] : InOrderOf(b, j)

\* The verdict of one parent.
VerdictOf(b) ==
  /\ bstate[b] \in BatchTerminal => \A j \in DOMAIN Members[b] :
       state[Members[b][j]] \in TerminalStates \/ LeftFrom(b, 1, j)
  /\ bstate[b] = "finished" => \A e \in MembersOf(b) : state[e] = "finished" \/ e \in left
  /\ bstate[b] = "error" => \E e \in MembersOf(b) : state[e] \in Failures \/ e \in left
  /\ bstate[b] = "interrupted" => b \in requested

BatchProof ==
  /\ TypeOK /\ Shape /\ EventLoop
  /\ Parents /\ Child /\ Progress /\ Stopping /\ Strict /\ BatchVerdict

\* Members are numbered, and a row belongs to one batch at one place.
LEMMA MemberPlaces ==
  /\ \A b \in Batches :
       /\ Members[b] \in Seq(Executions) /\ Len(Members[b]) \in Nat
       /\ DOMAIN Members[b] = 1..Len(Members[b])
       /\ \A i \in 1..Len(Members[b]) : Members[b][i] \in Executions
             /\ Members[b][i] \in MembersOf(b)
       /\ \A e \in MembersOf(b) : \E i \in 1..Len(Members[b]) : e = Members[b][i]
  /\ \A b, c \in Batches : \A e \in MembersOf(b) : e \in MembersOf(c) => b = c
  /\ \A b \in Batches : \A i, j \in 1..Len(Members[b]) : Members[b][i] = Members[b][j] => i = j
  /\ \A b \in Batches : \A e \in MembersOf(b) : e \in Executions /\ e \notin Standalone
  /\ None \notin Batches /\ None \notin Executions
<1>1. ASSUME NEW b \in Batches
      PROVE  /\ Members[b] \in Seq(Executions) /\ Len(Members[b]) \in Nat
             /\ DOMAIN Members[b] = 1..Len(Members[b])
  BY BatchAssumption
<1>2. ASSUME NEW b \in Batches
      PROVE  /\ \A i \in 1..Len(Members[b]) : Members[b][i] \in Executions
                 /\ Members[b][i] \in MembersOf(b)
             /\ \A e \in MembersOf(b) : \E i \in 1..Len(Members[b]) : e = Members[b][i]
  BY <1>1 DEF MembersOf
<1>3. \A b, c \in Batches : \A e \in MembersOf(b) : e \in MembersOf(c) => b = c
  BY BatchAssumption
<1>4. \A b \in Batches : \A i, j \in 1..Len(Members[b]) : Members[b][i] = Members[b][j] => i = j
  BY <1>1, BatchAssumption
<1>5. \A b \in Batches : \A e \in MembersOf(b) : e \in Executions /\ e \notin Standalone
  BY <1>2 DEF Standalone, IsMember
<1>6. None \notin Batches /\ None \notin Executions
  BY BatchAssumption, NoneAssumption
<1> QED BY <1>1, <1>2, <1>3, <1>4, <1>5, <1>6

\* A set in order is a sequence of its elements.
LEMMA InOrderSeq ==
  ASSUME NEW W, IsFiniteSet(W), NEW q \in InOrder(W)
  PROVE  q \in Seq(W)
<1>1. Cardinality(W) \in Nat
  BY FS_CardinalityType
<1>2. q \in [1..Cardinality(W) -> W]
  BY DEF InOrder
<1>3. q = [i \in 1..Cardinality(W) |-> q[i]] /\ \A i \in 1..Cardinality(W) : q[i] \in W
  BY <1>2
<1>4. [i \in 1..Cardinality(W) |-> q[i]] \in Seq(W)
  BY <1>1, <1>3
<1> QED BY <1>3, <1>4

\* Work put into items of a kind.
LEMMA ItemsSeq ==
  ASSUME NEW W \in SUBSET Work, NEW q \in Seq(W), NEW k \in {"batch", "execute", "recover"}
  PROVE  /\ ItemsOf(k, q) \in Seq(Items)
         /\ \A i \in 1..Len(ItemsOf(k, q)) :
              ItemsOf(k, q)[i].kind = k /\ ItemsOf(k, q)[i].id \in W
<1>1. Len(q) \in Nat /\ \A i \in 1..Len(q) : q[i] \in W
  OBVIOUS
<1>2. \A i \in 1..Len(q) : [kind |-> k, id |-> q[i]] \in Items
  BY <1>1 DEF Items
<1>3. ItemsOf(k, q) \in Seq(Items) /\ Len(ItemsOf(k, q)) = Len(q)
  BY <1>1, <1>2 DEF ItemsOf
<1>4. ASSUME NEW i \in 1..Len(q)
      PROVE  ItemsOf(k, q)[i].kind = k /\ ItemsOf(k, q)[i].id \in W
  BY <1>1 DEF ItemsOf
<1> QED BY <1>3, <1>4

\* What the queue of a new controller holds.
LEMMA ResumedQueue ==
  ASSUME NEW rows, NEW u \in UnfinishedParents,
         NEW v \in RowsIn(rows, "disconnected"), NEW w \in RowsIn(rows, "queued"),
         NEW q, q = Resumed(u, v, w)
  PROVE  /\ q \in Seq(Items)
         /\ \A i \in 1..Len(q) :
              \/ q[i].kind = "batch" /\ q[i].id \in Batches /\ bstate[q[i].id] \in BatchActive
              \/ /\ q[i].kind \in {"recover", "execute"} /\ q[i].id \in Executions
                 /\ ~Owned(q[i].id)
                 /\ rows[q[i].id] = IF q[i].kind = "recover" THEN "disconnected" ELSE "queued"
<1> DEFINE B == {b \in Batches : bstate[b] \in BatchActive}
           R == {e \in Executions : ~Owned(e) /\ rows[e] = "disconnected"}
           Q == {e \in Executions : ~Owned(e) /\ rows[e] = "queued"}
<1>1. /\ u \in InOrder(B) /\ v \in InOrder(R) /\ w \in InOrder(Q)
      /\ q = ItemsOf("batch", u) \o ItemsOf("recover", v) \o ItemsOf("execute", w)
  BY DEF Resumed, RowsIn, UnfinishedParents
<1>2. /\ B \subseteq Work /\ R \subseteq Work /\ Q \subseteq Work
      /\ IsFiniteSet(B) /\ IsFiniteSet(R) /\ IsFiniteSet(Q)
  BY BatchAssumption, ExecutionsAssumption, FS_Subset DEF Work
<1>3. u \in Seq(B) /\ v \in Seq(R) /\ w \in Seq(Q)
  BY <1>1, <1>2, InOrderSeq
<1> DEFINE x == ItemsOf("batch", u)  y == ItemsOf("recover", v)  z == ItemsOf("execute", w)
<1>4. /\ x \in Seq(Items) /\ \A i \in 1..Len(x) : x[i].kind = "batch" /\ x[i].id \in B
      /\ y \in Seq(Items) /\ \A i \in 1..Len(y) : y[i].kind = "recover" /\ y[i].id \in R
      /\ z \in Seq(Items) /\ \A i \in 1..Len(z) : z[i].kind = "execute" /\ z[i].id \in Q
  BY <1>2, <1>3, ItemsSeq
<1>5. q = (x \o y) \o z
  BY <1>1
<1> HIDE DEF x, y, z
<1>6. /\ x \o y \in Seq(Items) /\ Len(x \o y) = Len(x) + Len(y)
      /\ \A i \in 1..Len(x) + Len(y) : (x \o y)[i] = IF i <= Len(x) THEN x[i] ELSE y[i - Len(x)]
  BY <1>4, ConcatProperties
<1>7. /\ q \in Seq(Items) /\ Len(q) = Len(x) + Len(y) + Len(z)
      /\ \A i \in 1..Len(x) + Len(y) + Len(z) :
           q[i] = IF i <= Len(x) + Len(y) THEN (x \o y)[i] ELSE z[i - (Len(x) + Len(y))]
  BY <1>4, <1>5, <1>6, ConcatProperties
<1>8. ASSUME NEW i \in 1..Len(q)
      PROVE  \/ q[i].kind = "batch" /\ q[i].id \in B
             \/ q[i].kind = "recover" /\ q[i].id \in R
             \/ q[i].kind = "execute" /\ q[i].id \in Q
  <2>0. Len(x) \in Nat /\ Len(y) \in Nat /\ Len(z) \in Nat
    BY <1>4
  <2>1. CASE i <= Len(x)
    BY <2>0, <2>1, <1>4, <1>6, <1>7
  <2>2. CASE i > Len(x) /\ i <= Len(x) + Len(y)
    <3>1. q[i] = y[i - Len(x)] /\ i - Len(x) \in 1..Len(y)
      BY <2>0, <2>2, <1>6, <1>7
    <3> QED BY <3>1, <1>4
  <2>3. CASE i > Len(x) + Len(y)
    <3>1. q[i] = z[i - (Len(x) + Len(y))] /\ i - (Len(x) + Len(y)) \in 1..Len(z)
      BY <2>0, <2>3, <1>6, <1>7
    <3> QED BY <3>1, <1>4
  <2> QED BY <2>0, <2>1, <2>2, <2>3, <1>7
<1> QED BY <1>7, <1>8

-----------------------------------------------------------------------------
(***************************************************************************)
(* Well-formed states, in four parts.                                      *)
(***************************************************************************)
RowT ==
  /\ bstate \in [Batches -> {"absent"} \cup BatchActive \cup BatchTerminal]
  /\ cont \subseteq Batches /\ state \in [Executions -> ExecStates]
  /\ intent \subseteq Executions /\ lost \subseteq Executions
  /\ torn \subseteq Executions /\ left \subseteq Executions
  /\ faults \in 0..MaxFaults /\ requested \subseteq Batches
  /\ sent \in [Executions -> Nat]
QueueT == order \in Seq(Work) /\ fifo \in Seq(Items)
WorkT ==
  /\ pc \in {"idle", "open", "start", "member", "begin", "watch", "event", "after", "stopread",
             "stopcommit", "stopped", "failed", "close", "final", "exited", "dead"}
  /\ batch \in Batches \cup {None} /\ child \in Executions \cup {None}
  /\ pos \in Nat /\ spos \in Nat /\ saw \in BOOLEAN /\ failing \in BOOLEAN
  /\ final \in BatchTerminal
LoopT ==
  /\ stop \in BOOLEAN /\ stopping \in BOOLEAN
  /\ lpc \in {"down", "ready", "submit", "cancel", "force", "joining"}
  /\ job \in Work \cup {None} /\ cpos \in Nat /\ todo \subseteq Executions
  /\ refused \subseteq Work
Typed == RowT /\ QueueT /\ WorkT /\ LoopT

\* The four parts, and where the loop is, make the type invariant.
LEMMA TypeParts == Shape => (TypeOK <=> Typed)
<1> SUFFICES ASSUME Shape PROVE TypeOK <=> Typed
  OBVIOUS
<1>1. TypeOK => Typed
  BY DEF TypeOK, Typed, RowT, QueueT, WorkT, LoopT
<1>2. ASSUME Typed PROVE TypeOK
  <2>1. /\ pc \in {"after", "stopcommit"} => batch \in Batches
        /\ pc = "after" => pos \in DOMAIN Members[batch]
        /\ pc = "stopcommit" => spos \in DOMAIN Members[batch]
    BY DEF Shape, InBatch
  <2>2. batch \in Batches => pos <= Len(Members[batch]) + 1
    BY MemberPlaces DEF Shape
  <2> QED BY <1>2, <2>1, <2>2 DEF TypeOK, Typed, RowT, QueueT, WorkT, LoopT
<1> QED BY <1>1, <1>2

\* What a store transaction commits belongs to the schema.
LEMMA RowTyped ==
  ASSUME RowT, NEW e, NEW s,
         \/ SetState(e, s) /\ s \in ExecStates
         \/ SetBatchState(e, s) /\ s \in BatchActive \cup BatchTerminal
         \/ CancelRow(e) /\ e \in Executions
         \/ Leave(e) /\ e \in Executions
         \/ Heals \/ UNCHANGED rowVars
  PROVE  /\ bstate' \in [Batches -> {"absent"} \cup BatchActive \cup BatchTerminal]
         /\ cont' \subseteq Batches /\ state' \in [Executions -> ExecStates]
         /\ intent' \subseteq Executions /\ lost' \subseteq Executions
         /\ torn' \subseteq Executions /\ left' \subseteq Executions
<1> USE DEF RowT
<1>1. CASE SetState(e, s) /\ s \in ExecStates
  BY <1>1 DEF SetState
<1>2. CASE SetBatchState(e, s) /\ s \in BatchActive \cup BatchTerminal
  BY <1>2 DEF SetBatchState
<1>3. CASE CancelRow(e) /\ e \in Executions
  <2>1. "interrupted" \in ExecStates
    BY DEF ExecStates, TerminalStates
  <2> QED BY <1>3, <2>1 DEF CancelRow
<1>4. CASE (Leave(e) /\ e \in Executions) \/ Heals
  BY <1>4 DEF Leave, Heals
<1>5. CASE UNCHANGED rowVars
  BY <1>5 DEF rowVars
<1> QED BY <1>1, <1>2, <1>3, <1>4, <1>5

\* The states that the worker commits.
LEMMA WorkerStates ==
  /\ {"dispatching", "running", "disconnected", "interrupted", "unknown", "finished", "error",
      "timed_out", "queued", "absent"} = ExecStates
  /\ {"running", "cancelling", "error", "queued"} \subseteq BatchActive \cup BatchTerminal
  /\ "queued" \notin TerminalStates \cup ActiveStates
        /\ "absent" \notin TerminalStates \cup ActiveStates
  /\ TerminalStates \cap ActiveStates = {}
  BY DEF ExecStates, TerminalStates, ActiveStates, BatchActive, BatchTerminal

\* The worker's steps keep the rows in the schema.
LEMMA RowWorker ==
  ASSUME Typed, Shape, Worker
  PROVE  RowT'
<1>r. RowT /\ final \in BatchTerminal
  BY DEF Typed, WorkT
<1>s. requested' = requested
  BY DEF Worker, WorkerOnly, TakeItem, Begin, Watch, Event, OpenBatch, StartRunning, NextMember,
     AfterMember, StopRead, StopCommit, BatchStopped, BatchFailed, CloseBatch, FinishBatch
<1>f. faults' \in 0..MaxFaults
  <2>1. faults' = faults \/ (faults < MaxFaults /\ faults' = faults + 1)
    BY DEF Fault, Worker, TakeItem, Begin, Watch, Event, OpenBatch, StartRunning, NextMember,
       AfterMember, StopRead, StopCommit, BatchStopped, BatchFailed, CloseBatch, FinishBatch,
       Settles, TornRaises
  <2> QED BY <1>r, <2>1, BatchAssumption DEF RowT
<1>t. sent' \in [Executions -> Nat]
  <2>1. CASE Begin
    <3>1. child \in Executions
      BY <2>1 DEF Begin, Shape, Running
    <3> QED BY <2>1, <3>1, <1>r DEF Begin, RowT
  <2>2. CASE ~Begin
    <3>1. sent' = sent
      BY <2>2 DEF Worker, TakeItem, Watch, Event, OpenBatch, StartRunning, NextMember,
         AfterMember, StopRead, StopCommit, BatchStopped, BatchFailed, CloseBatch, FinishBatch
    <3> QED BY <3>1, <1>r DEF RowT
  <2> QED BY <2>1, <2>2
<1>1. \/ UNCHANGED rowVars
      \/ Heals
      \/ \E e, s : \/ SetState(e, s) /\ s \in ExecStates
                   \/ SetBatchState(e, s) /\ s \in BatchActive \cup BatchTerminal
                   \/ Leave(e) /\ e \in Executions
  <2>1. CASE TakeItem \/ OpenBatch \/ NextMember \/ AfterMember \/ StopRead
             \/ BatchFailed \/ CloseBatch
    BY <2>1 DEF TakeItem, OpenBatch, NextMember, AfterMember, StopRead, BatchFailed,
                CloseBatch
  <2>e. child \in Executions => state[child] \in ExecStates
    BY <1>r DEF RowT
  <2>h. ChildRaises => UNCHANGED rowVars \/
          \E s : SetState(child, s) /\ (s \in ExecStates \/ s = state[child])
    BY WorkerStates DEF ChildRaises
  <2>2. CASE Begin
    <3>1. child \in Executions
      BY <2>2 DEF Begin, Shape, Running
    <3> QED BY <2>2, <3>1, <2>e, <2>h, WorkerStates DEF Begin
  <2>3. CASE Event
    <3>1. child \in Executions
      BY <2>3 DEF Event, Shape, Running
    <3>2. TerminalStates \subseteq ExecStates
      BY DEF ExecStates
    <3> QED BY <2>3, <3>1, <3>2, <2>e, <2>h, WorkerStates, EventOutcome
            DEF Proceeds, Concludes, Leaves, GivesUp, Dies, Waits, Surprised
  <2>4. CASE StopCommit
    BY <2>4, WorkerStates DEF StopCommit
  <2>5. CASE StartRunning
    BY <2>5, WorkerStates DEF StartRunning
  <2>6. CASE BatchStopped
    BY <2>6, WorkerStates DEF BatchStopped
  <2>7. CASE FinishBatch
    BY <2>7, <1>r DEF FinishBatch
  <2>8. CASE Watch
    BY <2>8 DEF Watch, Shape, Running
  <2> QED BY <2>1, <2>2, <2>3, <2>4, <2>5, <2>6, <2>7, <2>8 DEF Worker
<1>2. /\ bstate' \in [Batches -> {"absent"} \cup BatchActive \cup BatchTerminal]
      /\ cont' \subseteq Batches /\ state' \in [Executions -> ExecStates]
      /\ intent' \subseteq Executions /\ lost' \subseteq Executions
      /\ torn' \subseteq Executions /\ left' \subseteq Executions
  BY <1>1, <1>r, RowTyped
<1> QED BY <1>2, <1>s, <1>f, <1>t, <1>r DEF RowT

\* The event loop's steps keep them there.
LEMMA RowServer ==
  ASSUME Typed, Shape, EventLoop, Server
  PROVE  RowT'
<1>r. RowT
  BY DEF Typed
<1>f. ASSUME NEW k, Fault(k) PROVE faults' \in 0..MaxFaults
  BY <1>r, <1>f, BatchAssumption DEF Fault, RowT
<1> USE DEF batchVars, serverVars, ServerOnly
<1>1. CASE \E b \in Batches : StartBatch(b)
  <2>1. PICK b \in Batches : StartBatch(b)
    BY <1>1
  <2>2. UNCHANGED <<intent, lost, torn, left, faults, requested, sent>>
    BY <2>1 DEF StartBatch
  <2>3. bstate' \in [Batches -> {"absent"} \cup BatchActive \cup BatchTerminal]
    BY <2>1, <1>r DEF StartBatch, RowT, BatchActive
  <2>4. cont' \subseteq Batches
    BY <2>1, <1>r DEF StartBatch, RowT
  <2>5. state' \in [Executions -> ExecStates]
    BY <2>1, <1>r, WorkerStates DEF StartBatch, RowT
  <2> QED BY <2>2, <2>3, <2>4, <2>5, <1>r DEF RowT
<1>2. CASE \E e \in Executions : StartOne(e)
  <2>1. PICK e \in Executions : StartOne(e)
    BY <1>2
  <2>2. state' \in [Executions -> ExecStates]
    BY <2>1, <1>r, WorkerStates DEF StartOne, RowT
  <2> QED BY <2>1, <2>2, <1>f, <1>r DEF StartOne, RowT
<1>3. CASE \E e \in Executions : CancelOne(e)
  <2>1. PICK e \in Executions : CancelOne(e)
    BY <1>3
  <2> QED BY <2>1, <1>r, RowTyped DEF CancelOne, RowT
<1>4. CASE CancelParent
  <2>1. SetBatchState(job, "cancelling") /\ UNCHANGED <<faults, sent>>
        /\ requested' = requested \cup {job}
    BY <1>4 DEF CancelParent
  <2>2. job \in Batches
    BY <1>4 DEF CancelParent, EventLoop
  <2> QED BY <2>1, <2>2, <1>r, RowTyped, WorkerStates DEF RowT
<1>5. CASE CancelMember
  <2>1. UNCHANGED <<faults, requested, sent>>
    BY <1>5 DEF CancelMember
  <2>2. CASE cpos <= Len(Members[job])
    <3>1. CancelRow(Members[job][cpos]) /\ job \in Batches /\ cpos > 0 /\ cpos \in Nat
      BY <1>5, <2>2 DEF CancelMember, EventLoop, Typed, LoopT
    <3>2. Members[job][cpos] \in Executions
      BY <2>2, <3>1, MemberPlaces
    <3> QED BY <2>1, <3>1, <3>2, <1>r, RowTyped DEF RowT
  <2>3. CASE ~(cpos <= Len(Members[job]))
    BY <2>1, <2>3, <1>5, <1>r DEF CancelMember, rowVars, RowT
  <2> QED BY <2>2, <2>3
<1>6. CASE ForceRow
  <2>1. PICK e \in todo :
          SetState(e, IF state[e] \in ActiveStates THEN "unknown" ELSE state[e])
    BY <1>6 DEF ForceRow
  <2>2. e \in Executions
    BY DEF Typed, LoopT
  <2>3. (IF state[e] \in ActiveStates THEN "unknown" ELSE state[e]) \in ExecStates
    BY <2>2, <1>r, WorkerStates DEF RowT
  <2>4. UNCHANGED <<faults, requested, sent>>
    BY <1>6 DEF ForceRow
  <2> QED BY <2>1, <2>3, <2>4, <1>r, RowTyped DEF RowT
<1>7. CASE Boot \/ BootFails
  <2>1. /\ state' \in [Executions -> ExecStates]
        /\ UNCHANGED <<bstate, cont, intent, lost, torn, left, faults, requested, sent>>
    BY <1>7 DEF Boot, BootFails
  <2> QED BY <2>1, <1>r DEF RowT
<1>8. CASE \/ \E b \in Batches : CancelBatch(b)
           \/ Submit \/ ForceStop \/ ForceRaises \/ ForceDone \/ StopWhenIdle \/ CloseCoordinator
  <2>1. UNCHANGED <<rowVars, requested, sent>> /\ (faults' = faults \/ \E k : Fault(k))
    BY <1>8 DEF CancelBatch, Submit, ForceStop, ForceRaises, ForceDone, StopWhenIdle,
       CloseCoordinator
  <2> QED BY <2>1, <1>f, <1>r DEF RowT, rowVars
<1>9. CASE Exit \/ Crash \/ CrashInAppend \/ CrashInCancel
  <2>1. /\ UNCHANGED <<bstate, cont, state, intent, left, requested, sent>>
        /\ faults' = faults \/ \E k : Fault(k)
    BY <1>9 DEF Exit, Crash, CrashInAppend, CrashInCancel, ProcessEnds
  <2>2. lost' \subseteq Executions
    BY <1>9, <1>r DEF Exit, Crash, CrashInAppend, CrashInCancel, RowT
  <2>3. CrashInAppend => child \in Executions
    BY DEF CrashInAppend, Shape, Running
  <2>4. torn' \subseteq Executions
    BY <1>9, <1>r, <2>3 DEF Exit, Crash, CrashInAppend, CrashInCancel, RowT
  <2> QED BY <2>1, <2>2, <2>4, <1>f, <1>r DEF RowT
<1> QED
  BY <1>1, <1>2, <1>3, <1>4, <1>5, <1>6, <1>7, <1>8, <1>9 DEF Server

\* What was left is on record, and only the worker leaves what it observes.
LEMMA LeftGrows ==
  ASSUME Next
  PROVE  /\ left \subseteq left' /\ (Server => left' = left)
         /\ left' # left => (Watch \/ Event) /\ left' = left \cup {child} /\ state' = state
<1>1. Server => left' = left
  BY DEF Server, StartBatch, CancelBatch, StartOne, CancelOne, Submit, CancelParent,
     CancelMember, ForceStop, ForceRow, ForceRaises, ForceDone, StopWhenIdle, CloseCoordinator,
     Exit, Crash, CrashInAppend, CrashInCancel, ProcessEnds, Boot, BootFails, CancelRow,
     SetState, SetBatchState, rowVars
<1>2. CASE Event
  <2>1. CASE Proceeds \/ Concludes \/ Dies
    BY <1>1, <2>1 DEF Proceeds, Concludes, Dies, SetState, rowVars
  <2>2. CASE Leaves \/ GivesUp
    BY <1>1, <1>2, <2>2 DEF Leaves, GivesUp, Leave
  <2>3. CASE Waits
    BY <1>1, <2>3 DEF Waits, Heals, rowVars
  <2>4. CASE Surprised
    BY <1>1, <2>4 DEF Surprised, ChildRaises, SetState, rowVars
  <2> QED BY <1>2, <2>1, <2>2, <2>3, <2>4, EventOutcome
<1>3. CASE Watch
  BY <1>1, <1>3 DEF Watch, Leave, rowVars
<1>4. CASE Worker /\ ~Event /\ ~Watch
  BY <1>1, <1>4 DEF Worker, TakeItem, Begin, OpenBatch, StartRunning, NextMember,
     AfterMember, StopRead, StopCommit, BatchStopped, BatchFailed, CloseBatch, FinishBatch,
     ChildRaises, SetState, SetBatchState, rowVars
<1>5. CASE Server
  BY <1>1, <1>5
<1> QED BY <1>2, <1>3, <1>4, <1>5 DEF Next

\* What the worker leaves to others.
LEMMA WorkerFrame ==
  ASSUME EventLoop, Worker
  PROVE  /\ UNCHANGED <<cont, intent, lost, order, stop, serverVars, requested, refused>>
         /\ lpc # "down"
         /\ fifo' = fifo \/ (TakeItem /\ fifo' = Tail(fifo) /\ fifo # <<>>)
<1>0. UNCHANGED <<stop, serverVars, requested, refused>>
  BY DEF Worker, WorkerOnly, TakeItem, Begin, Watch, Event, OpenBatch, StartRunning, NextMember,
     AfterMember, StopRead, StopCommit, BatchStopped, BatchFailed, CloseBatch, FinishBatch
<1>1. UNCHANGED <<cont, intent, lost, order>>
  <2>1. CASE Event
    BY <2>1, EventOutcome DEF Proceeds, Concludes, Leaves, GivesUp, Dies, Waits, Surprised,
       ChildRaises, Leave, Heals, SetState, rowVars
  <2>2. CASE ~Event
    BY <2>2 DEF Worker, TakeItem, Begin, Watch, OpenBatch, StartRunning, NextMember,
       AfterMember, StopRead, StopCommit, BatchStopped, BatchFailed, CloseBatch, FinishBatch,
       ChildRaises, Leave, SetState, SetBatchState, rowVars
  <2> QED BY <2>1, <2>2
<1>2. pc # "idle" \/ fifo # <<>>
  BY DEF Worker, TakeItem, Begin, Watch, Event, OpenBatch, StartRunning, NextMember,
     AfterMember, StopRead, StopCommit, BatchStopped, BatchFailed, CloseBatch, FinishBatch
<1>3. fifo' = fifo \/ (TakeItem /\ fifo' = Tail(fifo) /\ fifo # <<>>)
  BY DEF Worker, TakeItem, Begin, Watch, Event, OpenBatch, StartRunning, NextMember,
     AfterMember, StopRead, StopCommit, BatchStopped, BatchFailed, CloseBatch, FinishBatch
<1> QED BY <1>0, <1>1, <1>2, <1>3 DEF EventLoop

\* The head of the queue, and the rest of it.
LEMMA HeadTail ==
  ASSUME QueueT, EventLoop, fifo # <<>>
  PROVE  /\ Head(fifo) \in Items /\ Queueable(Head(fifo))
         /\ Tail(fifo) \in Seq(Items)
         /\ \A i \in 1..Len(Tail(fifo)) : Queueable(Tail(fifo)[i])
<1>1. fifo \in Seq(Items) /\ Len(fifo) \in Nat /\ Len(fifo) > 0
  BY DEF QueueT
<1>2. Head(fifo) = fifo[1] /\ fifo[1] \in Items
  BY <1>1
<1>3. Tail(fifo) \in Seq(Items) /\ Len(Tail(fifo)) = Len(fifo) - 1
      /\ \A i \in 1..Len(Tail(fifo)) : Tail(fifo)[i] = fifo[i + 1] /\ i + 1 \in 1..Len(fifo)
  BY <1>1
<1>4. \A i \in 1..Len(fifo) : Queueable(fifo[i])
  BY DEF EventLoop
<1> QED BY <1>1, <1>2, <1>3, <1>4

\* A worker that is done with a row or a batch.
LEMMA ReleasedTyped ==
  ASSUME NEW p, Released(p)
  PROVE  /\ batch' \in Batches \cup {None} /\ child' \in Executions \cup {None}
         /\ pos' \in Nat /\ spos' \in Nat /\ saw' \in BOOLEAN /\ failing' \in BOOLEAN
         /\ final' \in BatchTerminal /\ pc' = p
<1>1. saw' \in BOOLEAN
  BY Zenon DEF Released
<1>2. failing' \in BOOLEAN
  BY Zenon DEF Released
<1>3. batch' = None /\ child' = None /\ pos' = 1 /\ spos' = 1 /\ final' = "error" /\ pc' = p
  BY DEF Released
<1> QED BY <1>1, <1>2, <1>3 DEF BatchTerminal

\* The worker's variables keep their types.
LEMMA WorkWorker ==
  ASSUME Typed, Shape, EventLoop, Worker
  PROVE  WorkT'
<1>w. WorkT /\ BatchTerminal = {"finished", "error", "interrupted"}
  BY DEF Typed, BatchTerminal
<1>x. (\E p \in {"idle", "exited", "dead"} : Released(p)) => WorkT'
  BY ReleasedTyped DEF WorkT
<1>y. failing' = TRUE => failing' \in BOOLEAN
  BY Zenon
<1> USE <1>x, <1>y DEF WorkT, Go
<1>1. CASE TakeItem
  <2>1. Head(fifo) \in Items /\ Queueable(Head(fifo))
    BY <1>1, HeadTail DEF TakeItem, Typed
  <2> DEFINE item == Head(fifo)
  <2> HIDE DEF item
  <2>2. item.kind = "batch" => item.id \in Batches
    BY <2>1 DEF Queueable, item
  <2>3. item.kind = "execute" => item.id \in Executions
    BY <2>1 DEF Queueable, item, Standalone
  <2>4. item.kind = "recover" => item.id \in Executions
    BY <2>1 DEF Queueable, item
  <2>5. \/ Released("exited") \/ Released("idle")
        \/ /\ item.id \in Batches /\ pc' = "open" /\ batch' = item.id
           /\ UNCHANGED <<child, pos, spos, saw, failing, final>>
        \/ /\ item.id \in Executions /\ pc' \in {"begin", "watch"} /\ child' = item.id
           /\ UNCHANGED <<batch, pos, spos, saw, failing, final>>
    BY <1>1, <2>2, <2>3, <2>4 DEF TakeItem, item
  <2> QED BY <2>5, <1>w
<1>2. CASE Begin \/ Watch
  BY <1>2, <1>w DEF Begin, Watch, ChildReturns, ChildRaises
<1>3. CASE Event
  BY <1>3, <1>w, EventOutcome DEF Proceeds, Concludes, Leaves, GivesUp, Dies, Waits, Surprised,
     ChildReturns, ChildRaises
<1>4. CASE NextMember
  <2>1. batch \in Batches /\ pos \in Nat /\ pos >= 1
    BY <1>4, <1>w DEF NextMember, Shape, InBatch
  <2>2. pos <= Len(Members[batch]) => Members[batch][pos] \in Executions
    BY <2>1, MemberPlaces
  <2> QED BY <1>4, <2>2, <1>w DEF NextMember
<1>5. CASE AfterMember
  <2>1. saw' \in BOOLEAN
    BY <1>5, Zenon DEF AfterMember
  <2> QED BY <1>5, <2>1, <1>w DEF AfterMember
<1>6. CASE OpenBatch \/ StartRunning \/ StopRead \/ StopCommit
  BY <1>6, <1>w DEF OpenBatch, StartRunning, StopRead, StopCommit
<1>7. CASE BatchStopped \/ BatchFailed \/ CloseBatch \/ FinishBatch
  BY <1>7, <1>w DEF BatchStopped, BatchFailed, CloseBatch, FinishBatch
<1> QED BY <1>1, <1>2, <1>3, <1>4, <1>5, <1>6, <1>7 DEF Worker

\* Everything keeps its type through a step of the worker.
LEMMA TypedWorker ==
  ASSUME Typed, Shape, EventLoop, Worker
  PROVE  Typed'
<1>1. RowT' /\ WorkT'
  BY RowWorker, WorkWorker
<1>2. QueueT'
  BY WorkerFrame, HeadTail DEF Typed, QueueT
<1>3. LoopT'
  BY WorkerFrame DEF Typed, LoopT, serverVars
<1> QED BY <1>1, <1>2, <1>3 DEF Typed

\* Everything keeps its type through a step of the event loop, a crash and a
\* restart.
LEMMA TypedServer ==
  ASSUME Typed, Shape, EventLoop, Server
  PROVE  Typed'
<1>t. RowT /\ QueueT /\ WorkT /\ LoopT
  BY DEF Typed
<1>1. RowT'
  BY RowServer
<1>2. WorkT'
  <2>1. UNCHANGED batchVars \/ Released("idle")
    BY DEF Server, ServerOnly, StartBatch, CancelBatch, StartOne, CancelOne, Submit, CancelParent,
       CancelMember, ForceStop, ForceRow, ForceRaises, ForceDone, StopWhenIdle, CloseCoordinator,
       Exit, Crash, CrashInAppend, CrashInCancel, Boot, BootFails, ProcessEnds
  <2> QED BY <2>1, <1>t, ReleasedTyped DEF WorkT, batchVars
<1>w. Members \in [Batches -> Seq(Work)] /\ Batches \subseteq Work /\ Executions \subseteq Work
  BY BatchAssumption DEF Work
<1>3. LoopT'
  <2> USE <1>t DEF LoopT, serverVars, ServerOnly
  <2>1. CASE \E b \in Batches : StartBatch(b) \/ CancelBatch(b)
    BY <2>1, <1>w DEF StartBatch, CancelBatch
  <2>2. CASE \E e \in Executions : StartOne(e) \/ CancelOne(e)
    BY <2>2, <1>w DEF StartOne, CancelOne
  <2>3. CASE Submit
    <3>1. job \in Work
      BY <2>3 DEF Submit, EventLoop, Standalone, Work
    <3> QED BY <2>3, <3>1 DEF Submit
  <2>6. CASE CancelParent \/ CancelMember
    BY <2>6 DEF CancelParent, CancelMember
  <2>b. (stop' = TRUE => stop' \in BOOLEAN) /\ (stopping' = TRUE => stopping' \in BOOLEAN)
    BY Zenon
  <2>4. CASE ForceStop \/ ForceRow \/ ForceRaises \/ ForceDone \/ StopWhenIdle \/ CloseCoordinator
    BY <2>4, <2>b DEF ForceStop, ForceRow, ForceRaises, ForceDone, StopWhenIdle, CloseCoordinator
  <2>5. CASE Exit \/ Crash \/ CrashInAppend \/ CrashInCancel \/ Boot \/ BootFails
    <3>1. (stop' = FALSE => stop' \in BOOLEAN) /\ (stopping' = FALSE => stopping' \in BOOLEAN)
      BY Zenon
    <3> QED BY <2>5, <3>1 DEF Exit, Crash, CrashInAppend, CrashInCancel, ProcessEnds, Boot,
                              BootFails
  <2> QED BY <2>1, <2>2, <2>3, <2>4, <2>5, <2>6 DEF Server
<1>4. order' \in Seq(Work)
  <2>1. CASE \E b \in Batches : StartBatch(b)
    <3>1. PICK b \in Batches : order' = Append(order, b) \o Members[b]
      BY <2>1 DEF StartBatch
    <3>2. Append(order, b) \in Seq(Work) /\ Members[b] \in Seq(Work)
      BY <1>t, <1>w DEF QueueT
    <3> QED BY <3>1, <3>2
  <2>2. CASE \E e \in Executions : StartOne(e)
    BY <2>2, <1>t, <1>w DEF StartOne, QueueT
  <2>3. CASE ~(\E b \in Batches : StartBatch(b)) /\ ~(\E e \in Executions : StartOne(e))
    <3>1. order' = order
      BY <2>3 DEF Server, CancelBatch, CancelOne, Submit, CancelParent, CancelMember, ForceStop,
         ForceRow, ForceRaises, ForceDone, StopWhenIdle, CloseCoordinator, Exit, Crash,
         CrashInAppend, CrashInCancel, Boot, BootFails, ProcessEnds,
         rowVars, CancelRow, SetState, SetBatchState
    <3> QED BY <3>1, <1>t DEF QueueT
  <2> QED BY <2>1, <2>2, <2>3
<1>5. fifo' \in Seq(Items)
  <2>1. CASE Submit
    <3>1. job \in Work /\ Item(job) \in Items
      BY <2>1, <1>t DEF Submit, LoopT, EventLoop, Standalone, Work, Items, Item
    <3>2. Append(fifo, Item(job)) \in Seq(Items)
      BY <3>1, <1>t DEF QueueT
    <3> QED BY <2>1, <3>2, <1>t DEF Submit, QueueT
  <2>2. CASE CloseCoordinator
    <3>1. [kind |-> "stop", id |-> None] \in Items
      BY DEF Items
    <3> QED BY <2>2, <3>1, <1>t DEF CloseCoordinator, QueueT
  <2>3. CASE Boot
    <3>1. PICK rows \in [Executions -> ExecStates] :
            \E u \in UnfinishedParents, v \in RowsIn(rows, "disconnected"),
               w \in RowsIn(rows, "queued") :
              fifo' = Resumed(u, v, w)
      BY <2>3 DEF Boot
    <3> QED BY <3>1, ResumedQueue
  <2>4. CASE Exit \/ Crash \/ CrashInAppend \/ CrashInCancel
    <3>1. fifo' = <<>> /\ <<>> \in Seq(Items)
      BY <2>4 DEF Exit, Crash, CrashInAppend, CrashInCancel, ProcessEnds
    <3> QED BY <3>1
  <2>5. CASE ~(Submit \/ CloseCoordinator \/ Boot \/ Exit \/ Crash \/ CrashInAppend
               \/ CrashInCancel)
    <3>1. fifo' = fifo
      BY <2>5 DEF Server, StartBatch, CancelBatch, StartOne, CancelOne, CancelParent, CancelMember,
         ForceStop, ForceRow, ForceRaises, ForceDone, StopWhenIdle, BootFails
    <3> QED BY <3>1, <1>t DEF QueueT
  <2> QED BY <2>1, <2>2, <2>3, <2>4, <2>5
<1> QED BY <1>1, <1>2, <1>3, <1>4, <1>5 DEF Typed, QueueT

-----------------------------------------------------------------------------
(***************************************************************************)
(* How rows and parents move, whoever moves them.                          *)
(***************************************************************************)
Further(e) ==
  \/ state'[e] = state[e]
  \/ state[e] = "absent" /\ state'[e] = "queued"
  \/ state[e] = "queued" /\ state'[e] \in {"interrupted", "dispatching"}
  \/ state[e] \in ActiveStates /\ state'[e] \in ActiveStates \cup TerminalStates

ParentFurther(b) ==
  \/ bstate'[b] = bstate[b]
  \/ bstate[b] = "absent" /\ bstate'[b] = "queued"
  \/ bstate[b] \in BatchActive /\ bstate'[b] \in {"running", "cancelling"} \cup BatchTerminal

\* A commit of the worker to one row.
LEMMA OneRow ==
  ASSUME RowT, NEW e \in Executions, NEW s, SetState(e, s)
  PROVE  state'[e] = s /\ \A d \in Executions : d # e => state'[d] = state[d]
  BY DEF RowT, SetState

\* A commit to one parent.
LEMMA OneParent ==
  ASSUME RowT, NEW b \in Batches, NEW s, SetBatchState(b, s)
  PROVE  /\ bstate'[b] = IF bstate[b] \in BatchTerminal THEN bstate[b] ELSE s
         /\ \A c \in Batches : c # b => bstate'[c] = bstate[c]
         /\ state' = state
  BY DEF RowT, SetBatchState

\* The worker's steps: rows and parents, and who else moves then.
LEMMA WorkerMoves ==
  ASSUME Typed, Shape, EventLoop, Child, Worker
  PROVE  /\ \A e \in Executions :
              /\ Further(e) /\ (state[e] = "absent" => state'[e] = "absent")
              /\ state'[e] # state[e] =>
                   (pc \in Running /\ e = child) \/ (pc = "stopcommit" /\ e = Members[batch][spos])
         /\ \A b \in Batches :
              /\ ParentFurther(b) /\ (bstate[b] = "absent" => bstate'[b] = "absent")
              /\ bstate'[b] # bstate[b] =>
                   /\ b = batch
                   /\ \/ StartRunning /\ bstate'[b] = "running"
                      \/ BatchStopped /\ bstate'[b] = "error"
                      \/ FinishBatch /\ bstate'[b] = final
<1>r. RowT /\ WorkT
  BY DEF Typed
<1> USE DEF Further, ParentFurther
<1>1. CASE TakeItem \/ Watch \/ OpenBatch \/ NextMember \/ AfterMember \/ StopRead
           \/ BatchFailed \/ CloseBatch
  BY <1>1 DEF TakeItem, Watch, OpenBatch, NextMember, AfterMember, StopRead, BatchFailed,
              CloseBatch,
     Leave, rowVars
<1>2. CASE StartRunning \/ BatchStopped \/ FinishBatch
  <2>1. batch \in Batches /\ bstate[batch] # "absent" /\ pc \in {"start", "stopped", "final"}
    BY <1>2 DEF StartRunning, BatchStopped, FinishBatch, Shape, InBatch
  <2>2. \E s \in {"running"} \cup BatchTerminal :
          /\ SetBatchState(batch, s)
          /\ \/ StartRunning /\ s = "running"
             \/ BatchStopped /\ s = "error"
             \/ FinishBatch /\ s = final
    BY <1>2, <1>r DEF StartRunning, BatchStopped, FinishBatch, WorkT, BatchTerminal
  <2>3. bstate[batch] \in BatchActive \cup BatchTerminal
    BY <2>1, <1>r DEF RowT
  <2> QED BY <2>1, <2>2, <2>3, <1>r, OneParent
<1>3. CASE StopCommit
  <2>1. batch \in Batches /\ spos \in DOMAIN Members[batch] /\ Members[batch][spos] \in Executions
    BY <1>3, MemberPlaces DEF StopCommit, Shape, InBatch
  <2>2. CASE state[Members[batch][spos]] = "queued"
    <3>1. SetState(Members[batch][spos], "interrupted") /\ bstate' = bstate /\ pc = "stopcommit"
      BY <1>3, <2>2 DEF StopCommit, SetState
    <3> QED BY <2>1, <2>2, <3>1, <1>r, OneRow
  <2>3. CASE state[Members[batch][spos]] # "queued"
    BY <1>3, <2>3 DEF StopCommit, rowVars
  <2> QED BY <2>2, <2>3
<1>4. CASE Begin \/ Event
  <2>1. child \in Executions /\ pc \in Running
    BY <1>4 DEF Begin, Event, Shape, Running
  <2>2. bstate' = bstate
    <3>1. CASE Begin
      BY <3>1 DEF Begin, ChildRaises, SetState, rowVars
    <3>2. CASE Event
      BY <3>2, EventOutcome DEF Proceeds, Concludes, Leaves, GivesUp, Dies, Waits, Surprised,
         ChildRaises, Leave, Heals, SetState, rowVars
    <3> QED BY <1>4, <3>1, <3>2
  <2>3. \/ UNCHANGED state
        \/ \E s : /\ SetState(child, s)
                  /\ \/ s = state[child]
                     \/ state[child] = "queued" /\ s \in {"interrupted", "dispatching"}
                     \/ state[child] \in ActiveStates /\ s \in ActiveStates \cup TerminalStates
    <3>1. ChildRaises => UNCHANGED state \/
            \E s : /\ SetState(child, s)
                   /\ \/ s = state[child]
                      \/ state[child] = "queued" /\ s \in {"interrupted", "dispatching"}
                      \/ state[child] \in ActiveStates /\ s \in ActiveStates \cup TerminalStates
      BY DEF ChildRaises, rowVars, TerminalStates
    <3>2. CASE Begin
      BY <3>1, <3>2 DEF Begin, rowVars
    <3>3. CASE Event
      <4>1. CASE Proceeds
        BY <4>1 DEF Proceeds, ActiveStates
      <4>2. CASE Concludes
        BY <4>2 DEF Concludes
      <4>3. CASE Leaves \/ GivesUp \/ Dies \/ Waits
        BY <4>3 DEF Leaves, GivesUp, Dies, Waits, Leave, Heals, rowVars
      <4>4. CASE Surprised
        BY <3>1, <4>4 DEF Surprised
      <4> QED BY <3>3, <4>1, <4>2, <4>3, <4>4, EventOutcome
    <3> QED BY <1>4, <3>2, <3>3
  <2>4. CASE UNCHANGED state
    BY <2>2, <2>4
  <2>5. CASE ~UNCHANGED state
    <3>1. PICK s : /\ SetState(child, s)
                   /\ \/ s = state[child]
                      \/ state[child] = "queued" /\ s \in {"interrupted", "dispatching"}
                      \/ state[child] \in ActiveStates /\ s \in ActiveStates \cup TerminalStates
      BY <2>3, <2>5
    <3>2. state'[child] = s /\ \A d \in Executions : d # child => state'[d] = state[d]
      BY <2>1, <3>1, <1>r, OneRow
    <3>3. state[child] = "absent" => s = "absent"
      BY <3>1, WorkerStates
    <3> QED BY <2>1, <2>2, <3>1, <3>2, <3>3
  <2> QED BY <2>4, <2>5
<1> QED BY <1>1, <1>2, <1>3, <1>4 DEF Worker

\* Reconciliation after a restart: what was not dispatched and what is
\* settled stays, what was dispatched becomes disconnected or settled.
LEMMA BootRows ==
  ASSUME Boot \/ BootFails, NEW e \in Executions
  PROVE  /\ \/ state'[e] = state[e]
            \/ state[e] \in ActiveStates /\ state'[e] \in {"disconnected"} \cup TerminalStates
         /\ Boot => state'[e] \notin {"dispatching", "running"}
<1>1. state'[e] \in {state[e]} \cup Reconciled(e) /\ (Boot => state'[e] \in Reconciled(e))
  BY DEF Boot, BootFails
<1>2. Provable(e) \subseteq TerminalStates /\ "unknown" \in TerminalStates
      /\ {"dispatching", "running"} \cap TerminalStates = {}
  BY DEF Provable, TerminalStates
<1> QED BY <1>1, <1>2 DEF Reconciled, ActiveStates

\* The event loop's steps, for the rows.
LEMMA ServerRows ==
  ASSUME Typed, EventLoop, Parents, Server, NEW e \in Executions
  PROVE  /\ Further(e)
         /\ state'[e] \in ActiveStates =>
              /\ state[e] \in ActiveStates
              /\ state'[e] = state[e] \/ state'[e] = "disconnected"
              /\ lpc # "down" => state'[e] = state[e]
         /\ lpc # "down" =>
              /\ state[e] \in ActiveStates /\ state'[e] # state[e] =>
                   state'[e] = "unknown"
              /\ state[e] = "queued" => state'[e] \in Waiting
<1>r. RowT /\ LoopT
  BY DEF Typed
<1>a. /\ ActiveStates \cap (TerminalStates \cup {"absent", "queued"}) = {}
      /\ {"interrupted", "unknown"} \subseteq TerminalStates
  BY WorkerStates DEF TerminalStates
<1> USE DEF Further, Waiting
<1>1. CASE state'[e] = state[e] /\ lpc # "down"
  BY <1>1, <1>a
<1>2. CASE state[e] = "absent" /\ state'[e] = "queued"
  BY <1>2, <1>a
<1>3. CASE state[e] = "queued" /\ state'[e] = "interrupted"
  BY <1>3, <1>a
<1>4. CASE state[e] \in ActiveStates /\ state'[e] = "unknown"
  BY <1>4, <1>a
<1>5. CASE Boot \/ BootFails
  <2>1. lpc = "down"
    BY <1>5 DEF Boot, BootFails
  <2>2. \/ state'[e] = state[e]
        \/ state[e] \in ActiveStates /\ state'[e] \in {"disconnected"} \cup TerminalStates
    BY <1>5, BootRows
  <2>3. "disconnected" \in ActiveStates
    BY DEF ActiveStates
  <2> QED BY <2>1, <2>2, <2>3, <1>a
<1>6. CASE Exit \/ Crash \/ CrashInAppend \/ CrashInCancel
  <2>1. state' = state
    BY <1>6 DEF Exit, Crash, CrashInAppend, CrashInCancel, ProcessEnds
  <2>2. lpc # "down"
    BY <1>6 DEF Exit, Crash, CrashInAppend, CrashInCancel, EventLoop
  <2> QED BY <2>1, <2>2, <1>1
<1>7. CASE \E b \in Batches : StartBatch(b)
  <2>1. PICK b \in Batches : StartBatch(b)
    BY <1>7
  <2>2. /\ e \in MembersOf(b) => state[e] = "absent" /\ state'[e] = "queued"
        /\ e \notin MembersOf(b) => state'[e] = state[e]
        /\ lpc # "down"
    BY <2>1 DEF StartBatch, Parents
  <2> QED BY <2>2, <1>1, <1>2
<1>8. CASE \E d \in Executions : StartOne(d)
  <2>1. (state[e] = "absent" /\ state'[e] = "queued") \/ state'[e] = state[e]
    BY <1>8, <1>r DEF StartOne, RowT
  <2>2. lpc # "down"
    BY <1>8 DEF StartOne
  <2> QED BY <2>1, <2>2, <1>1, <1>2
<1>9. CASE (\E d \in Executions : CancelOne(d)) \/ CancelMember
  <2>1. (state[e] = "queued" /\ state'[e] = "interrupted") \/ state'[e] = state[e]
    BY <1>9, <1>r DEF CancelOne, CancelMember, CancelRow, RowT, rowVars
  <2>2. lpc # "down"
    BY <1>9 DEF CancelOne, CancelMember
  <2> QED BY <2>1, <2>2, <1>1, <1>3
<1>10. CASE ForceRow
  <2>1. lpc = "force"
    BY <1>10 DEF ForceRow
  <2>2. (state[e] \in ActiveStates /\ state'[e] = "unknown") \/ state'[e] = state[e]
    BY <1>10, <1>r DEF ForceRow, RowT, SetState, LoopT
  <2> QED BY <2>1, <2>2, <1>1, <1>4
<1>11. CASE \/ \E b \in Batches : CancelBatch(b)
            \/ Submit \/ CancelParent \/ ForceStop \/ ForceRaises \/ ForceDone
            \/ StopWhenIdle \/ CloseCoordinator
  <2>1. state' = state /\ lpc # "down"
    BY <1>11 DEF CancelBatch, Submit, CancelParent, ForceStop, ForceRaises, ForceDone,
       StopWhenIdle, CloseCoordinator, rowVars, SetBatchState
  <2> QED BY <2>1, <1>1
<1> QED
  BY <1>5, <1>6, <1>7, <1>8, <1>9, <1>10, <1>11 DEF Server

\* The event loop's steps, for the parents: a parent is created with its
\* members, and none is settled.
LEMMA ServerParents ==
  ASSUME Typed, EventLoop, Parents, Server, NEW b \in Batches
  PROVE  /\ ParentFurther(b)
         /\ bstate'[b] # bstate[b] =>
              \/ /\ bstate[b] = "absent" /\ bstate'[b] = "queued"
                 /\ \A e \in MembersOf(b) : state'[e] = "queued"
              \/ bstate'[b] = "cancelling" /\ b \in requested'
         /\ bstate'[b] = bstate[b] =>
              /\ bstate[b] = "absent" => \A e \in MembersOf(b) : state'[e] = state[e]
              /\ b \in cont' <=> b \in cont
         /\ bstate[b] # "absent" => (b \in cont' <=> b \in cont)
         /\ requested \subseteq requested'
<1>r. RowT /\ LoopT
  BY DEF Typed
<1>m. \A e \in MembersOf(b) : e \in Executions /\ e \notin Standalone
  BY MemberPlaces
<1>a. bstate[b] = "absent" => \A e \in MembersOf(b) : state[e] = "absent"
  BY DEF Parents
<1> USE DEF ParentFurther
<1>1. CASE \E c \in Batches : StartBatch(c)
  <2>1. PICK c \in Batches : StartBatch(c)
    BY <1>1
  <2>2. CASE c = b
    <3>1. bstate[b] = "absent" /\ bstate'[b] = "queued" /\ requested' = requested
      BY <2>1, <2>2, <1>r DEF StartBatch, RowT
    <3>2. \A e \in MembersOf(b) : state'[e] = "queued"
      BY <2>1, <2>2, <1>m DEF StartBatch
    <3> QED BY <3>1, <3>2
  <2>3. CASE c # b
    <3>1. bstate'[b] = bstate[b] /\ requested' = requested /\ (b \in cont' <=> b \in cont)
      BY <2>1, <2>3, <1>r DEF StartBatch, RowT
    <3>2. \A e \in MembersOf(b) : e \notin MembersOf(c)
      BY <2>3, MemberPlaces
    <3>3. \A e \in MembersOf(b) : state'[e] = state[e]
      BY <2>1, <3>2, <1>m DEF StartBatch
    <3> QED BY <3>1, <3>3
  <2> QED BY <2>2, <2>3
<1>2. CASE \E d \in Executions : StartOne(d)
  <2>1. UNCHANGED <<bstate, cont, requested>>
    BY <1>2 DEF StartOne
  <2>2. \A e \in MembersOf(b) : state'[e] = state[e]
    BY <1>2, <1>m, <1>r DEF StartOne, RowT
  <2> QED BY <2>1, <2>2
<1>3. CASE CancelParent
  <2>1. job \in Batches /\ bstate[job] # "absent"
    BY <1>3 DEF CancelParent, EventLoop
  <2>2. SetBatchState(job, "cancelling") /\ requested' = requested \cup {job} /\ cont' = cont
    BY <1>3 DEF CancelParent, SetBatchState
  <2>3. bstate[job] \in BatchActive \cup BatchTerminal
    BY <2>1, <1>r DEF RowT
  <2>4. \A e \in Executions : state'[e] = state[e]
    BY <2>1, <2>2, <1>r, OneParent
  <2>5. bstate'[b] = bstate[b] \/ (b = job /\ bstate[b] \in BatchActive
        /\ bstate'[b] = "cancelling")
    BY <2>1, <2>2, <2>3, <1>r, OneParent
  <2> QED BY <2>2, <2>4, <2>5, <1>m, WorkerStates
<1>4. CASE (\E d \in Executions : CancelOne(d)) \/ CancelMember \/ ForceRow
  <2>1. UNCHANGED <<bstate, cont, requested>> /\ lpc # "down"
    BY <1>4 DEF CancelOne, CancelMember, ForceRow, CancelRow, SetState, rowVars
  <2>2. \A e \in MembersOf(b) : state[e] = "absent" => state'[e] = state[e]
    <3> SUFFICES ASSUME NEW e \in MembersOf(b), state[e] = "absent" PROVE state'[e] = state[e]
      OBVIOUS
    <3>1. "absent" \notin ActiveStates /\ "absent" # "queued"
      BY WorkerStates
    <3> QED BY <1>4, <1>m, <1>r, <3>1 DEF CancelOne, CancelMember, ForceRow, CancelRow, SetState,
                                          rowVars, RowT, LoopT
  <2> QED BY <2>1, <2>2, <1>a
<1>5. CASE Boot \/ BootFails
  <2>1. UNCHANGED <<bstate, cont, requested>>
    BY <1>5 DEF Boot, BootFails
  <2>2. \A e \in MembersOf(b) : state[e] = "absent" => state'[e] = state[e]
    BY <1>5, <1>m, BootRows, WorkerStates
  <2> QED BY <2>1, <2>2, <1>a
<1>6. CASE \/ \E c \in Batches : CancelBatch(c)
           \/ Submit \/ ForceStop \/ ForceRaises \/ ForceDone \/ StopWhenIdle
           \/ CloseCoordinator \/ Exit \/ Crash \/ CrashInAppend \/ CrashInCancel
  BY <1>6 DEF CancelBatch, Submit, ForceStop, ForceRaises, ForceDone, StopWhenIdle,
     CloseCoordinator, Exit, Crash, CrashInAppend, CrashInCancel, ProcessEnds, rowVars
<1> QED BY <1>1, <1>2, <1>3, <1>4, <1>5, <1>6 DEF Server

\* The event loop does not run the worker; it is reset with the process.
LEMMA ServerFrame ==
  ASSUME EventLoop, Server
  PROVE  \/ UNCHANGED <<batchVars, stop>> /\ lpc # "down" /\ lpc' # "down"
         \/ CloseCoordinator /\ UNCHANGED batchVars /\ lpc # "down" /\ lpc' # "down"
         \/ /\ Boot \/ (BootFails /\ lpc' = "down")
            /\ UNCHANGED <<batchVars, stop>> /\ lpc = "down" /\ pc = "idle"
         \/ /\ Released("idle") /\ lpc' = "down" /\ fifo' = <<>> /\ ~stop' /\ ~stopping'
            /\ UNCHANGED <<bstate, cont, state, requested>>
<1>1. CASE Boot \/ BootFails
  BY <1>1 DEF Boot, BootFails, ServerOnly, EventLoop, serverVars
<1>2. CASE Exit \/ Crash \/ CrashInAppend \/ CrashInCancel
  BY <1>2 DEF Exit, Crash, CrashInAppend, CrashInCancel, ProcessEnds
<1>3. CASE CloseCoordinator
  BY <1>3 DEF CloseCoordinator
<1>4. CASE ~Boot /\ ~BootFails /\ ~Exit /\ ~Crash /\ ~CrashInAppend /\ ~CrashInCancel
           /\ ~CloseCoordinator
  BY <1>4 DEF Server, ServerOnly, StartBatch, CancelBatch, StartOne, CancelOne, Submit,
     CancelParent, CancelMember, ForceStop, ForceRow, ForceRaises, ForceDone, StopWhenIdle,
     serverVars
<1> QED BY <1>1, <1>2, <1>3, <1>4

\* The loop stays within its batch: the worker's steps.
LEMMA ShapeWorker ==
  ASSUME Typed, Shape, EventLoop, Parents, Child, Progress, Worker
  PROVE  Shape'
<1>r. RowT /\ WorkT
  BY DEF Typed
<1>b. batch \in Batches => bstate[batch] # "absent" /\ bstate'[batch] # "absent"
  BY WorkerMoves DEF ParentFurther, BatchTerminal, Shape
<1>q. batch \in Batches /\ pc \notin {"open", "start"} => bstate'[batch] # "queued"
  BY WorkerMoves DEF ParentFurther, BatchTerminal, Shape
<1>z. batch \in Batches /\ pc \notin {"open", "stopped", "final"}
      => bstate'[batch] \notin BatchTerminal
  BY WorkerMoves DEF StartRunning, BatchStopped, FinishBatch, Shape, BatchTerminal
<1>n. None \notin Batches /\ (batch \in Batches => Len(Members[batch]) \in Nat
        /\ DOMAIN Members[batch] = 1..Len(Members[batch]))
  BY MemberPlaces
<1>t. batch = None \/ batch \in Batches
  BY <1>r DEF WorkT
<1> USE <1>n, <1>t DEF InBatch, Running, Stop
<1>i. Released("idle") \/ Released("exited") \/ Released("dead") => Shape'
  BY <1>n DEF Released, Shape
<1>c. ChildReturns /\ pc \in Running => Shape'
  <2> SUFFICES ASSUME ChildReturns, pc \in Running, batch # None PROVE Shape'
    BY <1>i DEF ChildReturns
  <2>1. pc' = "after" /\ child' = None /\ UNCHANGED <<batch, pos, spos, saw, failing, final>>
    BY DEF ChildReturns
  <2> QED BY <2>1, <1>b, <1>q, <1>z DEF Shape
<1>e. ChildRaises /\ pc \in Running => Shape'
  <2> SUFFICES ASSUME ChildRaises, pc \in Running, batch # None PROVE Shape'
    BY <1>i DEF ChildRaises
  <2>1. pc' = "failed" /\ child' = None /\ UNCHANGED <<batch, pos, spos, saw, final>>
    BY DEF ChildRaises
  <2> QED BY <2>1, <1>b, <1>q, <1>z DEF Shape
<1>f. GivesUp /\ pc \in Running => Shape'
  <2> SUFFICES ASSUME GivesUp, pc \in Running PROVE Shape'
    OBVIOUS
  <2>1. pc' = "failed" /\ child' = None /\ UNCHANGED <<batch, pos, spos, saw, final>>
        /\ batch # None
    BY DEF GivesUp
  <2> QED BY <2>1, <1>b, <1>q, <1>z DEF Shape
<1>g. ASSUME pc \in Running, pc' \in {"watch", "event"},
             UNCHANGED <<batch, child, pos, spos, saw, failing, final>>
      PROVE  Shape'
  BY <1>g, <1>b, <1>q, <1>z DEF Shape
<1>1. CASE TakeItem
  <2>1. Head(fifo) \in Items /\ Queueable(Head(fifo))
    BY <1>1, HeadTail DEF TakeItem, Typed
  <2>2. \/ Released("exited") \/ Released("idle")
        \/ /\ Head(fifo).kind = "batch" /\ pc' = "open" /\ batch' = Head(fifo).id
           /\ UNCHANGED <<child, pos, spos, saw, failing, final>>
        \/ /\ Head(fifo).kind = "execute" /\ pc' = "begin" /\ child' = Head(fifo).id
           /\ UNCHANGED <<batch, pos, spos, saw, failing, final>>
        \/ /\ Head(fifo).kind = "recover" /\ pc' = "watch" /\ child' = Head(fifo).id
           /\ UNCHANGED <<batch, pos, spos, saw, failing, final>>
    BY <1>1 DEF TakeItem
  <2>3. pc = "idle" /\ batch = None /\ child = None /\ pos = 1 /\ ~saw /\ ~failing
        /\ bstate' = bstate
    BY <1>1 DEF TakeItem, Shape, rowVars
  <2>4. CASE /\ Head(fifo).kind = "batch" /\ pc' = "open" /\ batch' = Head(fifo).id
             /\ UNCHANGED <<child, pos, spos, saw, failing, final>>
    <3>1. batch' \in Batches /\ bstate[batch'] # "absent"
      BY <2>1, <2>4 DEF Queueable
    <3>2. Len(Members[batch']) \in Nat
      BY <3>1, MemberPlaces
    <3> QED BY <2>3, <2>4, <3>1, <3>2 DEF Shape
  <2>5. CASE /\ Head(fifo).kind \in {"execute", "recover"} /\ child' = Head(fifo).id
             /\ pc' = IF Head(fifo).kind = "execute" THEN "begin" ELSE "watch"
             /\ UNCHANGED <<batch, pos, spos, saw, failing, final>>
    <3>1. child' \in Executions /\ (Head(fifo).kind = "execute" => child' \in Standalone)
      BY <2>1, <2>5 DEF Queueable, Standalone
    <3>2. Standalone' = Standalone
      OBVIOUS
    <3> QED BY <2>3, <2>5, <3>1, <3>2 DEF Shape
  <2> QED BY <2>2, <2>4, <2>5, <1>i
<1>2. CASE Begin
  <2>1. pc \in Running
    BY <1>2 DEF Begin
  <2> QED BY <1>2, <2>1, <1>c, <1>e, <1>g DEF Begin, Go
<1>3. CASE Watch
  <2>1. pc \in Running
    BY <1>3 DEF Watch
  <2> QED BY <1>3, <2>1, <1>c, <1>g DEF Watch, Go
<1>4. CASE Event
  <2>1. pc \in Running
    BY <1>4 DEF Event
  <2> QED BY <1>4, <2>1, <1>c, <1>e, <1>f, <1>g, <1>i, EventOutcome
          DEF Proceeds, Concludes, Leaves, Dies, Waits, Surprised, Go
<1>5. CASE OpenBatch
  <2>1. batch \in Batches
    BY <1>5 DEF OpenBatch, Shape
  <2>2. bstate' = bstate
    BY <1>5 DEF OpenBatch, rowVars
  <2> QED BY <1>5, <1>i, <1>b, <2>1, <2>2 DEF OpenBatch, Go, Shape, BatchTerminal
<1>6. CASE StartRunning
  <2>1. batch \in Batches /\ SetBatchState(batch, "running")
    BY <1>6 DEF StartRunning, Shape
  <2>2. bstate'[batch] # "queued"
    BY <2>1, <1>r, OneParent DEF BatchTerminal
  <2>3. bstate'[batch] \notin BatchTerminal
    BY <1>6, <1>z, <2>1 DEF StartRunning
  <2> QED BY <1>6, <1>b, <2>1, <2>2, <2>3 DEF StartRunning, Go, Shape
<1>7. CASE NextMember
  <2>1. batch \in Batches /\ pos \in Nat /\ pos >= 1 /\ pc = "member"
    BY <1>7, <1>r DEF NextMember, Shape, WorkT
  <2>2. pos <= Len(Members[batch]) => Members[batch][pos] \in Executions
        /\ Members[batch][pos] # None
    BY <2>1, MemberPlaces
  <2>3. CASE pos > Len(Members[batch])
    BY <1>7, <1>b, <1>q, <1>z, <2>1, <2>3 DEF NextMember, Go, Shape
  <2>4. CASE pos <= Len(Members[batch])
    BY <1>7, <1>b, <1>q, <1>z, <2>1, <2>2, <2>4 DEF NextMember, Shape
  <2> QED BY <2>1, <2>3, <2>4
<1>8. CASE AfterMember
  <2>1. batch \in Batches /\ pos \in DOMAIN Members[batch] /\ pc = "after"
    BY <1>8 DEF AfterMember, Shape
  <2> QED BY <1>8, <1>b, <1>q, <1>z, <2>1 DEF AfterMember, Shape
<1>9. CASE StopRead
  <2>1. batch \in Batches /\ spos \in Nat /\ pc = "stopread" /\ spos >= 1
    BY <1>9, <1>r DEF StopRead, Shape, WorkT
  <2> QED BY <1>9, <1>b, <1>q, <1>z, <2>1 DEF StopRead, Go, Shape
<1>10. CASE StopCommit
  <2>1. batch \in Batches /\ spos \in DOMAIN Members[batch] /\ pc = "stopcommit"
    BY <1>10 DEF StopCommit, Shape
  <2> QED BY <1>10, <1>i, <1>b, <1>q, <1>z, <2>1 DEF StopCommit, Shape
<1>11. CASE BatchStopped \/ FinishBatch
  BY <1>11, <1>i DEF BatchStopped, FinishBatch
<1>12. CASE BatchFailed
  <2>1. batch \in Batches
    BY <1>12 DEF BatchFailed, Shape
  <2> QED BY <1>12, <1>i, <1>b, <1>q, <1>z, <2>1 DEF BatchFailed, Shape
<1>13. CASE CloseBatch
  <2>1. batch \in Batches /\ pos > Len(Members[batch])
    BY <1>13 DEF CloseBatch, Shape
  <2> QED BY <1>13, <1>b, <1>q, <1>z, <2>1 DEF CloseBatch, Shape
<1> QED
  BY <1>1, <1>2, <1>3, <1>4, <1>5, <1>6, <1>7, <1>8, <1>9, <1>10, <1>11, <1>12, <1>13 DEF Worker

\* The event loop's steps.
LEMMA ShapeServer ==
  ASSUME Typed, Shape, EventLoop, Parents, Server
  PROVE  Shape'
<1>1. CASE Released("idle")
  BY <1>1, MemberPlaces DEF Released, Shape, InBatch, Running, Stop
<1>2. CASE UNCHANGED batchVars
  <2>1. batch \in Batches => bstate'[batch] # "absent"
    BY ServerParents DEF Shape
  <2>2. batch \in Batches /\ bstate[batch] # "queued" => bstate'[batch] # "queued"
    BY ServerParents DEF Shape
  <2>3. batch \in Batches /\ bstate[batch] \notin BatchTerminal
        => bstate'[batch] \notin BatchTerminal
    BY ServerParents DEF BatchTerminal
  <2> QED BY <1>2, <2>1, <2>2, <2>3 DEF batchVars, Shape
<1> QED BY <1>1, <1>2, ServerFrame

\* What is in the queue stays fit for the worker.
LEMMA StillQueueable ==
  ASSUME Next, \A b \in Batches : bstate[b] # "absent" => bstate'[b] # "absent"
  PROVE  \A i : Queueable(i) => Queueable(i)'
  BY DEF Queueable, Standalone

\* The queue and the event loop: the worker's steps.
LEMMA LoopWorker ==
  ASSUME Typed, Shape, EventLoop, Child, Worker
  PROVE  EventLoop'
<1>1. UNCHANGED <<lpc, job>> /\ lpc # "down"
  BY WorkerFrame DEF serverVars
<1>2. \A b \in Batches : bstate[b] # "absent" => bstate'[b] # "absent"
  BY WorkerMoves DEF ParentFurther, BatchTerminal
<1>3. \A i \in 1..Len(fifo') : Queueable(fifo'[i])
  BY WorkerFrame, HeadTail DEF EventLoop, Typed
<1>4. \A i : Queueable(i) => Queueable(i)'
  BY <1>2, StillQueueable DEF Next
<1>5. (\A i \in 1..Len(fifo) : Queueable(fifo[i]))'
  BY <1>3, <1>4 DEF Queueable, Standalone
<1>6. EventLoop
  OBVIOUS
<1> QED BY <1>1, <1>2, <1>5, <1>6 DEF EventLoop

\* The event loop's steps, a crash and a restart.
LEMMA LoopServer ==
  ASSUME Typed, Shape, EventLoop, Parents, Server
  PROVE  EventLoop'
<1>r. RowT /\ QueueT /\ LoopT
  BY DEF Typed
<1>2. \A b \in Batches : bstate[b] # "absent" => bstate'[b] # "absent"
  BY ServerParents DEF ParentFurther, BatchTerminal
<1>4. \A i : Queueable(i) => Queueable(i)'
  BY <1>2, StillQueueable DEF Next
<1>s. ASSUME fifo' = fifo
      PROVE  (\A i \in 1..Len(fifo) : Queueable(fifo[i]))'
  BY <1>s, <1>4 DEF EventLoop
<1>p. ASSUME NEW x \in Items, Queueable(x)', fifo' = Append(fifo, x)
      PROVE  (\A i \in 1..Len(fifo) : Queueable(fifo[i]))'
  <2>1. fifo \in Seq(Items) /\ Len(fifo) \in Nat /\ Len(fifo') = Len(fifo) + 1
    BY <1>p, <1>r DEF QueueT
  <2>2. \A i \in 1..Len(fifo') : fifo'[i] = IF i <= Len(fifo) THEN fifo[i] ELSE x
    BY <1>p, <2>1
  <2>3. \A i \in 1..Len(fifo') : i <= Len(fifo) => Queueable(fifo[i])
    BY <2>1 DEF EventLoop
  <2> QED BY <1>p, <1>4, <2>1, <2>2, <2>3 DEF Queueable, Standalone
<1> USE DEF serverVars, ServerOnly
<1>5. CASE \E b \in Batches : StartBatch(b)
  <2>1. PICK b \in Batches : StartBatch(b)
    BY <1>5
  <2>2. bstate'[b] = "queued"
    BY <2>1, <1>r DEF StartBatch, RowT
  <2>3. fifo' = fifo /\ lpc' = "submit" /\ job' = b
    BY <2>1 DEF StartBatch
  <2> QED BY <2>2, <2>3, <1>s DEF EventLoop
<1>6. CASE \E e \in Executions : StartOne(e)
  <2>1. PICK e \in Executions : StartOne(e)
    BY <1>6
  <2>3. fifo' = fifo /\ lpc' = "submit" /\ job' \in Standalone
    BY <2>1 DEF StartOne
  <2> QED BY <2>3, <1>s DEF EventLoop, Standalone
<1>7. CASE \/ \E b \in Batches : CancelBatch(b)
           \/ CancelParent \/ CancelMember
           \/ \E e \in Executions : CancelOne(e)
  <2>1. /\ fifo' = fifo
        /\ \/ lpc' = "ready"
           \/ lpc' = "cancel" /\ job' \in Batches /\ bstate[job'] # "absent"
    BY <1>7 DEF CancelBatch, CancelParent, CancelMember, CancelOne, BatchActive, EventLoop
  <2> QED BY <2>1, <1>2, <1>s DEF EventLoop, Standalone
<1>8. CASE Submit
  <2>1. job \in Standalone \/ (job \in Batches /\ bstate[job] # "absent")
    BY <1>8 DEF Submit, EventLoop
  <2>2. Item(job) \in Items /\ Queueable(Item(job))
    <3>1. job \in Standalone => job \notin Batches
      BY BatchAssumption DEF Standalone
    <3>2. Item(job).kind = (IF job \in Batches THEN "batch" ELSE "execute") /\ Item(job).id = job
      BY DEF Item
    <3>3. Item(job) \in Items
      BY <2>1 DEF Item, Items, Standalone, Work
    <3> QED BY <2>1, <3>1, <3>2, <3>3 DEF Queueable
  <2>3. fifo' = fifo \/ \E x \in Items : Queueable(x)' /\ fifo' = Append(fifo, x)
    <3>1. PICK x \in Items : x = Item(job)
      BY <2>2
    <3>2. Queueable(x)'
      BY <3>1, <2>2, <1>4
    <3> QED BY <1>8, <3>1, <3>2 DEF Submit
  <2>4. lpc' = "ready"
    BY <1>8 DEF Submit
  <2> QED BY <2>3, <2>4, <1>p, <1>s DEF EventLoop
<1>9. CASE CloseCoordinator
  <2>2. \E x \in Items : Queueable(x)' /\ fifo' = Append(fifo, x)
    <3>1. PICK x \in Items : x = [kind |-> "stop", id |-> None]
      BY DEF Items
    <3>2. Queueable(x)'
      BY <3>1 DEF Queueable
    <3> QED BY <1>9, <3>1, <3>2 DEF CloseCoordinator
  <2>3. lpc' = "joining"
    BY <1>9 DEF CloseCoordinator
  <2> QED BY <2>2, <2>3, <1>p DEF EventLoop
<1>10. CASE ForceStop \/ ForceRow \/ ForceRaises \/ ForceDone \/ StopWhenIdle
  <2>1. fifo' = fifo /\ lpc' \in {"force", "ready"}
    BY <1>10 DEF ForceStop, ForceRow, ForceRaises, ForceDone, StopWhenIdle
  <2> QED BY <2>1, <1>s DEF EventLoop
<1>11. CASE Exit \/ Crash \/ CrashInAppend \/ CrashInCancel
  <2>1. fifo' = <<>> /\ lpc' = "down" /\ pc' = "idle"
    BY <1>11 DEF Exit, Crash, CrashInAppend, CrashInCancel, ProcessEnds, Released
  <2>2. Len(fifo') = 0
    BY <2>1
  <2> QED BY <2>1, <2>2 DEF EventLoop
<1>12. CASE Boot
  <2>1. PICK rows \in [Executions -> ExecStates] :
          /\ state' = rows
          /\ \E u \in UnfinishedParents, v \in RowsIn(rows, "disconnected"),
               w \in RowsIn(rows, "queued") :
               fifo' = Resumed(u, v, w)
    BY <1>12 DEF Boot
  <2>2. \A i \in 1..Len(fifo') :
          \/ fifo'[i].kind = "batch" /\ fifo'[i].id \in Batches
                /\ bstate[fifo'[i].id] \in BatchActive
          \/ /\ fifo'[i].kind \in {"recover", "execute"} /\ fifo'[i].id \in Executions
             /\ ~Owned(fifo'[i].id)
             /\ state'[fifo'[i].id] = IF fifo'[i].kind = "recover" THEN "disconnected" ELSE "queued"
    BY <2>1, ResumedQueue
  <2>3. \A e \in Executions : ~Owned(e) /\ state'[e] = "queued" => e \in Standalone
    <3> SUFFICES ASSUME NEW e \in Executions, ~Owned(e), e \notin Standalone
                 PROVE  state'[e] # "queued"
      OBVIOUS
    <3>1. PICK b \in Batches : e \in MembersOf(b)
      BY DEF Standalone, IsMember
    <3>2. bstate[b] \in {"absent"} \cup BatchTerminal
      BY <3>1, <1>r DEF Owned, RowT
    <3>3. state[e] # "queued"
      BY <3>1, <3>2, WorkerStates DEF Parents
    <3>4. \/ state'[e] = state[e]
          \/ state[e] \in ActiveStates /\ state'[e] \in {"disconnected"} \cup TerminalStates
      BY <1>12, BootRows
    <3> QED BY <3>3, <3>4, WorkerStates
  <2>4. bstate' = bstate /\ lpc' = "ready"
    BY <1>12 DEF Boot
  <2>5. (\A i \in 1..Len(fifo) : Queueable(fifo[i]))'
    BY <2>2, <2>3, <2>4, WorkerStates DEF Queueable, Standalone, BatchActive
  <2> QED BY <2>4, <2>5 DEF EventLoop
<1>13. CASE BootFails
  <2>1. UNCHANGED <<fifo, lpc, job, pc, bstate>>
    BY <1>13 DEF BootFails, batchVars
  <2> QED BY <2>1, <1>s DEF EventLoop, Standalone
<1> QED
  BY <1>5, <1>6, <1>7, <1>8, <1>9, <1>10, <1>11, <1>12, <1>13 DEF Server

-----------------------------------------------------------------------------
(***************************************************************************)
(* The loop's own facts, through the event loop's steps.                   *)
(***************************************************************************)

\* Rows that move further: what is settled stays, and stays as it is.
LEMMA RowsKept ==
  ASSUME Next, \A e \in Executions : Further(e)
  PROVE  \A e \in Executions :
           /\ Settled(e) => Settled(e)'
           /\ Passed(e) => Passed(e)'
           /\ e \in left => e \in left'
           /\ state[e] \in TerminalStates => state'[e] = state[e]
           /\ state[e] # "absent" => state'[e] # "absent"
           /\ state[e] \notin {"absent", "queued"} => state'[e] # "queued"
<1>1. left \subseteq left'
  BY LeftGrows
<1> QED BY <1>1, WorkerStates DEF Further, Settled, Passed

\* A parent's members move together with it.
LEMMA ParentsServer ==
  ASSUME Typed, Shape, EventLoop, Parents, Server
  PROVE  Parents'
<1>1. \A e \in Executions : Further(e)
  BY ServerRows
<1>2. /\ \A e \in Executions : state[e] # "absent" => state'[e] # "absent"
      /\ \A e \in Executions : state[e] \notin {"absent", "queued"} => state'[e] # "queued"
  BY <1>1, RowsKept DEF Next
<1>3. \A e \in Executions : state[e] \in Waiting => state'[e] \in Waiting
  <2> SUFFICES ASSUME NEW e \in Executions, state[e] \in Waiting PROVE state'[e] \in Waiting
    OBVIOUS
  <2>1. Further(e) /\ (state'[e] \in ActiveStates => state[e] \in ActiveStates)
    BY ServerRows
  <2>2. /\ "dispatching" \in ActiveStates
        /\ "interrupted" \notin ActiveStates \cup {"absent"} /\ "queued" \notin ActiveStates
    BY DEF ActiveStates
  <2> QED BY <2>1, <2>2 DEF Further, Waiting
<1>4. pc' = "start" => pc = "start" /\ batch' = batch
  BY ServerFrame DEF batchVars, Released
<1>l. \A e \in left' : state'[e] \notin {"absent", "queued"}
  <2>1. left' = left /\ \A e \in left : e \in Executions /\ state[e] \notin {"absent", "queued"}
    BY LeftGrows DEF Next, Parents, Typed, RowT
  <2> QED BY <1>2, <2>1
<1> SUFFICES ASSUME NEW b \in Batches
             PROVE  /\ bstate'[b] = "absent" => \A e \in MembersOf(b) : state'[e] = "absent"
                    /\ bstate'[b] # "absent" => \A e \in MembersOf(b) : state'[e] # "absent"
                    /\ bstate'[b] \in BatchTerminal => \A e \in MembersOf(b) : state'[e] # "queued"
                    /\ bstate'[b] = "cancelling" => b \in requested'
                    /\ bstate'[b] = "queued" \/ (pc' = "start" /\ b = batch') =>
                         \A e \in MembersOf(b) : state'[e] \in Waiting
  BY <1>l DEF Parents
<1>m. \A e \in MembersOf(b) : e \in Executions
  BY MemberPlaces
<1>5. /\ bstate[b] = "absent" => \A e \in MembersOf(b) : state[e] = "absent"
      /\ bstate[b] # "absent" => \A e \in MembersOf(b) : state[e] # "absent"
      /\ bstate[b] \in BatchTerminal => \A e \in MembersOf(b) : state[e] # "queued"
      /\ bstate[b] = "cancelling" => b \in requested
      /\ bstate[b] = "queued" \/ (pc = "start" /\ b = batch) =>
           \A e \in MembersOf(b) : state[e] \in Waiting
  BY DEF Parents
<1>6. CASE bstate'[b] = bstate[b]
  <2>1. bstate[b] = "absent" => \A e \in MembersOf(b) : state'[e] = state[e]
    BY <1>6, ServerParents
  <2>2. requested \subseteq requested'
    BY ServerParents
  <2>3. bstate[b] \in BatchTerminal => bstate[b] # "absent"
    BY DEF BatchTerminal
  <2> QED BY <1>2, <1>3, <1>4, <1>m, <1>5, <1>6, <2>1, <2>2, <2>3
<1>7. CASE /\ bstate[b] = "absent" /\ bstate'[b] = "queued"
           /\ \A e \in MembersOf(b) : state'[e] = "queued"
  BY <1>7 DEF Waiting, BatchTerminal
<1>8. CASE bstate'[b] # bstate[b] /\ bstate'[b] = "cancelling" /\ b \in requested'
  <2>1. bstate[b] # "absent"
    BY <1>8, ServerParents DEF ParentFurther, BatchActive
  <2> QED BY <1>2, <1>3, <1>4, <1>m, <1>5, <1>8, <2>1 DEF BatchTerminal
<1> QED BY <1>6, <1>7, <1>8, ServerParents

\* The worker's loop, where the process goes on: nothing that it relies on
\* is taken from it.
LEMMA LoopKept ==
  ASSUME Typed, Shape, EventLoop, Parents, Server, lpc # "down", UNCHANGED batchVars
  PROVE  /\ \A e \in Executions :
              /\ state[e] \in Waiting => state'[e] \in Waiting
              /\ state[e] \in TerminalStates => state'[e] = state[e]
              /\ state[e] \in ActiveStates => state'[e] \in {state[e], "unknown"}
              /\ state'[e] \in ActiveStates => state[e] \in ActiveStates
              /\ state[e] \notin {"absent", "queued"} => state'[e] \notin {"absent", "queued"}
              /\ Settled(e) => Settled(e)'
         /\ left' = left
         /\ batch \in Batches =>
              /\ batch \in cont => batch \in cont'
              /\ bstate[batch] = "cancelling" => bstate'[batch] = "cancelling"
              /\ batch \in requested => batch \in requested'
<1>1. \A e \in Executions : Further(e)
  BY ServerRows
<1>2. \A e \in Executions :
        /\ Settled(e) => Settled(e)'
        /\ state[e] \in TerminalStates => state'[e] = state[e]
        /\ state[e] \notin {"absent", "queued"} => state'[e] \notin {"absent", "queued"}
  BY <1>1, RowsKept DEF Next
<1>3. \A e \in Executions : state[e] \in Waiting => state'[e] \in Waiting
  BY ServerRows, WorkerStates DEF Further, Waiting, TerminalStates
<1>4. left' = left
  BY LeftGrows DEF Next
<1>5. \A e \in Executions :
              /\ state[e] \in ActiveStates => state'[e] \in {state[e], "unknown"}
              /\ state'[e] \in ActiveStates => state[e] \in ActiveStates
  <2> SUFFICES ASSUME NEW e \in Executions
               PROVE  /\ state[e] \in ActiveStates => state'[e] \in {state[e], "unknown"}
                      /\ state'[e] \in ActiveStates => state[e] \in ActiveStates
    OBVIOUS
  <2>1. /\ state'[e] \in ActiveStates => state[e] \in ActiveStates
        /\ state[e] \in ActiveStates /\ state'[e] # state[e] => state'[e] = "unknown"
    BY ServerRows
  <2> QED BY <2>1
<1>6. batch \in Batches => bstate[batch] # "absent"
  BY DEF Shape
<1>7. batch \in Batches =>
              /\ batch \in cont => batch \in cont'
              /\ bstate[batch] = "cancelling" => bstate'[batch] = "cancelling"
              /\ batch \in requested => batch \in requested'
  BY <1>6, ServerParents
<1> QED BY <1>2, <1>3, <1>4, <1>5, <1>7

\* The child, what was passed and what is being stopped.
LEMMA ChildServer ==
  ASSUME Typed, Shape, EventLoop, Parents, Child, Server
  PROVE  Child'
<1>1. CASE pc' = "idle"
  BY <1>1 DEF Child
<1>2. CASE lpc # "down" /\ UNCHANGED batchVars
  <2>1. UNCHANGED <<pc, batch, child>>
    BY <1>2 DEF batchVars
  <2>2. CASE pc \in Running
    <3>1. child \in Executions
      BY <2>2 DEF Shape
    <3>2. /\ state[child] \in Waiting => state'[child] \in Waiting
          /\ state[child] \in TerminalStates => state'[child] = state[child]
          /\ state[child] \in ActiveStates => state'[child] \in {state[child], "unknown"}
      BY <1>2, <3>1, LoopKept
    <3>4. "unknown" \in Failures /\ Failures \subseteq TerminalStates
      BY DEF Failures, TerminalStates
    <3> QED BY <2>1, <3>2, <3>4 DEF Child
  <2>3. CASE pc \notin Running
    BY <2>1, <2>3 DEF Child, Running
  <2> QED BY <2>2, <2>3
<1> QED BY <1>1, <1>2, ServerFrame DEF Released, batchVars

\* What the batch loop has passed.
LEMMA ProgressServer ==
  ASSUME Typed, Shape, EventLoop, Parents, Progress, Server
  PROVE  Progress'
<1>1. CASE batch' = None
  BY <1>1, MemberPlaces DEF Progress
<1>2. CASE lpc # "down" /\ UNCHANGED batchVars
  <2> SUFFICES ASSUME batch \in Batches PROVE Progress'
    BY <1>2 DEF Progress, batchVars
  <2>0. UNCHANGED <<pc, batch, child, pos, saw, final>> /\ pos \in Nat /\ left' = left
    BY <1>2, LoopKept DEF batchVars, Typed, WorkT
  <2>m. /\ Len(Members[batch]) \in Nat /\ pos \in 1..(Len(Members[batch]) + 1)
        /\ \A i \in 1..Len(Members[batch]) : Members[batch][i] \in Executions
        /\ \A e \in MembersOf(batch) : e \in Executions
        /\ pc = "after" => pos \in 1..Len(Members[batch])
    BY MemberPlaces DEF Shape
  <2>1. \A i \in 1..(pos - 1) :
          /\ Settled(Members[batch][i])'
          /\ ~saw => state'[Members[batch][i]] = "finished" \/ Members[batch][i] \in left
    <3> SUFFICES ASSUME NEW i \in 1..(pos - 1)
                 PROVE  /\ Settled(Members[batch][i])'
                        /\ ~saw => \/ state'[Members[batch][i]] = "finished"
                                   \/ Members[batch][i] \in left
      OBVIOUS
    <3>1. Members[batch][i] \in Executions
      BY <2>m
    <3>2. /\ Settled(Members[batch][i])
          /\ ~saw => state[Members[batch][i]] = "finished" \/ Members[batch][i] \in left
      BY DEF Progress
    <3>3. "finished" \in TerminalStates
      BY DEF TerminalStates
    <3> DEFINE e == Members[batch][i]
    <3>4. \A d \in Executions :
             Settled(d) => Settled(d)' /\ (state[d] \in TerminalStates => state'[d] = state[d])
      BY <1>2, LoopKept
    <3>5. Settled(e)' /\ (state[e] \in TerminalStates => state'[e] = state[e])
      BY <2>0, <3>1, <3>2, <3>4 DEF Settled
    <3> QED BY <2>0, <3>2, <3>3, <3>5 DEF Settled, Passed
  <2>2. pc = "after" => Settled(Members[batch][pos])'
    BY <1>2, <2>0, <2>m, LoopKept DEF Settled, Passed, Progress
  <2>3. saw => SomeFailed'
    BY <1>2, <2>0, <2>m, LoopKept DEF SomeFailed, Progress, Failures
  <2>4. saw /\ pc \in Loop => batch \in cont' \/ bstate'[batch] = "cancelling"
    BY <1>2, LoopKept DEF Progress
  <2>5. pc = "final" => /\ final = "interrupted" => batch \in requested'
                        /\ final = "error" => saw
                        /\ final = "finished" => ~saw
    BY <1>2, LoopKept DEF Progress
  <2>6. pc \in Running =>
          \A j \in (pos + 1)..Len(Members[batch]) :
            state'[Members[batch][j]] \in ActiveStates => LeftFrom(batch, pos, j)
    <3> SUFFICES ASSUME pc \in Running, NEW j \in (pos + 1)..Len(Members[batch]),
                        state'[Members[batch][j]] \in ActiveStates
                 PROVE  LeftFrom(batch, pos, j)
      OBVIOUS
    <3>1. Members[batch][j] \in Executions
      BY <2>0, <2>m
    <3>2. state[Members[batch][j]] \in ActiveStates
      BY <1>2, <3>1, LoopKept
    <3> QED BY <3>2 DEF Progress
  <2> QED BY <2>0, <2>1, <2>2, <2>3, <2>4, <2>5, <2>6 DEF Progress, Settled, Passed, LeftFrom
<1> QED BY <1>1, <1>2, ServerFrame DEF Released, batchVars, Shape

\* What is being stopped.
LEMMA StoppingServer ==
  ASSUME Typed, Shape, EventLoop, Parents, Stopping, Server
  PROVE  Stopping'
<1>1. CASE pc' = "idle"
  BY <1>1 DEF Stopping, Stop
<1>2. CASE lpc # "down" /\ UNCHANGED batchVars
  <2> SUFFICES ASSUME pc \in Stop \cup {"failed"} PROVE Stopping'
    BY <1>2 DEF Stopping, batchVars, Stop
  <2>0. UNCHANGED <<pc, batch, spos>> /\ spos \in Nat /\ left' = left
    BY <1>2, LoopKept DEF batchVars, Typed, WorkT
  <2>b. batch \in Batches
    BY DEF Shape, InBatch, Stop
  <2>m. /\ Len(Members[batch]) \in Nat /\ (pc \in Stop => spos \in 1..(Len(Members[batch]) + 1))
        /\ \A i \in 1..Len(Members[batch]) :
             Members[batch][i] \in Executions /\ Members[batch][i] \in MembersOf(batch)
        /\ \A e \in MembersOf(batch) : e \in Executions
        /\ pc = "stopcommit" => spos \in 1..Len(Members[batch])
    BY <2>b, MemberPlaces DEF Shape
  <2>f. "interrupted" \in Failures /\ Failures \subseteq TerminalStates
    BY DEF Failures, TerminalStates
  <2>s. SomeFailed => SomeFailed'
    BY <1>2, <2>0, <2>m, <2>f, LoopKept DEF SomeFailed
  <2>q. ASSUME NEW e \in MembersOf(batch), state[e] = "queued", state'[e] # "queued"
        PROVE  SomeFailed'
    <3>1. state'[e] = "interrupted"
      BY <1>2, <2>m, <2>q, LoopKept DEF Waiting
    <3> QED BY <2>0, <2>f, <3>1 DEF SomeFailed
  <2>1. pc \in Stop => \A i \in 1..(spos - 1) : 
          state'[Members[batch][i]] \notin {"absent", "queued"}
    <3> SUFFICES ASSUME pc \in Stop, NEW i \in 1..(spos - 1)
                 PROVE  state'[Members[batch][i]] \notin {"absent", "queued"}
      OBVIOUS
    <3>1. Members[batch][i] \in Executions
      BY <2>0, <2>m
    <3>2. state[Members[batch][i]] \notin {"absent", "queued"}
      BY DEF Stopping
    <3> QED BY <1>2, <3>1, <3>2, LoopKept
  <2>2. \A j \in 1..Len(Members[batch]) :
          state'[Members[batch][j]] \in ActiveStates => LeftFrom(batch, 1, j)
    BY <1>2, <2>m, LoopKept DEF Stopping
  <2>l. SomeLeft => SomeLeft'
    BY <2>0 DEF SomeLeft
  <2>3. pc = "stopcommit" => state'[Members[batch][spos]] \in Waiting
    BY <1>2, <2>m, LoopKept DEF Stopping
  <2>4. pc = "failed" => SomeFailed' \/ SomeLeft'
        \/ \E e \in MembersOf(batch) : state'[e] = "queued"
    BY <2>l, <2>s, <2>q DEF Stopping
  <2>5. pc \in {"stopread", "stopcommit"} =>
          SomeFailed' \/ SomeLeft'
                \/ \E i \in spos..Len(Members[batch]) : state'[Members[batch][i]] = "queued"
    <3> SUFFICES ASSUME pc \in {"stopread", "stopcommit"}, ~SomeFailed', ~SomeLeft'
                 PROVE  \E i \in spos..Len(Members[batch]) : state'[Members[batch][i]] = "queued"
      OBVIOUS
    <3>1. PICK i \in spos..Len(Members[batch]) : state[Members[batch][i]] = "queued"
      BY <2>l, <2>s DEF Stopping
    <3>2. i \in 1..Len(Members[batch])
      BY <2>0, <2>m DEF Stop
    <3> QED BY <2>q, <2>m, <3>1, <3>2
  <2>6. pc = "stopped" => SomeFailed' \/ SomeLeft'
    BY <2>l, <2>s DEF Stopping
  <2> QED BY <2>0, <2>1, <2>2, <2>3, <2>4, <2>5, <2>6 DEF Stopping, LeftFrom
<1> QED BY <1>1, <1>2, ServerFrame DEF Released, batchVars

\* Order: no row becomes active but in the worker's hands.
LEMMA StrictServer ==
  ASSUME Typed, Shape, EventLoop, Parents, Strict, Server
  PROVE  Strict'
<1> SUFFICES ASSUME NEW b \in Batches, NEW j \in DOMAIN Members[b],
                    state'[Members[b][j]] \in ActiveStates, Members[b][j] \notin left'
             PROVE  /\ \A i \in 1..(j - 1) :
                         /\ Passed(Members[b][i])'
                         /\ \/ state'[Members[b][i]] = "finished" \/ Members[b][i] \in left'
                            \/ b \in cont' \/ bstate'[b] \in {"cancelling"} \cup BatchTerminal
                    /\ lpc' # "down" /\ state'[Members[b][j]] \in {"dispatching", "running"} =>
                         pc' \in {"watch", "event"} /\ child' = Members[b][j]
  BY DEF Strict, InOrderOf, Passed
<1>0. left' = left
  BY LeftGrows DEF Next
<1>m. /\ j \in Nat /\ Members[b][j] \in Executions /\ Members[b][j] \in MembersOf(b)
      /\ \A i \in 1..(j - 1) : Members[b][i] \in Executions
  BY MemberPlaces
<1>1. /\ state[Members[b][j]] \in ActiveStates
      /\ state'[Members[b][j]] = state[Members[b][j]] \/ state'[Members[b][j]] = "disconnected"
  BY <1>m, ServerRows
<1>2. /\ \A i \in 1..(j - 1) :
           /\ Passed(Members[b][i])
           /\ \/ state[Members[b][i]] = "finished" \/ Members[b][i] \in left
              \/ b \in cont \/ bstate[b] \in {"cancelling"} \cup BatchTerminal
      /\ lpc # "down" /\ state[Members[b][j]] \in {"dispatching", "running"} =>
           pc \in {"watch", "event"} /\ child = Members[b][j]
  BY <1>0, <1>1 DEF Strict, InOrderOf
<1>3. \A e \in Executions :
        (Passed(e) => Passed(e)') /\ (state[e] \in TerminalStates => state'[e] = state[e])
  BY ServerRows, RowsKept DEF Next
<1>4. bstate[b] # "absent"
  BY <1>m, <1>1, WorkerStates DEF Parents
<1>5. /\ b \in cont => b \in cont'
      /\ bstate[b] \in {"cancelling"} \cup BatchTerminal =>
           bstate'[b] \in {"cancelling"} \cup BatchTerminal
  BY <1>4, ServerParents
<1>6. \A i \in 1..(j - 1) :
           /\ Passed(Members[b][i])'
           /\ \/ state'[Members[b][i]] = "finished" \/ Members[b][i] \in left'
              \/ b \in cont' \/ bstate'[b] \in {"cancelling"} \cup BatchTerminal
  <2> SUFFICES ASSUME NEW i \in 1..(j - 1)
               PROVE  /\ Passed(Members[b][i])'
                      /\ \/ state'[Members[b][i]] = "finished" \/ Members[b][i] \in left'
                         \/ b \in cont' \/ bstate'[b] \in {"cancelling"} \cup BatchTerminal
    OBVIOUS
  <2>1. Passed(Members[b][i])'
    BY <1>2, <1>3, <1>m, Zenon
  <2>2. state[Members[b][i]] = "finished" => state'[Members[b][i]] = "finished"
    BY <1>3, <1>m DEF TerminalStates
  <2> QED BY <1>0, <1>2, <1>5, <2>1, <2>2
<1>7. ASSUME lpc' # "down", state'[Members[b][j]] \in {"dispatching", "running"}
      PROVE  pc' \in {"watch", "event"} /\ child' = Members[b][j]
  <2>1. CASE lpc # "down" /\ UNCHANGED batchVars
    BY <1>1, <1>2, <1>7, <2>1 DEF batchVars
  <2>2. CASE Boot
    BY <1>7, <1>m, <2>2, BootRows
  <2> QED BY <1>7, <2>1, <2>2, ServerFrame
<1> QED BY <1>6, <1>7

\* A verdict that stays, over rows that are settled for good.
LEMMA VerdictKept ==
  ASSUME NEW b \in Batches, VerdictOf(b),
         bstate'[b] \in BatchTerminal => bstate'[b] = bstate[b],
         \A e \in Executions : state[e] \in TerminalStates => state'[e] = state[e],
         requested \subseteq requested', left \subseteq left'
  PROVE  VerdictOf(b)'
<1>m. /\ \A e \in MembersOf(b) : e \in Executions
      /\ \A j \in DOMAIN Members[b] : Members[b][j] \in Executions
  BY MemberPlaces
<1>t. "finished" \in TerminalStates /\ Failures \subseteq TerminalStates
      /\ BatchTerminal = {"finished", "error", "interrupted"}
  BY DEF Failures, TerminalStates, BatchTerminal
<1>1. ASSUME bstate'[b] \in BatchTerminal, NEW j \in DOMAIN Members[b]
      PROVE  state'[Members[b][j]] \in TerminalStates \/ LeftFrom(b, 1, j)'
  BY <1>1, <1>m DEF VerdictOf, LeftFrom
<1>2. ASSUME bstate'[b] = "finished", NEW e \in MembersOf(b)
      PROVE  state'[e] = "finished" \/ e \in left'
  BY <1>2, <1>m, <1>t DEF VerdictOf
<1>3. ASSUME bstate'[b] = "error"
      PROVE  \E e \in MembersOf(b) : state'[e] \in Failures \/ e \in left'
  BY <1>3, <1>m, <1>t DEF VerdictOf
<1>4. bstate'[b] = "interrupted" => b \in requested'
  BY <1>t DEF VerdictOf
<1> QED BY <1>1, <1>2, <1>3, <1>4 DEF VerdictOf, LeftFrom

\* A verdict, once given, stays true.
LEMMA VerdictServer ==
  ASSUME Typed, Shape, EventLoop, Parents, BatchVerdict, Server
  PROVE  BatchVerdict'
<1> SUFFICES ASSUME NEW b \in Batches
             PROVE  VerdictOf(b)'
  BY DEF BatchVerdict, VerdictOf, LeftFrom
<1>m. /\ \A e \in MembersOf(b) : e \in Executions
      /\ \A j \in DOMAIN Members[b] : Members[b][j] \in Executions
  BY MemberPlaces
<1>1. bstate'[b] \in BatchTerminal => bstate'[b] = bstate[b]
  BY ServerParents DEF BatchTerminal
<1>2. \A e \in Executions : state[e] \in TerminalStates => state'[e] = state[e]
  BY ServerRows, RowsKept DEF Next
<1>3. requested \subseteq requested' /\ left \subseteq left'
  BY ServerParents, LeftGrows DEF Next
<1>4. VerdictOf(b)
  BY DEF BatchVerdict, VerdictOf, LeftFrom
<1> QED BY <1>m, <1>1, <1>2, <1>3, <1>4, VerdictKept

-----------------------------------------------------------------------------
(***************************************************************************)
(* The loop's own facts, through the worker's steps.                       *)
(***************************************************************************)

\* Where the worker goes, and the rows it leaves alone on the way.
LEMMA WorkerGoes ==
  ASSUME Typed, Shape, EventLoop, Child, Worker
  PROVE  /\ pc \notin Running \cup {"stopcommit"} => \A e \in Executions : state'[e] = state[e]
         /\ pc' = "start" => OpenBatch /\ bstate[batch] = "queued" /\ batch' = batch
         /\ \A e \in Executions :
              /\ Settled(e) => Settled(e)'
              /\ e \in left => e \in left'
              /\ state[e] \in TerminalStates => state'[e] = state[e]
              /\ state[e] # "absent" => state'[e] # "absent"
              /\ state[e] \notin {"absent", "queued"} => state'[e] # "queued"
<1>1. pc \notin Running \cup {"stopcommit"} => \A e \in Executions : state'[e] = state[e]
  BY WorkerMoves
<1>2. pc' = "start" => OpenBatch /\ bstate[batch] = "queued" /\ batch' = batch
  <2>1. CASE OpenBatch
    BY <2>1 DEF OpenBatch, Released, Go, BatchTerminal
  <2>2. CASE TakeItem \/ NextMember \/ AfterMember \/ StopRead \/ StopCommit \/ BatchFailed
    BY <2>2 DEF TakeItem, NextMember, AfterMember, StopRead, StopCommit, BatchFailed, Released, Go
  <2>3. CASE Begin \/ Watch \/ StartRunning \/ BatchStopped \/ CloseBatch \/ FinishBatch
    BY <2>3 DEF Begin, Watch, StartRunning, BatchStopped, CloseBatch, FinishBatch, ChildReturns,
       ChildRaises, Released, Go
  <2>4. CASE Event
    BY <2>4, EventOutcome DEF Proceeds, Concludes, Leaves, GivesUp, Dies, Waits, Surprised,
       ChildReturns, ChildRaises, Released, Go
  <2> QED BY <2>1, <2>2, <2>3, <2>4 DEF Worker
<1>3. \A e \in Executions : Further(e)
  BY WorkerMoves
<1>4. \A e \in Executions :
           /\ Settled(e) => Settled(e)'
           /\ e \in left => e \in left'
           /\ state[e] \in TerminalStates => state'[e] = state[e]
           /\ state[e] # "absent" => state'[e] # "absent"
           /\ state[e] \notin {"absent", "queued"} => state'[e] # "queued"
  BY <1>3, RowsKept DEF Next
<1> QED BY <1>1, <1>2, <1>4

\* A batch is settled only over members that are settled, or come after one
\* that was left.
LEMMA SettledOver ==
  ASSUME Typed, Shape, Progress, Stopping, batch \in Batches, pc \in {"stopped", "final"},
         NEW j \in DOMAIN Members[batch]
  PROVE  /\ state[Members[batch][j]] \in TerminalStates \/ LeftFrom(batch, 1, j)
         /\ state[Members[batch][j]] \notin {"absent", "queued"}
         /\ pc = "final" /\ ~saw =>
              state[Members[batch][j]] = "finished" \/ Members[batch][j] \in left
<1>1. j \in 1..Len(Members[batch]) /\ Members[batch][j] \in Executions
  BY MemberPlaces
<1>2. Len(Members[batch]) \in Nat /\ pos \in Nat /\ spos \in Nat
  BY MemberPlaces DEF Typed, WorkT
<1>3. CASE pc = "final"
  <2>1. j \in 1..(pos - 1)
    BY <1>1, <1>2, <1>3 DEF Shape
  <2>2. /\ Settled(Members[batch][j])
        /\ ~saw => state[Members[batch][j]] = "finished" \/ Members[batch][j] \in left
    BY <2>1 DEF Progress
  <2>3. Members[batch][j] \in left => LeftFrom(batch, 1, j)
    BY <1>1 DEF LeftFrom
  <2> QED BY <2>2, <2>3 DEF Settled, Passed
<1>4. CASE pc = "stopped"
  <2>1. j \in 1..(spos - 1)
    BY <1>1, <1>2, <1>4 DEF Shape
  <2>2. state[Members[batch][j]] \notin {"absent", "queued"}
    BY <1>4, <2>1 DEF Stopping, Stop
  <2>3. state[Members[batch][j]] \in ActiveStates => LeftFrom(batch, 1, j)
    BY <1>1, <1>4 DEF Stopping, Stop
  <2>4. state[Members[batch][j]] \in ExecStates
    BY <1>1 DEF Typed, RowT
  <2> QED BY <1>4, <2>2, <2>3, <2>4 DEF ExecStates
<1> QED BY <1>3, <1>4

\* A parent's members move together with it.
LEMMA ParentsWorker ==
  ASSUME Typed, Shape, EventLoop, Parents, Child, Progress, Stopping, Worker
  PROVE  Parents'
<1>l. \A e \in left' : state'[e] \notin {"absent", "queued"}
  <2>1. ASSUME NEW e \in left PROVE state'[e] \notin {"absent", "queued"}
    <3>1. e \in Executions /\ state[e] \notin {"absent", "queued"}
      BY DEF Parents, Typed, RowT
    <3> QED BY <3>1, WorkerGoes
  <2>2. CASE left' = left
    BY <2>1, <2>2
  <2>3. CASE left' # left
    <3>1. left' = left \cup {child} /\ state' = state /\ (Watch \/ Event)
      BY <2>3, LeftGrows DEF Next
    <3>2. state[child] \in ActiveStates \cup Failures
      BY <3>1 DEF Watch, Event, Child
    <3>3. state'[child] \notin {"absent", "queued"}
      BY <3>1, <3>2, WorkerStates DEF Failures
    <3> QED BY <2>1, <3>1, <3>3
  <2> QED BY <2>2, <2>3
<1> SUFFICES ASSUME NEW b \in Batches
             PROVE  /\ bstate'[b] = "absent" => \A e \in MembersOf(b) : state'[e] = "absent"
                    /\ bstate'[b] # "absent" => \A e \in MembersOf(b) : state'[e] # "absent"
                    /\ bstate'[b] \in BatchTerminal => \A e \in MembersOf(b) : state'[e] # "queued"
                    /\ bstate'[b] = "cancelling" => b \in requested'
                    /\ bstate'[b] = "queued" \/ (pc' = "start" /\ b = batch') =>
                         \A e \in MembersOf(b) : state'[e] \in Waiting
  BY <1>l DEF Parents
<1>m. \A e \in MembersOf(b) : e \in Executions /\ e \notin Standalone
  BY MemberPlaces
<1>5. /\ bstate[b] = "absent" => \A e \in MembersOf(b) : state[e] = "absent"
      /\ bstate[b] # "absent" => \A e \in MembersOf(b) : state[e] # "absent"
      /\ bstate[b] \in BatchTerminal => \A e \in MembersOf(b) : state[e] # "queued"
      /\ bstate[b] = "cancelling" => b \in requested
      /\ bstate[b] = "queued" => \A e \in MembersOf(b) : state[e] \in Waiting
  BY DEF Parents
<1>6. requested' = requested
  BY WorkerFrame
<1>7. \A e \in MembersOf(b) :
        /\ state[e] = "absent" => state'[e] = "absent"
        /\ state[e] # "absent" => state'[e] # "absent"
        /\ state[e] \notin {"absent", "queued"} => state'[e] # "queued"
  BY <1>m, WorkerGoes, WorkerMoves
<1>8. CASE bstate'[b] # bstate[b]
  <2>1. b = batch /\ bstate[b] # "absent" /\ bstate'[b] \in {"running"} \cup BatchTerminal
    BY <1>8, WorkerMoves DEF ParentFurther, BatchActive, Typed, WorkT, BatchTerminal
  <2>2. bstate'[b] \in BatchTerminal =>
          pc \in {"stopped", "final"} /\ \A e \in Executions : state'[e] = state[e]
    BY <1>8, WorkerMoves, WorkerGoes DEF BatchStopped, FinishBatch, Running, BatchTerminal
  <2>3. bstate'[b] \in BatchTerminal => \A e \in MembersOf(b) : state'[e] # "queued"
    <3> SUFFICES ASSUME bstate'[b] \in BatchTerminal, NEW e \in MembersOf(b)
                 PROVE  state'[e] # "queued"
      OBVIOUS
    <3>1. PICK i \in DOMAIN Members[batch] : e = Members[batch][i]
      BY <2>1, MemberPlaces
    <3>2. state[e] # "queued"
      BY <2>1, <2>2, <3>1, SettledOver
    <3> QED BY <1>m, <2>2, <3>2
  <2>4. pc' # "start"
    BY <1>8, WorkerMoves, WorkerGoes DEF StartRunning, BatchStopped, FinishBatch, Go, Released
  <2> QED BY <2>1, <2>3, <2>4, <1>5, <1>7 DEF BatchTerminal
<1>9. CASE bstate'[b] = bstate[b]
  <2>1. bstate[b] \in BatchTerminal => bstate[b] # "absent"
    BY DEF BatchTerminal
  <2>2. ASSUME bstate[b] = "queued", NEW e \in MembersOf(b)
        PROVE  state'[e] \in Waiting
    <3>0. state[e] \in Waiting
      BY <1>5, <2>2
    <3>1. CASE state'[e] = state[e]
      BY <3>0, <3>1
    <3>2. CASE state'[e] # state[e]
      <4>1. state[e] = "queued"
        BY <3>0, <3>2, <1>m, WorkerGoes DEF Waiting, TerminalStates
      <4>2. CASE pc = "stopcommit" /\ e = Members[batch][spos]
        <5>1. batch \in Batches /\ e \in MembersOf(batch)
          BY <4>2, MemberPlaces DEF Shape, InBatch
        <5>2. b = batch
          BY <5>1, MemberPlaces
        <5> QED BY <2>2, <4>2, <5>2 DEF Shape
      <4>3. CASE pc \in Running /\ e = child
        <5>1. pc = "begin"
          BY <4>1, <4>3, WorkerStates DEF Child, Running, Failures, TerminalStates
        <5>2. batch \in Batches
          BY <4>3, <5>1, <1>m DEF Shape, Typed, WorkT
        <5>3. e \in MembersOf(batch)
          BY <4>3, <5>2, MemberPlaces DEF Shape
        <5>4. b = batch
          BY <5>2, <5>3, MemberPlaces
        <5> QED BY <2>2, <5>1, <5>4 DEF Shape
      <4> QED BY <3>2, <4>2, <4>3, <1>m, WorkerMoves
    <3> QED BY <3>1, <3>2
  <2>3. pc' = "start" /\ b = batch' => bstate[b] = "queued"
    BY WorkerGoes
  <2> QED BY <1>5, <1>6, <1>7, <1>9, <2>1, <2>2, <2>3
<1> QED BY <1>8, <1>9

\* What happens behind the loop's back: the worker's own steps.
LEMMA ChildWorker ==
  ASSUME Typed, Shape, EventLoop, Parents, Child, Worker
  PROVE  Child'
<1>r. RowT /\ WorkT
  BY DEF Typed
<1>f. "disconnected" \in ActiveStates /\ "queued" \in Waiting /\ "dispatching" \in ActiveStates
      /\ "running" \in ActiveStates /\ Failures \subseteq TerminalStates
      /\ None \notin Batches
  BY MemberPlaces DEF ActiveStates, Waiting, Failures
<1>o. pc' \notin Running => Child'
  BY DEF Child, Running
<1>1. CASE TakeItem
  <2>1. Head(fifo) \in Items /\ Queueable(Head(fifo)) /\ state' = state
    BY <1>1, HeadTail DEF TakeItem, Typed, rowVars
  <2>2. CASE /\ Head(fifo).kind = "execute" /\ pc' = "begin" /\ child' = Head(fifo).id
             /\ state[Head(fifo).id] = "queued"
    BY <2>1, <2>2, <1>f DEF Child
  <2>3. CASE /\ Head(fifo).kind = "recover" /\ pc' = "watch" /\ child' = Head(fifo).id
             /\ state[Head(fifo).id] = "disconnected"
    BY <2>1, <2>3, <1>f DEF Child
  <2> QED BY <1>1, <1>o, <2>2, <2>3 DEF TakeItem, Released, Running
<1>2. CASE Begin
  <2>1. child \in Executions /\ pc = "begin"
    BY <1>2 DEF Begin, Shape, Running
  <2>2. CASE SetState(child, "dispatching") /\ Go("watch")
    <3>1. state'[child] = "dispatching" /\ pc' = "watch" /\ child' = child /\ batch' = batch
      BY <2>1, <2>2, <1>r, OneRow DEF Go
    <3> QED BY <2>1, <3>1, <1>f DEF Child
  <2>3. CASE ChildReturns \/ ChildRaises
    BY <2>3, <1>o DEF ChildReturns, ChildRaises, Released, Running
  <2> QED BY <1>2, <2>2, <2>3 DEF Begin
<1>3. CASE Watch
  <2>1. CASE ChildReturns
    BY <2>1, <1>o DEF ChildReturns, Released, Running
  <2>2. CASE Go("event") /\ UNCHANGED rowVars
    BY <1>3, <2>2 DEF Watch, Go, Child, rowVars
  <2> QED BY <1>3, <2>1, <2>2 DEF Watch
<1>4. CASE Event
  <2>1. child \in Executions /\ pc = "event"
    BY <1>4 DEF Event, Shape, Running
  <2>2. CASE Concludes \/ Leaves \/ GivesUp \/ Dies \/ Surprised
    BY <2>2, <1>o DEF Concludes, Leaves, GivesUp, Dies, Surprised, ChildReturns, ChildRaises,
       Released, Running
  <2>3. CASE Proceeds
    <3>1. state'[child] \in ActiveStates /\ pc' = "watch" /\ child' = child
      BY <2>1, <2>3, <1>r, <1>f, OneRow DEF Proceeds, Go
    <3> QED BY <3>1 DEF Child
  <2>4. CASE Waits
    BY <2>1, <2>4 DEF Waits, Go, Child, Heals, rowVars
  <2> QED BY <1>4, <2>2, <2>3, <2>4, EventOutcome
<1>5. CASE NextMember
  <2>1. pc' = "begin" => state[child'] = "queued"
    BY <1>5 DEF NextMember, Go
  <2>2. pc' = "watch" => state[child'] = "disconnected"
    BY <1>5 DEF NextMember, Go
  <2>3. pc' # "event" /\ state' = state /\ batch' \in Batches
    BY <1>5 DEF NextMember, Go, rowVars, Shape, InBatch
  <2> QED BY <2>1, <2>2, <2>3, <1>f DEF Child
<1>6. CASE \/ OpenBatch \/ StartRunning \/ AfterMember \/ StopRead \/ StopCommit \/ BatchStopped
           \/ BatchFailed \/ CloseBatch \/ FinishBatch
  <2>1. pc' \notin Running
    <3>1. pc \notin Running
      BY <1>6 DEF OpenBatch, StartRunning, AfterMember, StopRead, StopCommit, BatchStopped,
         BatchFailed, CloseBatch, FinishBatch, Running
    <3> QED BY <1>6, <3>1 DEF OpenBatch, StartRunning, AfterMember, StopRead, StopCommit,
                              BatchStopped,
         BatchFailed, CloseBatch, FinishBatch, Running, Released, Go
  <2> QED BY <2>1, <1>o
<1> QED BY <1>1, <1>2, <1>3, <1>4, <1>5, <1>6 DEF Worker

\* The observation of a child ends when its row is settled, or is left.
LEMMA ObservedOn ==
  ASSUME Typed, Shape, EventLoop, Child, Watch \/ Event
  PROVE  /\ child \in Executions /\ state'[child] \notin {"absent", "queued"}
         /\ ChildReturns => state'[child] \in TerminalStates \/ child \in left'
         /\ state'[child] \in {"dispatching", "running"} =>
              child \in left' \/ (pc' \in {"watch", "event"} /\ child' = child)
<1>r. RowT /\ WorkT
  BY DEF Typed
<1>1. child \in Executions /\ pc \in {"watch", "event"}
      /\ state[child] \in ActiveStates \cup Failures
  BY DEF Watch, Event, Shape, Running, Child
<1>2. state'[child] \notin {"absent", "queued"}
  BY <1>1, WorkerGoes, WorkerStates DEF Worker, Failures
<1>f. /\ TerminalStates \cap ActiveStates = {}
      /\ {"dispatching", "running", "disconnected"} \cap TerminalStates = {}
  BY WorkerStates DEF ActiveStates
<1>t. state[child] \in TerminalStates => state'[child] \in TerminalStates
  BY <1>1, WorkerGoes DEF Worker
<1>c. ChildReturns => pc' \in {"idle", "after"}
  BY DEF ChildReturns, Released
<1>3. CASE Watch
  BY <1>1, <1>2, <1>3, <1>f, <1>t, <1>c DEF Watch, Go, Leave
<1>4. CASE Event
  <2>1. CASE Proceeds \/ Waits
    BY <1>1, <1>2, <1>c, <2>1 DEF Proceeds, Waits, Go
  <2>2. CASE Concludes
    <3>1. state'[child] \in TerminalStates
      BY <1>1, <1>r, <2>2, OneRow DEF Concludes
    <3> QED BY <1>1, <1>2, <1>f, <3>1
  <2>3. CASE Leaves \/ GivesUp
    BY <1>1, <1>2, <2>3 DEF Leaves, GivesUp, Leave
  <2>4. CASE Dies
    BY <1>1, <1>2, <1>c, <2>4 DEF Dies, Released, rowVars
  <2>5. CASE Surprised
    BY <1>1, <1>2, <1>f, <1>t, <2>5 DEF Surprised
  <2> QED BY <1>4, <2>1, <2>2, <2>3, <2>4, <2>5, EventOutcome
<1> QED BY <1>3, <1>4

\* Only _run_one takes a member from the queue to its dispatch, and only the
\* member whose turn it is.
LEMMA DispatchedInTurn ==
  ASSUME Typed, Shape, EventLoop, Child, Worker,
         NEW b \in Batches, NEW j \in DOMAIN Members[b],
         state[Members[b][j]] = "queued", state'[Members[b][j]] = "dispatching"
  PROVE  Begin /\ batch \in Batches /\ pc = "begin" /\ b = batch /\ j = pos /\ child = Members[b][j]
<1>r. RowT /\ WorkT
  BY DEF Typed
<1>m. /\ Members[b][j] \in Executions /\ Members[b][j] \in MembersOf(b)
      /\ Members[b][j] \notin Standalone /\ j \in 1..Len(Members[b])
  BY MemberPlaces
<1>1. \/ pc \in Running /\ child = Members[b][j]
      \/ StopCommit /\ Members[b][j] = Members[batch][spos]
  <2>1. pc = "stopcommit" => StopCommit
    BY DEF Worker, TakeItem, Begin, Watch, Event, OpenBatch, StartRunning, NextMember, AfterMember,
       StopRead, BatchStopped, BatchFailed, CloseBatch, FinishBatch
  <2> QED BY <1>m, <2>1, WorkerMoves
<1>2. ~(StopCommit /\ Members[b][j] = Members[batch][spos])
  BY <1>m, <1>r, OneRow DEF StopCommit
<1>3. pc = "begin" /\ child = Members[b][j]
  BY <1>1, <1>2, WorkerStates DEF Child, Running, Failures, TerminalStates
<1>4. Begin
  BY <1>3 DEF Worker, TakeItem, Watch, Event, OpenBatch, StartRunning, NextMember, AfterMember,
     StopRead, StopCommit, BatchStopped, BatchFailed, CloseBatch, FinishBatch
<1>5. batch \in Batches
  BY <1>m, <1>r, <1>3 DEF Shape, WorkT
<1>6. pos \in 1..Len(Members[batch]) /\ child = Members[batch][pos]
  BY <1>3, <1>5, MemberPlaces DEF Shape, Running
<1>7. b = batch
  BY <1>m, <1>3, <1>5, <1>6, MemberPlaces
<1>8. j = pos
  BY <1>m, <1>3, <1>6, <1>7, MemberPlaces
<1> QED BY <1>3, <1>4, <1>5, <1>7, <1>8

\* Order: a row becomes active only when its turn has come.
LEMMA StrictWorker ==
  ASSUME Typed, Shape, EventLoop, Parents, Child, Progress, Stopping, Strict, Worker
  PROVE  Strict'
<1> DEFINE Ends == {"cancelling"} \cup BatchTerminal
<1> SUFFICES ASSUME NEW b \in Batches, NEW j \in DOMAIN Members[b],
                    state'[Members[b][j]] \in ActiveStates, Members[b][j] \notin left'
             PROVE  /\ \A i \in 1..(j - 1) :
                         /\ state'[Members[b][i]] \in TerminalStates \/ Members[b][i] \in left'
                         /\ \/ state'[Members[b][i]] = "finished" \/ Members[b][i] \in left'
                            \/ b \in cont' \/ bstate'[b] \in Ends
                    /\ lpc' # "down" /\ state'[Members[b][j]] \in {"dispatching", "running"} =>
                         pc' \in {"watch", "event"} /\ child' = Members[b][j]
  BY DEF Strict, InOrderOf, Passed
<1>r. RowT /\ WorkT
  BY DEF Typed
<1>0. left \subseteq left' /\ Members[b][j] \notin left
  BY LeftGrows DEF Next
<1>m. /\ j \in Nat /\ Members[b][j] \in Executions /\ Members[b][j] \in MembersOf(b)
      /\ Members[b][j] \notin Standalone /\ j \in 1..Len(Members[b])
      /\ \A i \in 1..(j - 1) : Members[b][i] \in Executions
  BY MemberPlaces
<1>k. /\ \A e \in Executions : state[e] \in TerminalStates => state'[e] = state[e]
      /\ cont' = cont
  BY WorkerGoes, WorkerFrame
<1>g. "finished" \in TerminalStates
  BY DEF TerminalStates
<1>1. CASE state[Members[b][j]] \in ActiveStates
  <2>1. /\ \A i \in 1..(j - 1) :
             /\ state[Members[b][i]] \in TerminalStates \/ Members[b][i] \in left
             /\ \/ state[Members[b][i]] = "finished" \/ Members[b][i] \in left
                \/ b \in cont \/ bstate[b] \in Ends
        /\ state[Members[b][j]] \in {"dispatching", "running"} =>
             pc \in {"watch", "event"} /\ child = Members[b][j]
    BY <1>0, <1>1, WorkerFrame DEF Strict, InOrderOf, Passed
  <2>2. bstate[b] \in Ends => bstate'[b] \in Ends
    <3> SUFFICES ASSUME bstate'[b] # bstate[b], bstate[b] \in Ends PROVE bstate'[b] \in Ends
      OBVIOUS
    <3>1. b = batch /\ (StartRunning \/ BatchStopped \/ FinishBatch)
      BY WorkerMoves
    <3>2. CASE StartRunning
      BY <1>1, <1>m, <3>1, <3>2, WorkerStates DEF StartRunning, Parents, Waiting, ActiveStates
    <3>3. CASE BatchStopped
      <4>1. bstate'[b] = "error"
        BY <1>r, <3>1, <3>3, OneParent DEF BatchStopped, BatchTerminal
      <4> QED BY <4>1 DEF BatchTerminal
    <3>4. CASE FinishBatch
      <4>1. bstate'[b] \in BatchTerminal
        BY <1>r, <3>1, <3>4, OneParent DEF FinishBatch, WorkT
      <4> QED BY <4>1
    <3> QED BY <3>1, <3>2, <3>3, <3>4
  <2>3. \A i \in 1..(j - 1) :
             /\ state'[Members[b][i]] \in TerminalStates \/ Members[b][i] \in left'
             /\ \/ state'[Members[b][i]] = "finished" \/ Members[b][i] \in left'
                \/ b \in cont' \/ bstate'[b] \in Ends
    BY <1>0, <1>g, <1>k, <1>m, <2>1, <2>2
  <2>4. ASSUME state'[Members[b][j]] \in {"dispatching", "running"}
        PROVE  pc' \in {"watch", "event"} /\ child' = Members[b][j]
    <3>1. pc \in {"watch", "event"} /\ child = Members[b][j]
      <4>1. CASE state'[Members[b][j]] = state[Members[b][j]]
        BY <2>1, <2>4, <4>1
      <4>2. CASE state'[Members[b][j]] # state[Members[b][j]]
        <5>1. pc # "stopcommit" \/ Members[b][j] # Members[batch][spos]
          BY <1>1, WorkerStates DEF Stopping, Waiting, ActiveStates
        <5>2. pc \in Running /\ child = Members[b][j]
          BY <1>m, <4>2, <5>1, WorkerMoves
        <5>3. pc # "begin"
          BY <1>1, <5>2, WorkerStates DEF Child, Waiting, ActiveStates
        <5> QED BY <5>2, <5>3 DEF Running
      <4> QED BY <4>1, <4>2
    <3>2. Watch \/ Event
      BY <3>1 DEF Worker, TakeItem, Begin, OpenBatch, StartRunning, NextMember, AfterMember,
                  StopRead,
         StopCommit, BatchStopped, BatchFailed, CloseBatch, FinishBatch
    <3> QED BY <2>4, <3>1, <3>2, ObservedOn
  <2> QED BY <2>3, <2>4
<1>2. CASE state[Members[b][j]] \notin ActiveStates
  <2>1. state[Members[b][j]] = "queued" /\ state'[Members[b][j]] = "dispatching"
    <3>1. Further(Members[b][j])
      BY <1>m, WorkerMoves
    <3> QED BY <1>2, <3>1, WorkerStates DEF Further, ActiveStates
  <2>2. Begin /\ batch \in Batches /\ pc = "begin" /\ b = batch /\ j = pos /\ child = Members[b][j]
    BY <2>1, DispatchedInTurn
  <2>4. \A i \in 1..(j - 1) :
             /\ state[Members[b][i]] \in TerminalStates \/ Members[b][i] \in left
             /\ \/ state[Members[b][i]] = "finished" \/ Members[b][i] \in left
                \/ b \in cont \/ bstate[b] \in Ends
    BY <2>2 DEF Progress, Settled, Passed, Loop
  <2>5. bstate'[b] = bstate[b]
    BY <2>2, WorkerMoves DEF StartRunning, BatchStopped, FinishBatch
  <2>6. pc' = "watch" /\ child' = child
    <3>1. CASE SetState(child, "dispatching") /\ Go("watch")
      BY <3>1 DEF Go
    <3>2. CASE SetState(child, "interrupted")
      BY <1>m, <1>r, <2>1, <2>2, <3>2, OneRow
    <3>3. CASE state[child] # "queued" \/ UNCHANGED rowVars
      BY <2>1, <2>2, <3>3 DEF rowVars
    <3>4. CASE ChildRaises /\ batch = None
      BY <2>2, <3>4, MemberPlaces
    <3> QED BY <2>2, <3>1, <3>2, <3>3, <3>4 DEF Begin, ChildRaises
  <2> QED BY <1>0, <1>g, <1>k, <1>m, <2>2, <2>4, <2>5, <2>6
<1> QED BY <1>1, <1>2

\* A verdict is given only when it is true.
LEMMA VerdictWorker ==
  ASSUME Typed, Shape, EventLoop, Child, Progress, Stopping, BatchVerdict, Worker
  PROVE  BatchVerdict'
<1> SUFFICES ASSUME NEW b \in Batches
             PROVE  VerdictOf(b)'
  BY DEF BatchVerdict, VerdictOf, LeftFrom
<1>m. /\ \A e \in MembersOf(b) : e \in Executions /\ \E i \in DOMAIN Members[b] : e = Members[b][i]
      /\ \A j \in DOMAIN Members[b] : Members[b][j] \in Executions
  BY MemberPlaces
<1>k. /\ \A e \in Executions : state[e] \in TerminalStates => state'[e] = state[e]
      /\ requested' = requested /\ left \subseteq left'
  BY WorkerGoes, WorkerFrame, LeftGrows DEF Next
<1>v. VerdictOf(b)
  BY DEF BatchVerdict, VerdictOf, LeftFrom
<1>1. CASE bstate'[b] = bstate[b] \/ bstate'[b] \notin BatchTerminal
  BY <1>k, <1>v, <1>1, VerdictKept
<1>2. CASE bstate'[b] # bstate[b] /\ bstate'[b] \in BatchTerminal
  <2>1. /\ b = batch
        /\ \/ pc = "stopped" /\ bstate'[b] = "error"
           \/ pc = "final" /\ bstate'[b] = final
    BY <1>2, WorkerMoves DEF BatchStopped, FinishBatch, BatchTerminal
  <2>2. \A e \in Executions : state'[e] = state[e]
    BY <2>1, WorkerGoes DEF Running
  <2>3. \A j \in DOMAIN Members[b] :
          /\ state[Members[b][j]] \in TerminalStates \/ LeftFrom(b, 1, j)
          /\ pc = "final" /\ ~saw =>
               state[Members[b][j]] = "finished" \/ Members[b][j] \in left
    BY <2>1, SettledOver
  <2>4. pc = "stopped" => \E e \in MembersOf(b) : state[e] \in Failures \/ e \in left
    BY <2>1 DEF Stopping, SomeFailed, SomeLeft
  <2>5. pc = "final" =>
            /\ final = "interrupted" => b \in requested
            /\ final = "error" => \E e \in MembersOf(b) : state[e] \in Failures
            /\ final = "finished" => ~saw
    BY <2>1 DEF Progress, SomeFailed
  <2>6. \A j \in DOMAIN Members[b] :
          state'[Members[b][j]] \in TerminalStates \/ LeftFrom(b, 1, j)'
    BY <1>k, <1>m, <2>2, <2>3 DEF LeftFrom
  <2>7. bstate'[b] = "finished" => \A e \in MembersOf(b) : state'[e] = "finished" \/ e \in left'
    BY <1>k, <1>m, <2>1, <2>2, <2>3, <2>5
  <2>8. bstate'[b] = "error" => \E e \in MembersOf(b) : state'[e] \in Failures \/ e \in left'
    BY <1>k, <1>m, <2>1, <2>2, <2>4, <2>5
  <2>9. bstate'[b] = "interrupted" => b \in requested'
    BY <1>k, <2>1, <2>5
  <2> QED BY <2>6, <2>7, <2>8, <2>9 DEF VerdictOf
<1> QED BY <1>1, <1>2

\* What the batch loop has passed: the worker's own steps.
LEMMA ProgressWorker ==
  ASSUME Typed, Shape, EventLoop, Parents, Child, Progress, Strict, Worker
  PROVE  Progress'
<1> DEFINE Past(e) == /\ state'[e] \notin {"absent", "queued"}
                      /\ state'[e] \in TerminalStates \/ e \in left'
           Onward == \A j \in (pos + 1)..Len(Members[batch]) :
                       state'[Members[batch][j]] \in ActiveStates =>
                         \E k \in pos..j : Members[batch][k] \in left'
           Reason == batch \in cont' \/ bstate'[batch] = "cancelling"
<1>r. RowT /\ WorkT
  BY DEF Typed
<1>u. left \subseteq left'
  BY LeftGrows DEF Next
<1>f. /\ TerminalStates = {"finished"} \cup Failures /\ "interrupted" \in TerminalStates
      /\ TerminalStates \cap ActiveStates = {}
      /\ ExecStates = {"absent", "queued"} \cup ActiveStates \cup TerminalStates
  BY WorkerStates DEF Failures, TerminalStates, ExecStates
<1>m. batch \in Batches =>
        /\ Len(Members[batch]) \in Nat /\ pos \in 1..(Len(Members[batch]) + 1)
        /\ \A i \in 1..Len(Members[batch]) :
             Members[batch][i] \in Executions /\ Members[batch][i] \in MembersOf(batch)
        /\ \A e \in MembersOf(batch) : e \in Executions
  BY MemberPlaces DEF Shape
<1>k. /\ \A e \in Executions : Settled(e) => Past(e)
      /\ \A e \in Executions : state[e] \in TerminalStates => state'[e] = state[e]
      /\ cont' = cont /\ requested' = requested
  BY WorkerGoes, WorkerFrame DEF Settled
<1>a. batch \in Batches =>
        \A i \in 1..(pos - 1) :
          /\ Past(Members[batch][i])
          /\ ~saw => state'[Members[batch][i]] = "finished" \/ Members[batch][i] \in left'
  <2> SUFFICES ASSUME batch \in Batches, NEW i \in 1..(pos - 1)
               PROVE  /\ Past(Members[batch][i])
                      /\ \/ saw \/ state'[Members[batch][i]] = "finished"
                         \/ Members[batch][i] \in left'
    OBVIOUS
  <2>1. Members[batch][i] \in Executions
    BY <1>m
  <2>2. /\ Settled(Members[batch][i])
        /\ ~saw => state[Members[batch][i]] = "finished" \/ Members[batch][i] \in left
    BY DEF Progress
  <2> QED BY <1>u, <1>f, <1>k, <2>1, <2>2
<1>b. batch \in Batches /\ saw => \E e \in MembersOf(batch) : state'[e] \in Failures
  BY <1>f, <1>k, <1>m DEF Progress, SomeFailed
<1>c. batch \in Batches /\ saw /\ pc \in Loop => Reason
  <2>1. batch \in Batches /\ pc \in Loop => bstate'[batch] = bstate[batch]
    BY WorkerMoves DEF StartRunning, BatchStopped, FinishBatch, Loop
  <2> QED BY <1>k, <2>1 DEF Progress
<1>w. batch \in Batches /\ pc \in Running => Onward
  <2> SUFFICES ASSUME batch \in Batches, pc \in Running, NEW j \in (pos + 1)..Len(Members[batch]),
                      state'[Members[batch][j]] \in ActiveStates
               PROVE  \E k \in pos..j : Members[batch][k] \in left'
    OBVIOUS
  <2>1. /\ pos \in DOMAIN Members[batch] /\ child = Members[batch][pos]
        /\ j \in DOMAIN Members[batch] /\ j # pos /\ Members[batch][j] \in Executions
    BY <1>m, MemberPlaces DEF Shape
  <2>2. Members[batch][j] # child
    BY <2>1, MemberPlaces
  <2>3. pc # "stopcommit"
    BY DEF Running
  <2>4. state'[Members[batch][j]] = state[Members[batch][j]]
    BY <2>1, <2>2, <2>3, WorkerMoves
  <2>5. LeftFrom(batch, pos, j)
    BY <2>4 DEF Progress
  <2> QED BY <1>u, <2>5 DEF LeftFrom
<1>n. batch' = None => Progress'
  BY MemberPlaces DEF Progress
<1>g. ASSUME UNCHANGED <<batch, pos, saw>>, pc' \notin {"after", "final"} \cup Running,
             batch \in Batches /\ saw /\ pc' \in Loop => Reason
      PROVE  Progress'
  BY <1>a, <1>b, <1>g DEF Progress, SomeFailed, Settled
<1>h. ASSUME ChildReturns, pc \in Running, Past(child)
      PROVE  Progress'
  <2>1. CASE batch = None
    BY <1>h, <1>n, <2>1 DEF ChildReturns, Released
  <2>2. CASE batch # None
    <3>1. pc' = "after" /\ UNCHANGED <<batch, pos, spos, saw, failing, final>>
      BY <1>h, <2>2 DEF ChildReturns
    <3>2. batch \in Batches /\ child = Members[batch][pos] /\ pc \in Loop
      BY <1>h, <1>r, <2>2 DEF Shape, WorkT, Running, Loop
    <3> QED BY <1>a, <1>b, <1>c, <1>h, <3>1, <3>2 DEF Progress, SomeFailed, Settled, Running
  <2> QED BY <2>1, <2>2
<1>i. ASSUME ChildRaises
      PROVE  Progress'
  <2>1. CASE batch = None
    BY <1>i, <1>n, <2>1 DEF ChildRaises, Released
  <2>2. CASE batch # None
    BY <1>i, <1>g, <2>2 DEF ChildRaises, Loop, Running
  <2> QED BY <2>1, <2>2
<1>j. ASSUME Go("watch") \/ Go("event"), pc \in Loop, pc \in Running
      PROVE  Progress'
  <2>1. CASE batch = None
    BY <1>j, <1>n, <2>1 DEF Go
  <2>2. CASE batch # None
    <3>1. batch \in Batches
      BY <1>r, <2>2 DEF WorkT
    <3>2. UNCHANGED <<batch, pos, saw>> /\ pc' \in {"watch", "event"}
      BY <1>j DEF Go
    <3> QED BY <1>a, <1>b, <1>c, <1>j, <1>w, <3>1, <3>2 DEF Progress, SomeFailed, Settled, LeftFrom
  <2> QED BY <2>1, <2>2
<1>1. CASE TakeItem
  <2>1. batch = None /\ pos = 1 /\ ~saw
    BY <1>1 DEF TakeItem, Shape
  <2>2. \/ batch' = None
        \/ pc' = "open" /\ pos' = 1 /\ ~saw'
    BY <1>1, <2>1 DEF TakeItem, Released
  <2>3. ASSUME pc' = "open", pos' = 1, ~saw' PROVE Progress'
    BY <2>3 DEF Progress, Loop, Running
  <2> QED BY <1>n, <2>2, <2>3
<1>2. CASE Begin
  <2>1. child \in Executions /\ pc = "begin" /\ pc \in Loop /\ pc \in Running
        /\ state[child] \in Waiting
    BY <1>2 DEF Begin, Shape, Running, Loop, Child
  <2>2. CASE SetState(child, "interrupted") /\ ChildReturns
    <3>1. state'[child] = "interrupted"
      BY <1>r, <2>1, <2>2, OneRow
    <3> QED BY <1>f, <1>h, <2>1, <2>2, <3>1
  <2>3. CASE state[child] # "queued" /\ ChildReturns
    <3>1. state'[child] = "interrupted"
      BY <1>f, <1>k, <2>1, <2>3 DEF Waiting
    <3> QED BY <1>f, <1>h, <2>1, <2>3, <3>1
  <2>4. CASE ChildRaises \/ Go("watch")
    BY <1>i, <1>j, <2>1, <2>4
  <2> QED BY <1>2, <2>2, <2>3, <2>4 DEF Begin
<1>3. CASE Watch \/ Event
  <2>1. pc \in Running /\ pc \in Loop
    BY <1>3 DEF Watch, Event, Running, Loop
  <2>2. ChildReturns => Past(child)
    BY <1>3, ObservedOn
  <2>3. CASE ChildReturns
    BY <1>h, <2>1, <2>2, <2>3
  <2>4. CASE ChildRaises \/ Go("watch") \/ Go("event")
    BY <1>i, <1>j, <2>1, <2>4
  <2>5. CASE GivesUp
    BY <1>g, <2>5 DEF GivesUp, Loop, Running
  <2>6. CASE Dies
    BY <1>n, <2>6 DEF Dies, Released
  <2>7. CASE Watch
    BY <2>3, <2>4, <2>7 DEF Watch
  <2>8. CASE Event
    BY <2>3, <2>4, <2>5, <2>6, <2>8, EventOutcome DEF Proceeds, Concludes, Leaves, Waits, Surprised
  <2> QED BY <1>3, <2>7, <2>8
<1>4. CASE OpenBatch \/ StartRunning
  <2>1. ~saw
    BY <1>4 DEF OpenBatch, StartRunning, Shape
  <2> QED BY <1>4, <1>g, <1>n, <2>1 DEF OpenBatch, StartRunning, Released, Go, Running
<1>5. CASE NextMember
  <2>0. pc = "member" /\ batch \in Batches /\ pc \in Loop
        /\ UNCHANGED <<batch, pos, saw, state, left>>
    BY <1>5 DEF NextMember, Shape, InBatch, Loop, Go, rowVars
  <2>1. CASE pos > Len(Members[batch])
    BY <1>5, <1>g, <2>0, <2>1 DEF NextMember, Go, Loop, Running
  <2>2. CASE pos <= Len(Members[batch])
    <3> DEFINE e == Members[batch][pos]
    <3>1. e \in Executions /\ e \in MembersOf(batch) /\ pos \in DOMAIN Members[batch]
      BY <1>m, <2>0, <2>2, MemberPlaces
    <3>2. state[e] \in ExecStates /\ state[e] # "absent"
      BY <1>r, <2>0, <3>1 DEF RowT, Parents, Shape
    <3>3. state[e] \in {"dispatching", "running"} => e \in left
      BY <2>0, <3>1, WorkerFrame, WorkerStates DEF Strict, InOrderOf, ActiveStates
    <3>4. state[e] \in {"queued", "disconnected"} => Onward
      <4> SUFFICES ASSUME state[e] \in {"queued", "disconnected"},
                          NEW j \in (pos + 1)..Len(Members[batch]),
                          state[Members[batch][j]] \in ActiveStates
                   PROVE  \E k \in pos..j : Members[batch][k] \in left
        BY <2>0
      <4>1. /\ pos \in pos..j /\ j \in pos..j /\ pos \in 1..(j - 1)
            /\ j \in DOMAIN Members[batch]
        BY <1>m, <2>0, <2>2, MemberPlaces
      <4>2. CASE Members[batch][j] \in left
        BY <4>1, <4>2
      <4>3. CASE Members[batch][j] \notin left
        <5>1. Passed(e)
          BY <2>0, <4>1, <4>3 DEF Strict, InOrderOf
        <5>2. e \in left
          BY <5>1 DEF Passed, TerminalStates
        <5> QED BY <4>1, <5>2
      <4> QED BY <4>2, <4>3
    <3>5. CASE state[e] \in {"queued", "disconnected"}
      <4>1. pc' \in {"begin", "watch"}
        BY <1>5, <1>m, <2>0, <2>2, <3>5 DEF NextMember
      <4> QED BY <1>a, <1>b, <1>c, <2>0, <3>4, <3>5, <4>1
              DEF Progress, SomeFailed, Settled, LeftFrom
    <3>6. CASE state[e] \notin {"queued", "disconnected"}
      <4>1. pc' = "after"
        BY <1>5, <1>m, <2>0, <2>2, <3>6 DEF NextMember
      <4>2. Past(e)
        BY <1>f, <1>u, <2>0, <3>2, <3>3, <3>6 DEF ActiveStates
      <4> QED BY <1>a, <1>b, <1>c, <2>0, <4>1, <4>2 DEF Progress, SomeFailed, Settled, Running
    <3> QED BY <3>5, <3>6
  <2> QED BY <1>m, <2>0, <2>1, <2>2
<1>6. CASE AfterMember
  <2>0. /\ pc = "after" /\ batch \in Batches /\ UNCHANGED <<batch, state>> /\ pc \in Loop
        /\ pos \in 1..Len(Members[batch]) /\ pos \in Nat
    BY <1>6, <1>r, MemberPlaces DEF AfterMember, Shape, InBatch, Loop, rowVars, WorkT
  <2> DEFINE e == Members[batch][pos]
             failed == state[e] \in Failures
  <2>1. e \in Executions /\ e \in MembersOf(batch) /\ Past(e)
    BY <1>k, <1>m, <2>0 DEF Progress
  <2>2. /\ saw' <=> (saw \/ failed)
        /\ \/ failed /\ pc' = "stopread" /\ pos' = pos
           \/ /\ failed => batch \in cont \/ bstate[batch] = "cancelling"
              /\ pc' = "member" /\ pos' = pos + 1
    BY <1>6 DEF AfterMember
  <2>3. saw' => \E d \in MembersOf(batch) : state'[d] \in Failures
    BY <1>b, <2>0, <2>1, <2>2
  <2>4. bstate' = bstate
    BY <1>6 DEF AfterMember, rowVars
  <2>5. CASE pc' = "stopread" /\ pos' = pos
    BY <1>a, <2>0, <2>2, <2>3, <2>5 DEF Progress, SomeFailed, Settled, Loop, Running
  <2>6. CASE /\ failed => batch \in cont \/ bstate[batch] = "cancelling"
             /\ pc' = "member" /\ pos' = pos + 1
    <3>1. saw' => Reason
      BY <1>c, <1>k, <2>0, <2>2, <2>4, <2>6
    <3>2. ~saw' => state'[e] = "finished" \/ e \in left'
      BY <1>f, <2>0, <2>1, <2>2
    <3>3. \A i \in 1..(pos' - 1) :
            /\ Past(Members[batch][i])
            /\ ~saw' => state'[Members[batch][i]] = "finished" \/ Members[batch][i] \in left'
      <4> SUFFICES ASSUME NEW i \in 1..(pos' - 1)
                   PROVE  /\ Past(Members[batch][i])
                          /\ \/ saw' \/ state'[Members[batch][i]] = "finished"
                             \/ Members[batch][i] \in left'
        OBVIOUS
      <4>1. i = pos \/ i \in 1..(pos - 1)
        BY <2>0, <2>6
      <4> QED BY <1>a, <2>0, <2>1, <2>2, <3>2, <4>1
    <3> QED BY <2>0, <2>3, <2>6, <3>1, <3>3 DEF Progress, SomeFailed, Settled, Loop, Running
  <2> QED BY <2>2, <2>5, <2>6
<1>7. CASE StopRead \/ StopCommit \/ BatchFailed
  <2>1. \/ batch' = None
        \/ UNCHANGED <<batch, pos, saw>> /\ pc' \in {"stopread", "stopcommit", "stopped", "failed"}
    BY <1>7 DEF StopRead, StopCommit, BatchFailed, Released, Go
  <2> QED BY <1>g, <1>n, <2>1 DEF Loop, Running
<1>8. CASE BatchStopped \/ FinishBatch
  BY <1>8, <1>n DEF BatchStopped, FinishBatch, Released
<1>9. CASE CloseBatch
  <2>0. /\ pc = "close" /\ batch \in Batches /\ UNCHANGED <<batch, pos, saw, state>>
        /\ pc' = "final"
    BY <1>9 DEF CloseBatch, Shape, InBatch, rowVars
  <2>1. /\ final' = "interrupted" => bstate[batch] = "cancelling"
        /\ final' = "error" => saw
        /\ final' = "finished" => ~saw
    BY <1>9 DEF CloseBatch
  <2>2. bstate[batch] = "cancelling" => batch \in requested'
    BY <1>k, <2>0 DEF Parents
  <2> QED BY <1>a, <1>b, <2>0, <2>1, <2>2 DEF Progress, SomeFailed, Settled, Loop, Running
<1> QED BY <1>1, <1>2, <1>3, <1>4, <1>5, <1>6, <1>7, <1>8, <1>9 DEF Worker

\* What is being stopped: the worker's own steps.
LEMMA StoppingWorker ==
  ASSUME Typed, Shape, EventLoop, Parents, Child, Progress, Stopping, Strict, Worker
  PROVE  Stopping'
<1> DEFINE Past(e) == state'[e] \notin {"absent", "queued"}
           Failed == \E e \in MembersOf(batch) : state'[e] \in Failures \/ e \in left'
           Calm == \A j \in 1..Len(Members[batch]) :
                     state'[Members[batch][j]] \in ActiveStates =>
                       \E k \in 1..j : Members[batch][k] \in left'
<1>r. RowT /\ WorkT
  BY DEF Typed
<1>u. left \subseteq left'
  BY LeftGrows DEF Next
<1>f. /\ TerminalStates = {"finished"} \cup Failures /\ "interrupted" \in Failures
      /\ TerminalStates \cap ActiveStates = {}
      /\ ExecStates = {"absent", "queued"} \cup ActiveStates \cup TerminalStates
      /\ "queued" \notin ActiveStates \cup TerminalStates
  BY WorkerStates DEF Failures, TerminalStates, ExecStates
<1>m. batch \in Batches =>
        /\ Len(Members[batch]) \in Nat /\ pos \in 1..(Len(Members[batch]) + 1)
        /\ DOMAIN Members[batch] = 1..Len(Members[batch])
        /\ \A i \in 1..Len(Members[batch]) :
             Members[batch][i] \in Executions /\ Members[batch][i] \in MembersOf(batch)
        /\ \A e \in MembersOf(batch) :
             e \in Executions /\ \E i \in 1..Len(Members[batch]) : e = Members[batch][i]
  BY MemberPlaces DEF Shape
<1>k. /\ \A e \in Executions : Settled(e) => Past(e)
      /\ \A e \in Executions : state[e] \in TerminalStates => state'[e] = state[e]
  BY WorkerGoes DEF Settled
<1>s. batch \in Batches /\ (SomeFailed \/ SomeLeft) => Failed
  BY <1>f, <1>k, <1>m, <1>u DEF SomeFailed, SomeLeft
<1>o. pc' \notin Stop \cup {"failed"} => Stopping'
  BY DEF Stopping, Stop
<1>d. ASSUME batch \in Batches, batch' = batch, pc' = "failed", Calm,
             Failed \/ \E e \in MembersOf(batch) : state'[e] = "queued"
      PROVE  Stopping'
  BY <1>d DEF Stopping, Stop, SomeFailed, SomeLeft, LeftFrom
<1>c. ASSUME batch \in Batches, pc \in Running, state' = state,
             state[child] \notin ActiveStates \/ child \in left'
      PROVE  Calm
  <2> SUFFICES ASSUME NEW j \in 1..Len(Members[batch]), state[Members[batch][j]] \in ActiveStates
               PROVE  \E k \in 1..j : Members[batch][k] \in left'
    BY <1>c
  <2>1. pos \in 1..Len(Members[batch]) /\ child = Members[batch][pos] /\ j \in 1..j
    BY <1>c, <1>m DEF Shape
  <2>2. CASE j < pos
    <3>1. Settled(Members[batch][j])
      BY <1>c, <2>1, <2>2 DEF Progress
    <3> QED BY <1>f, <1>u, <2>1, <3>1 DEF Settled
  <2>3. CASE j = pos
    BY <1>c, <2>1, <2>3
  <2>4. CASE j > pos
    <3>1. LeftFrom(batch, pos, j)
      BY <1>c, <1>m, <2>1, <2>4 DEF Progress
    <3>2. PICK k \in pos..j : Members[batch][k] \in left
      BY <3>1 DEF LeftFrom
    <3>3. k \in 1..j
      BY <2>1, <3>2
    <3> QED BY <1>u, <3>2, <3>3
  <2> QED BY <1>m, <2>1, <2>2, <2>3, <2>4
<1>1. CASE Begin
  <2>1. child \in Executions /\ pc = "begin" /\ state[child] \in Waiting
    BY <1>1 DEF Begin, Shape, Running, Child
  <2>2. CASE ChildRaises /\ batch # None
    <3>1. pc' = "failed" /\ UNCHANGED <<batch, state>>
      BY <2>2 DEF ChildRaises, rowVars
    <3>2. batch \in Batches /\ child = Members[batch][pos] /\ pos \in 1..Len(Members[batch])
      BY <1>m, <1>r, <2>1, <2>2 DEF Shape, WorkT, Running
    <3>3. Calm
      BY <1>c, <1>f, <2>1, <3>1, <3>2, WorkerStates DEF Running, Waiting
    <3>4. Failed \/ \E e \in MembersOf(batch) : state'[e] = "queued"
      BY <1>f, <1>m, <2>1, <3>1, <3>2 DEF Waiting
    <3> QED BY <1>d, <3>1, <3>2, <3>3, <3>4
  <2>3. CASE ChildReturns \/ Go("watch") \/ (ChildRaises /\ batch = None)
    BY <1>o, <2>3 DEF ChildReturns, ChildRaises, Released, Go, Stop
  <2> QED BY <1>1, <2>2, <2>3 DEF Begin
<1>2. CASE Event
  <2>1. child \in Executions /\ pc = "event" /\ state[child] \in ActiveStates \cup Failures
    BY <1>2 DEF Event, Shape, Running, Child
  <2>2. CASE ChildRaises /\ batch # None /\ state[child] \in TerminalStates
    <3>1. pc' = "failed" /\ UNCHANGED <<batch, state>>
      BY <2>2 DEF ChildRaises, rowVars
    <3>2. batch \in Batches /\ child = Members[batch][pos] /\ pos \in 1..Len(Members[batch])
      BY <1>m, <1>r, <2>1, <2>2 DEF Shape, WorkT, Running
    <3>3. Calm
      BY <1>c, <1>f, <2>1, <2>2, <3>1, <3>2 DEF Running
    <3>4. Failed
      BY <1>f, <1>m, <2>1, <2>2, <3>1, <3>2
    <3> QED BY <1>d, <3>1, <3>2, <3>3, <3>4
  <2>3. CASE GivesUp
    <3>1. pc' = "failed" /\ UNCHANGED <<batch, state>> /\ child \in left'
      BY <2>3 DEF GivesUp, Leave
    <3>2. batch \in Batches /\ child = Members[batch][pos] /\ pos \in 1..Len(Members[batch])
      BY <1>m, <1>r, <2>1, <2>3 DEF Shape, WorkT, Running, GivesUp
    <3>3. Calm
      BY <1>c, <2>1, <3>1, <3>2 DEF Running
    <3>4. Failed
      BY <1>m, <3>1, <3>2
    <3> QED BY <1>d, <3>1, <3>2, <3>3, <3>4
  <2>4. CASE ChildReturns \/ Go("watch") \/ Dies \/ (ChildRaises /\ batch = None)
    BY <1>o, <2>4 DEF ChildReturns, ChildRaises, Released, Go, Stop, Dies
  <2> QED BY <1>2, <2>2, <2>3, <2>4, EventOutcome DEF Proceeds, Concludes, Leaves, Waits, Surprised
<1>3. CASE AfterMember
  <2>0. /\ pc = "after" /\ batch \in Batches /\ UNCHANGED <<batch, state, left>>
        /\ pos \in 1..Len(Members[batch]) /\ pos \in Nat /\ Len(Members[batch]) \in Nat
    BY <1>3, <1>r, MemberPlaces DEF AfterMember, Shape, InBatch, rowVars, WorkT
  <2> DEFINE e == Members[batch][pos]
  <2>1. CASE pc' = "member"
    BY <1>o, <2>1 DEF Stop
  <2>2. CASE /\ state[e] \in Failures /\ batch \notin cont /\ bstate[batch] # "cancelling"
             /\ pc' = "stopread" /\ spos' = pos + 1
    <3>1. \A i \in 1..(spos' - 1) : Past(Members[batch][i])
      <4> SUFFICES ASSUME NEW i \in 1..(spos' - 1) PROVE Past(Members[batch][i])
        OBVIOUS
      <4>1. Settled(Members[batch][i])
        <5>1. i = pos \/ i \in 1..(pos - 1)
          BY <2>0, <2>2
        <5> QED BY <2>0, <5>1 DEF Progress
      <4> QED BY <2>0, <4>1 DEF Settled
    <3>2. Calm
      <4> SUFFICES ASSUME NEW i \in 1..Len(Members[batch]),
                          state[Members[batch][i]] \in ActiveStates
                   PROVE  \E k \in 1..i : Members[batch][k] \in left
        BY <2>0
      <4>1. i \in 1..i
        BY <2>0
      <4>2. CASE i <= pos
        <5>1. Settled(Members[batch][i])
          <6>1. i = pos \/ i \in 1..(pos - 1)
            BY <2>0, <4>2
          <6> QED BY <2>0, <6>1 DEF Progress
        <5> QED BY <1>f, <4>1, <5>1 DEF Settled
      <4>3. CASE i > pos /\ Members[batch][i] \in left
        BY <4>1, <4>3
      <4>4. CASE i > pos /\ Members[batch][i] \notin left
        <5>1. pos \in 1..(i - 1) /\ pos \in 1..i /\ i \in DOMAIN Members[batch]
          BY <1>m, <2>0, <4>4
        <5>2. \/ state[e] = "finished" \/ e \in left \/ batch \in cont
              \/ bstate[batch] \in {"cancelling"} \cup BatchTerminal
          BY <2>0, <4>4, <5>1 DEF Strict, InOrderOf
        <5>3. bstate[batch] \notin BatchTerminal
          BY <2>0 DEF Shape
        <5> QED BY <2>2, <5>1, <5>2, <5>3 DEF Failures
      <4> QED BY <2>0, <4>2, <4>3, <4>4
    <3>3. Failed
      BY <1>m, <2>0, <2>2
    <3> QED BY <2>0, <2>2, <3>1, <3>2, <3>3 DEF Stopping, Stop, SomeFailed, SomeLeft, LeftFrom
  <2> QED BY <1>3, <2>1, <2>2 DEF AfterMember
<1> DEFINE Left(from) == Failed
      \/ \E i \in from..Len(Members[batch]) : state'[Members[batch][i]] = "queued"
<1>e. ASSUME pc \in Stop \cup {"failed"}
      PROVE  /\ batch \in Batches /\ spos \in Nat
             /\ pc \in Stop => spos \in 1..(Len(Members[batch]) + 1)
             /\ pc \in Stop => \A i \in 1..(spos - 1) : Past(Members[batch][i])
             /\ SomeFailed \/ SomeLeft => Failed
             /\ Calm
  <2>1. batch \in Batches /\ spos \in Nat /\ (pc \in Stop => spos \in 1..(Len(Members[batch]) + 1))
    BY <1>e, <1>r DEF Shape, InBatch, Stop, WorkT
  <2>2. pc \in Stop => \A i \in 1..(spos - 1) : Past(Members[batch][i])
    <3> SUFFICES ASSUME pc \in Stop, NEW i \in 1..(spos - 1) PROVE Past(Members[batch][i])
      OBVIOUS
    <3>1. Members[batch][i] \in Executions
      BY <1>m, <2>1
    <3>2. state[Members[batch][i]] \notin {"absent", "queued"}
      BY DEF Stopping
    <3> QED BY <3>1, <3>2, WorkerGoes
  <2>3. SomeFailed \/ SomeLeft => Failed
    BY <1>s, <2>1
  <2>4. Calm
    <3> SUFFICES ASSUME NEW j \in 1..Len(Members[batch]),
                        state'[Members[batch][j]] \in ActiveStates
                 PROVE  \E k \in 1..j : Members[batch][k] \in left'
      OBVIOUS
    <3> DEFINE e == Members[batch][j]
    <3>1. e \in Executions
      BY <1>m, <2>1
    <3>3. state'[e] = state[e] \/ state'[e] = "interrupted"
      <4>1. pc \notin Running
        BY <1>e DEF Running, Stop
      <4>2. CASE state'[e] # state[e]
        <5>1. pc = "stopcommit" /\ e = Members[batch][spos]
          BY <3>1, <4>1, <4>2, WorkerMoves
        <5>2. StopCommit
          BY <5>1 DEF Worker, TakeItem, Begin, Watch, Event, OpenBatch, StartRunning, NextMember,
             AfterMember, StopRead, BatchStopped, BatchFailed, CloseBatch, FinishBatch
        <5> QED BY <1>r, <3>1, <4>2, <5>1, <5>2, OneRow DEF StopCommit, rowVars
      <4> QED BY <4>2
    <3>4. state[e] \in ActiveStates
      BY <1>f, <3>3 DEF Failures
    <3>5. LeftFrom(batch, 1, j)
      BY <1>e, <3>4 DEF Stopping
    <3> QED BY <1>u, <3>5 DEF LeftFrom
  <2> QED BY <2>1, <2>2, <2>3, <2>4
<1>4. CASE StopRead
  <2>0. /\ pc = "stopread" /\ pc \in Stop /\ UNCHANGED <<batch, state>>
    BY <1>4 DEF StopRead, rowVars, Go, Stop
  <2>1. Failed \/ \E i \in spos..Len(Members[batch]) : state[Members[batch][i]] = "queued"
    BY <1>e, <2>0 DEF Stopping
  <2>2. CASE spos > Len(Members[batch]) /\ Go("stopped")
    <3>1. Failed
      BY <1>e, <1>m, <2>0, <2>1, <2>2
    <3> QED BY <1>e, <2>0, <2>2, <3>1 DEF Go, Stopping, Stop, SomeFailed, SomeLeft, LeftFrom
  <2>3. CASE spos <= Len(Members[batch]) /\ state[Members[batch][spos]] = "queued"
        /\ Go("stopcommit")
    BY <1>e, <2>0, <2>1, <2>3 DEF Go, Stopping, Stop, SomeFailed, SomeLeft, LeftFrom, Waiting
  <2>4. CASE /\ spos <= Len(Members[batch]) /\ state[Members[batch][spos]] # "queued"
             /\ spos' = spos + 1 /\ pc' = pc
    <3> DEFINE e == Members[batch][spos]
    <3>0. batch \in Batches /\ spos \in 1..Len(Members[batch])
      BY <1>e, <1>m, <2>0, <2>4
    <3>1. e \in Executions /\ e \in MembersOf(batch) /\ state[e] \in ExecStates \ {"absent"}
      BY <1>m, <1>r, <3>0 DEF Parents, Shape, RowT
    <3>2. Past(e)
      BY <1>e, <1>f, <2>0, <2>4, <3>0, <3>1
    <3>3. \A i \in 1..(spos' - 1) : Past(Members[batch][i])
      <4> SUFFICES ASSUME NEW i \in 1..(spos' - 1) PROVE Past(Members[batch][i])
        OBVIOUS
      <4>1. i = spos \/ i \in 1..(spos - 1)
        BY <2>4, <3>0
      <4> QED BY <1>e, <2>0, <3>2, <4>1
    <3>4. Failed \/ \E i \in spos'..Len(Members[batch]) : state'[Members[batch][i]] = "queued"
      <4> SUFFICES ASSUME NEW i \in spos..Len(Members[batch]), state[Members[batch][i]] = "queued"
                   PROVE  i \in spos'..Len(Members[batch])
        BY <2>0, <2>1
      <4> QED BY <1>m, <2>4, <3>0
    <3> QED BY <1>e, <2>0, <2>4, <3>3, <3>4 DEF Stopping, Stop, SomeFailed, SomeLeft, LeftFrom
  <2> QED BY <1>4, <1>e, <1>m, <2>0, <2>2, <2>3, <2>4 DEF StopRead
<1>5. CASE StopCommit
  <2>0. pc = "stopcommit" /\ pc \in Stop
    BY <1>5 DEF StopCommit, Stop
  <2> DEFINE e == Members[batch][spos]
  <2>1. /\ batch \in Batches /\ spos \in 1..Len(Members[batch]) /\ e \in Executions
        /\ e \in MembersOf(batch)
        /\ state[e] \in Waiting
    BY <1>e, <1>m, <2>0 DEF Shape, Stopping
  <2>2. CASE state[e] = "queued"
    <3>1. state'[e] = "interrupted" /\ pc' = "stopread" /\ spos' = spos + 1 /\ batch' = batch
      BY <1>5, <1>r, <2>1, <2>2, OneRow DEF StopCommit
    <3>2. \A i \in 1..(spos' - 1) : Past(Members[batch][i])
      <4> SUFFICES ASSUME NEW i \in 1..(spos' - 1) PROVE Past(Members[batch][i])
        OBVIOUS
      <4>1. i = spos \/ i \in 1..(spos - 1)
        BY <2>1, <3>1
      <4> QED BY <1>e, <1>f, <2>0, <3>1, <4>1
    <3>3. Failed
      BY <1>f, <2>1, <3>1
    <3> QED BY <1>e, <2>0, <3>1, <3>2, <3>3 DEF Stopping, Stop, SomeFailed, SomeLeft, LeftFrom
  <2>3. CASE state[e] # "queued"
    <3>1. Failed
      BY <1>f, <1>k, <2>1, <2>3 DEF Waiting
    <3>2. CASE Released("dead")
      BY <1>o, <3>2 DEF Released, Stop
    <3>3. CASE pc' = "failed" /\ batch' = batch
      BY <1>d, <1>e, <2>0, <3>1, <3>3
    <3> QED BY <1>5, <2>3, <3>2, <3>3 DEF StopCommit
  <2> QED BY <2>2, <2>3
<1>6. CASE BatchFailed
  <2>0. pc = "failed" /\ UNCHANGED <<state, bstate>>
    BY <1>6 DEF BatchFailed, rowVars
  <2>1. CASE Released("idle")
    BY <1>o, <2>1 DEF Released, Stop
  <2>2. CASE pc' = "stopread" /\ spos' = 1 /\ batch' = batch
    <3>1. Failed \/ \E i \in 1..Len(Members[batch]) : state'[Members[batch][i]] = "queued"
      BY <1>e, <1>m, <2>0 DEF Stopping
    <3> QED BY <1>e, <2>0, <2>2, <3>1 DEF Stopping, Stop, SomeFailed, SomeLeft, LeftFrom
  <2> QED BY <1>6, <2>1, <2>2 DEF BatchFailed
<1>7. CASE \/ TakeItem \/ Watch \/ OpenBatch \/ StartRunning \/ NextMember \/ BatchStopped
      \/ CloseBatch
           \/ FinishBatch
  <2>1. pc' \notin Stop \cup {"failed"}
    BY <1>7 DEF TakeItem, Watch, OpenBatch, StartRunning, NextMember, BatchStopped, CloseBatch,
       FinishBatch, ChildReturns, Released, Go, Stop
  <2> QED BY <1>o, <2>1
<1> QED BY <1>1, <1>2, <1>3, <1>4, <1>5, <1>6, <1>7 DEF Worker

-----------------------------------------------------------------------------
\* The empty store and the stopped process satisfy the invariant.
LEMMA BatchInit == Init => BatchProof
<1> SUFFICES ASSUME Init PROVE BatchProof
  OBVIOUS
<1>1. Shape
  BY MemberPlaces DEF Init, Shape, InBatch, Running, Stop
<1>2. Typed
  <2>1. saw \in BOOLEAN /\ failing \in BOOLEAN /\ stop \in BOOLEAN /\ stopping \in BOOLEAN
    BY Zenon DEF Init
  <2>2. RowT
    <3>1. 0 \in 0..MaxFaults
      BY BatchAssumption
    <3> QED BY <3>1 DEF Init, RowT, ExecStates
  <2>3. order \in Seq(Work) /\ fifo \in Seq(Items)
    BY DEF Init
  <2>4. WorkT /\ LoopT
    BY <2>1 DEF Init, WorkT, LoopT, BatchTerminal
  <2> QED BY <2>2, <2>3, <2>4 DEF Typed, QueueT
<1>3. TypeOK
  BY <1>1, <1>2, TypeParts
<1>4. EventLoop
  BY DEF Init, EventLoop
<1>5. Parents /\ Child /\ Progress /\ Stopping
  BY MemberPlaces DEF Init, Parents, Child, Progress, Stopping, Stop, BatchTerminal
<1>6. Strict /\ BatchVerdict
  BY MemberPlaces, WorkerStates DEF Init, Strict, InOrderOf, BatchVerdict, BatchTerminal
<1> QED BY <1>1, <1>3, <1>4, <1>5, <1>6 DEF BatchProof

\* Every step keeps it.
LEMMA BatchStep == BatchProof /\ [Next]_vars => BatchProof'
<1> SUFFICES ASSUME BatchProof, [Next]_vars PROVE BatchProof'
  OBVIOUS
<1>1. /\ Typed /\ Shape /\ EventLoop /\ Parents /\ Child /\ Progress /\ Stopping /\ Strict
      /\ BatchVerdict
  BY TypeParts DEF BatchProof
<1>2. CASE Worker
  <2>1. Typed' /\ Shape' /\ EventLoop'
    BY <1>1, <1>2, TypedWorker, ShapeWorker, LoopWorker
  <2>2. Parents' /\ Child' /\ Progress'
    BY <1>1, <1>2, ParentsWorker, ChildWorker, ProgressWorker
  <2>3. Stopping' /\ Strict' /\ BatchVerdict'
    BY <1>1, <1>2, StoppingWorker, StrictWorker, VerdictWorker
  <2>4. TypeOK'
    BY <2>1, TypeParts, PTL
  <2> QED BY <2>1, <2>2, <2>3, <2>4 DEF BatchProof
<1>3. CASE Server
  <2>1. Typed' /\ Shape' /\ EventLoop'
    BY <1>1, <1>3, TypedServer, ShapeServer, LoopServer
  <2>2. Parents' /\ Child' /\ Progress'
    BY <1>1, <1>3, ParentsServer, ChildServer, ProgressServer
  <2>3. Stopping' /\ Strict' /\ BatchVerdict'
    BY <1>1, <1>3, StoppingServer, StrictServer, VerdictServer
  <2>4. TypeOK'
    BY <2>1, TypeParts, PTL
  <2> QED BY <2>1, <2>2, <2>3, <2>4 DEF BatchProof
<1>4. CASE UNCHANGED vars
  <2>0. UNCHANGED <<bstate, cont, state, intent, lost, torn, left, order, fifo, pc, batch, child,
        pos, spos, saw,
                    failing, final, stop, lpc, job, cpos, todo, stopping, faults, requested,
                    refused, sent>>
    BY <1>4 DEF vars, rowVars, batchVars, serverVars
  <2>1. TypeOK' /\ BatchVerdict'
    BY <2>0 DEF BatchProof, TypeOK, BatchVerdict
  <2>2. Shape' /\ Parents' /\ Child'
    BY <1>1, <2>0 DEF Shape, Parents, Child, Standalone
  <2>3. EventLoop'
    BY <1>1, <2>0 DEF EventLoop, Queueable, Standalone
  <2>4. Progress'
    BY <1>1, <2>0 DEF Progress, SomeFailed, Settled, LeftFrom
  <2>5. Stopping'
    BY <1>1, <2>0 DEF Stopping, SomeFailed, SomeLeft, LeftFrom
  <2>6. Strict'
    BY <1>1, <2>0 DEF Strict, InOrderOf, Passed
  <2> QED BY <2>1, <2>2, <2>3, <2>4, <2>5, <2>6 DEF BatchProof
<1> QED BY <1>2, <1>3, <1>4 DEF Next

\* _run_batch, _batch_internal_failure, request_batch_cancel, _reconcile_and_
\* resume: a settled parent tells the truth about its members, up to the first
\* that the worker left, for any number of batches and members and however
\* stops, crashes, cancels, forced stops, torn spools and restarts interleave
\* with the loop; and the state stays well formed.
THEOREM BatchesTruthful == Spec => []BatchInv
<1>1. BatchProof => BatchInv
  BY DEF BatchProof, BatchInv
<1> QED BY <1>1, BatchInit, BatchStep, PTL DEF Spec

\* _run_batch and _run_one: members run one at a time and in order, across
\* restarts, cancels, stops and torn spools; a member is dispatched over one
\* that is not settled only if the worker left that one, and after a failure
\* only if its batch goes on or is being cancelled.
THEOREM MembersInOrder == Spec => ChildOrder
<1> DEFINE InTurn == \A b \in Batches : \A j \in DOMAIN Members[b] :
             state[Members[b][j]] = "queued" /\ state'[Members[b][j]] = "dispatching"
             => \A i \in 1..(j - 1) :
                  /\ Passed(Members[b][i])
                  /\ \/ b \in cont \cup requested
                     \/ state[Members[b][i]] = "finished" \/ Members[b][i] \in left
<1>1. BatchProof /\ [Next]_vars => [InTurn]_vars
  <2> SUFFICES ASSUME BatchProof, Next, NEW b \in Batches, NEW j \in DOMAIN Members[b],
                      state[Members[b][j]] = "queued", state'[Members[b][j]] = "dispatching"
               PROVE  \A i \in 1..(j - 1) :
                        /\ Passed(Members[b][i])
                        /\ \/ b \in cont \cup requested
                           \/ state[Members[b][i]] = "finished" \/ Members[b][i] \in left
    OBVIOUS
  <2>1. Typed /\ Shape /\ EventLoop /\ Parents /\ Child /\ Progress
    BY TypeParts DEF BatchProof
  <2>2. Members[b][j] \in Executions
    BY MemberPlaces
  <2>3. ~Server
    BY <2>1, <2>2, ServerRows, WorkerStates DEF ActiveStates
  <2>4. batch \in Batches /\ pc = "begin" /\ b = batch /\ j = pos
    BY <2>1, <2>3, DispatchedInTurn DEF Next
  <2>5. \A i \in 1..(j - 1) :
          /\ Passed(Members[b][i])
          /\ ~saw => state[Members[b][i]] = "finished" \/ Members[b][i] \in left
    BY <2>1, <2>4 DEF Progress, Settled, Passed
  <2>6. saw => b \in cont \cup requested
    BY <2>1, <2>4 DEF Progress, Loop, Parents
  <2> QED BY <2>5, <2>6
<1> QED BY <1>1, BatchInit, BatchStep, PTL DEF Spec, ChildOrder
=============================================================================
