----------------------------- MODULE SessionLease -----------------------------
(***************************************************************************)
(* Who may use one session's kernel: an interactive command under an       *)
(* exclusive lease, or the controller's own worker, for executions and     *)
(* readiness probes.  Lease and probe requests run in threads of their     *)
(* own, starts on the event loop, and the worker in its thread; the lease  *)
(* table, the worker table and the queue are locked one access at a time,  *)
(* so every check is a step before the step that relies on it.             *)
(***************************************************************************)
EXTENDS Naturals, Sequences, FiniteSets

CONSTANTS
  Clients,                \* interactive commands that take the lease
  Probers,                \* session.probe requests
  NExec,                  \* executions 1..NExec of this session
  MaxIds, MaxFaults       \* bounds on lease and request ids, and on faults

ASSUME LeaseAssumption ==
  /\ Clients \cap Probers = {}
  /\ NExec \in Nat /\ MaxIds \in Nat /\ MaxFaults \in Nat

VARIABLES
  alive, epoch,   \* the controller process, and how often it was restarted
  lease,          \* _leases[key]: the token of the lease, or 0
  rows,           \* the executions' durable states
  pc, loc,        \* the request threads and the commands behind them
  start,          \* the start request on the event loop
  hasWorker, queue, item, at,   \* the worker: its queue, its item, its place
  link, conn,     \* its transport, and the kernel_connections row
  proof,          \* what a probe has observed
  asked, msgs,    \* probes the kernel received, and its answers under way
  done,           \* close requests completed and still waited for
  ids, faults

vars == <<alive, epoch, lease, rows, pc, loc, start, hasWorker, queue, item, at,
          link, conn, proof, asked, msgs, done, ids, faults>>
process == <<alive, epoch>>
requests == <<lease, pc, loc, ids>>
worker == <<hasWorker, queue, item, at>>
kernel == <<link, conn, proof, asked, msgs>>

Threads == Clients \cup Probers
Execs == 1..NExec
NoItem == [kind |-> "none", id |-> 0]
NoStart == [e |-> 0, at |-> "none"]
NoLoc == [lease |-> 0, req |-> 0, epoch |-> 0, clean |-> FALSE]

Init ==
  /\ alive = TRUE /\ epoch = 0 /\ lease = 0
  /\ rows = [e \in Execs |-> "none"]
  /\ pc = [t \in Threads |-> "idle"] /\ loc = [t \in Threads |-> NoLoc]
  /\ start = NoStart
  /\ hasWorker = FALSE /\ queue = <<>> /\ item = NoItem /\ at = "idle"
  /\ link = 0 /\ conn = [id |-> 0, open |-> FALSE, ready |-> FALSE]
  /\ proof = {} /\ asked = {} /\ msgs = {}
  /\ done = {} /\ ids = 0 /\ faults = 0

Go(t, place) ==
  /\ pc' = [pc EXCEPT ![t] = place]
  /\ UNCHANGED loc
\* The request is answered, and what its thread knew is gone.
Answer(t) ==
  /\ pc' = [pc EXCEPT ![t] = "idle"]
  /\ loc' = [loc EXCEPT ![t] = NoLoc]
Put(kind, id) == queue' = Append(queue, [kind |-> kind, id |-> id])

\* session_has_active_work
ActiveWork == \E e \in Execs : rows[e] \in {"queued", "running"}

\* Requests past their last look at the lease, not yet in the queue.
InFlight == start.at = "put" \/ \E t \in Threads : pc[t] = "probeput"

-----------------------------------------------------------------------------
(***************************************************************************)
(* acquire_session_lease: read the store, set the lease, close the         *)
(* controller's transport through the worker's queue.                      *)
(***************************************************************************)
CheckWork(c) ==
  /\ alive /\ pc[c] = "idle" /\ ~ActiveWork
  /\ Go(c, "checked")
  /\ UNCHANGED <<process, lease, ids, rows, start, worker, kernel, done, faults>>

SetLease(c) ==
  /\ pc[c] = "checked" /\ ids < MaxIds
  /\ IF lease # 0 THEN Answer(c) /\ UNCHANGED <<lease, ids, queue>>
     ELSE /\ ids' = ids + 1 /\ lease' = ids + 1
          /\ loc' = [loc EXCEPT ![c] = [lease |-> ids + 1, req |-> ids + 1,
                                        epoch |-> epoch, clean |-> ~InFlight]]
          /\ pc' = [pc EXCEPT ![c] = IF hasWorker THEN "closing" ELSE "held"]
          /\ IF hasWorker THEN Put("close", ids + 1) ELSE UNCHANGED queue
  /\ UNCHANGED <<process, rows, start, hasWorker, item, at, kernel, done, faults>>

\* Mutant: a close request that is not answered in time counts as done.
TimeoutGrants(c) ==
  /\ pc[c] = "closing"
  /\ Go(c, "held")
  /\ UNCHANGED <<process, lease, ids, rows, start, worker, kernel, done, faults>>

\* close_transport waits for the worker, but not for ever; on a timeout the
\* lease is given back and the request stays in the queue.
AwaitClose(c) ==
  /\ pc[c] = "closing"
  /\ \/ loc[c].req \in done /\ Go(c, "held") /\ UNCHANGED lease
     \/ /\ loc[c].req \notin done /\ Answer(c)
        /\ lease' = IF lease = loc[c].lease THEN 0 ELSE lease
  /\ done' = done \ {loc[c].req}
  /\ UNCHANGED <<process, ids, rows, start, worker, kernel, faults>>

\* Mutant: the lease is given up whoever asks.
ReleaseAny(c) ==
  /\ pc[c] = "held"
  /\ lease' = 0 /\ Go(c, "probe")
  /\ UNCHANGED <<process, ids, rows, start, worker, kernel, done, faults>>

\* release_session_lease: the token must match; a probe may follow.
Release(c) ==
  /\ pc[c] = "held"
  /\ IF alive /\ lease = loc[c].lease
     THEN lease' = 0 /\ (Go(c, "probe") \/ Answer(c))
     ELSE UNCHANGED lease /\ Answer(c)
  /\ UNCHANGED <<process, ids, rows, start, worker, kernel, done, faults>>

\* The command is killed while it holds the lease: nobody releases it.
ClientDies(c) ==
  /\ pc[c] = "held" /\ faults < MaxFaults
  /\ faults' = faults + 1
  /\ Go(c, "gone")
  /\ UNCHANGED <<process, lease, ids, rows, start, worker, kernel, done>>

-----------------------------------------------------------------------------
(***************************************************************************)
(* probe_session: look at the lease, find or create the worker, queue.     *)
(***************************************************************************)
ProbeCheck(t) ==
  /\ alive
  /\ pc[t] = IF t \in Probers THEN "idle" ELSE "probe"
  /\ IF lease = 0 THEN Go(t, "probeput") ELSE t \in Clients /\ Answer(t)
  /\ UNCHANGED <<process, lease, ids, rows, start, worker, kernel, done, faults>>

ProbePut(t) ==
  /\ pc[t] = "probeput" /\ ids < MaxIds
  /\ ids' = ids + 1
  /\ hasWorker' = TRUE /\ Put("probe", ids + 1)
  /\ Go(t, "probing")
  /\ UNCHANGED <<process, lease, rows, start, item, at, kernel, done, faults>>

\* The result, or KERNEL_PROBE_TIMEOUT while the item is still queued.
ProbeReturns(t) ==
  /\ pc[t] = "probing"
  /\ Answer(t)
  /\ UNCHANGED <<process, lease, ids, rows, start, worker, kernel, done, faults>>

-----------------------------------------------------------------------------
(***************************************************************************)
(* Starting an execution, or starting it again with the same key.          *)
(***************************************************************************)
StartCheck(e) ==
  /\ alive /\ start = NoStart /\ rows[e] \in {"none", "queued"} /\ lease = 0
  /\ start' = [e |-> e, at |-> "create"]
  /\ UNCHANGED <<process, requests, rows, worker, kernel, done, faults>>

StartCreate ==
  /\ start.at = "create"
  /\ rows' = [rows EXCEPT ![start.e] = IF @ = "none" THEN "queued" ELSE @]
  /\ start' = [start EXCEPT !.at = "submit"]
  /\ UNCHANGED <<process, requests, worker, kernel, done, faults>>

\* submit looks again; a lease taken meanwhile leaves the row queued.
Submit ==
  /\ start.at = "submit"
  /\ start' = IF rows[start.e] = "queued" /\ lease = 0
              THEN [start EXCEPT !.at = "put"] ELSE NoStart
  /\ UNCHANGED <<process, requests, rows, worker, kernel, done, faults>>

Scheduled(e) ==
  \/ item = [kind |-> "execute", id |-> e]
  \/ \E i \in 1..Len(queue) : queue[i] \in [kind : {"execute", "recover"}, id : {e}]

SubmitPut ==
  /\ start.at = "put"
  /\ hasWorker' = TRUE
  /\ IF Scheduled(start.e) THEN UNCHANGED queue ELSE Put("execute", start.e)
  /\ start' = NoStart
  /\ UNCHANGED <<process, requests, rows, item, at, kernel, done, faults>>

-----------------------------------------------------------------------------
(***************************************************************************)
(* The worker.                                                             *)
(***************************************************************************)
Take ==
  /\ at = "idle" /\ queue # <<>>
  /\ item' = Head(queue) /\ queue' = Tail(queue)
  /\ at' = "begin"
  /\ UNCHANGED <<process, requests, rows, start, hasWorker, kernel, done, faults>>

Finish ==
  /\ item' = NoItem /\ at' = "idle"
  /\ done' = done \cup {loc[c].req : c \in {c \in Clients : /\ item.kind = "close"
                                                        /\ pc[c] = "closing"
                                                        /\ loc[c].req = item.id}}

\* _drop_transport: the connection row is closed if it is still this one.
Drop ==
  /\ link' = 0
  /\ conn' = IF conn.id = link THEN [conn EXCEPT !.open = FALSE, !.ready = FALSE] ELSE conn
  /\ msgs' = {} /\ asked' = {}

RunClose ==
  /\ at = "begin" /\ item.kind = "close"
  /\ Drop /\ Finish
  /\ UNCHANGED <<process, requests, rows, start, hasWorker, queue, proof, faults>>

\* An execution that is no longer queued is left alone; a probe whose
\* deadline has passed is answered without connecting.
Skip ==
  /\ at = "begin"
  /\ \/ item.kind = "execute" /\ rows[item.id] # "queued"
     \/ item.kind = "probe"
  /\ Finish
  /\ UNCHANGED <<process, requests, rows, start, hasWorker, queue, kernel, faults>>

\* _ensure_transport: a new connection has a new id and no readiness yet.
Connect ==
  /\ at = "begin" /\ item.kind \in {"execute", "probe", "recover"}
  /\ item.kind = "execute" => rows[item.id] = "queued"
  /\ IF link = 0
     THEN /\ conn.id < MaxIds
          /\ link' = conn.id + 1
          /\ conn' = [id |-> conn.id + 1, open |-> TRUE, ready |-> FALSE]
          /\ msgs' = {} /\ asked' = {}
     ELSE UNCHANGED <<link, conn, msgs, asked>>
  /\ proof' = {}
  /\ at' = "run"
  /\ rows' = IF item.kind = "execute" THEN [rows EXCEPT ![item.id] = "running"] ELSE rows
  /\ UNCHANGED <<process, requests, start, hasWorker, queue, item, done, faults>>

ConnectFails ==
  /\ at = "begin" /\ item.kind \in {"execute", "probe", "recover"} /\ link = 0
  /\ faults < MaxFaults /\ faults' = faults + 1
  /\ rows' = IF item.kind = "probe" THEN rows ELSE [rows EXCEPT ![item.id] = "done"]
  /\ Finish
  /\ UNCHANGED <<process, requests, start, hasWorker, queue, kernel>>

\* The execution, or the recovery of one, reaches its terminal state.
ExecutionEnds ==
  /\ at = "run" /\ item.kind \in {"execute", "recover"}
  /\ rows' = [rows EXCEPT ![item.id] = "done"]
  /\ Finish
  /\ UNCHANGED <<process, requests, start, hasWorker, queue, kernel, faults>>

\* The connection is lost: the transport is dropped with its readiness.
Disconnect ==
  /\ at \in {"run", "observe"} /\ link # 0 /\ faults < MaxFaults
  /\ faults' = faults + 1
  /\ Drop /\ Finish
  /\ rows' = IF item.kind = "probe" THEN rows ELSE [rows EXCEPT ![item.id] = "done"]
  /\ UNCHANGED <<process, requests, start, hasWorker, queue, proof>>

ProbeSend ==
  /\ at = "run" /\ item.kind = "probe"
  /\ asked' = asked \cup {item.id}
  /\ at' = "observe"
  /\ UNCHANGED <<process, requests, rows, start, hasWorker, queue, item, link, conn,
                 proof, msgs, done, faults>>

\* The kernel's answers: the reply (with the nonce, or not) and the idle.
KernelAnswers ==
  /\ \E p \in asked, part \in {"reply", "wrong", "idle"} :
       /\ ~\E m \in msgs : m.p = p /\ (m.part = part \/ "idle" \notin {m.part, part})
       /\ msgs' = msgs \cup {[p |-> p, part |-> part]}
  /\ UNCHANGED <<process, requests, rows, start, worker, link, conn, proof, asked,
                 done, faults>>

\* Mutant: a message is taken whatever request it answers.
ObserveAny ==
  /\ at = "observe"
  /\ \E m \in msgs : proof' = proof \cup {m.part}
  /\ UNCHANGED <<process, requests, rows, start, worker, link, conn, asked, msgs,
                 done, faults>>

\* ReadinessProof.observe: messages of other parents are ignored.
ProbeObserve ==
  /\ at = "observe"
  /\ \E m \in msgs : m.p = item.id /\ proof' = proof \cup {m.part}
  /\ proof' # proof
  /\ UNCHANGED <<process, requests, rows, start, worker, link, conn, asked, msgs,
                 done, faults>>

Ready == {"reply", "idle"} \subseteq proof /\ "wrong" \notin proof

\* The proof is whole, or an error, or the deadline passed: the outcome is
\* recorded against the connection that was probed.
ProbeRecord ==
  /\ at = "observe"
  /\ conn' = IF conn.id = link /\ conn.open THEN [conn EXCEPT !.ready = Ready] ELSE conn
  /\ Finish
  /\ UNCHANGED <<process, requests, rows, start, hasWorker, queue, link, proof, asked,
                 msgs, faults>>

-----------------------------------------------------------------------------
(***************************************************************************)
(* The controller dies: leases and workers live in memory.  Its successor  *)
(* closes all connection rows, then queues recoveries, then queued work.   *)
(***************************************************************************)
Crash ==
  /\ alive /\ faults < MaxFaults
  /\ faults' = faults + 1
  /\ alive' = FALSE /\ lease' = 0
  /\ pc' = [t \in Threads |-> IF pc[t] \in {"held", "gone"} THEN pc[t] ELSE "idle"]
  /\ start' = NoStart
  /\ hasWorker' = FALSE /\ queue' = <<>> /\ item' = NoItem /\ at' = "idle"
  /\ loc' = [t \in Threads |-> IF pc[t] \in {"held", "gone"} THEN loc[t] ELSE NoLoc]
  /\ link' = 0 /\ msgs' = {} /\ asked' = {} /\ done' = {}
  /\ UNCHANGED <<epoch, ids, rows, conn, proof>>

\* The rows in a state, by their age, which is their number.
RowsIn(state) ==
  LET S == {e \in Execs : rows[e] = state} IN
  {q \in [1..Cardinality(S) -> S] : \A i, j \in DOMAIN q : i < j => q[i] < q[j]}
ItemsOf(kind, es) == [i \in 1..Len(es) |-> [kind |-> kind, id |-> es[i]]]

Restart ==
  /\ ~alive
  /\ alive' = TRUE /\ epoch' = epoch + 1
  /\ conn' = [conn EXCEPT !.open = FALSE, !.ready = FALSE]
  /\ \E r \in RowsIn("running"), q \in RowsIn("queued") :
       queue' = ItemsOf("recover", r) \o ItemsOf("execute", q)
  /\ hasWorker' = ActiveWork
  /\ UNCHANGED <<requests, rows, start, item, at, link, proof, asked, msgs, done, faults>>

-----------------------------------------------------------------------------
Next ==
  \/ \E c \in Clients :
       CheckWork(c) \/ SetLease(c) \/ AwaitClose(c) \/ Release(c) \/ ClientDies(c)
  \/ \E t \in Threads : ProbeCheck(t) \/ ProbePut(t) \/ ProbeReturns(t)
  \/ \E e \in Execs : StartCheck(e)
  \/ StartCreate \/ Submit \/ SubmitPut
  \/ Take \/ RunClose \/ Skip \/ Connect \/ ConnectFails \/ ExecutionEnds \/ Disconnect
  \/ ProbeSend \/ KernelAnswers \/ ProbeObserve \/ ProbeRecord
  \/ Crash \/ Restart

Spec == Init /\ [][Next]_vars

-----------------------------------------------------------------------------
Places == {"idle", "checked", "closing", "held", "probe", "probeput", "probing", "gone"}
Kinds == {"none", "execute", "recover", "close", "probe"}

TypeOK ==
  /\ alive \in BOOLEAN /\ epoch \in 0..MaxFaults /\ lease \in 0..MaxIds
  /\ rows \in [Execs -> {"none", "queued", "running", "done"}]
  /\ pc \in [Threads -> Places]
  /\ loc \in [Threads -> [lease : 0..MaxIds, req : 0..MaxIds, epoch : 0..MaxFaults,
                          clean : BOOLEAN]]
  /\ start \in [e : 0..NExec, at : {"none", "create", "submit", "put"}]
  /\ hasWorker \in BOOLEAN /\ at \in {"idle", "begin", "run", "observe"}
  /\ item \in [kind : Kinds, id : Nat] /\ queue \in Seq([kind : Kinds, id : Nat])
  /\ link \in 0..MaxIds /\ conn \in [id : 0..MaxIds, open : BOOLEAN, ready : BOOLEAN]
  /\ asked \subseteq 1..MaxIds /\ done \subseteq 1..MaxIds
  /\ hasWorker \/ (queue = <<>> /\ item = NoItem /\ link = 0)

\* A command that was granted the lease by the running controller, whose
\* request found no other one between its check and the queue, has the kernel
\* for itself: the worker has no connection, and gets none before the release.
CleanExclusive ==
  \A c \in Clients :
    pc[c] = "held" /\ loc[c].clean /\ loc[c].epoch = epoch /\ alive => link = 0

\* As long as a command holds its lease, nobody else's timeout, release or
\* late request has taken it away, so no second command can be granted one.
LeaseKept ==
  \A c \in Clients :
    pc[c] \in {"held", "gone"} /\ loc[c].epoch = epoch /\ alive => lease = loc[c].lease

\* The lease protocol's invariant: well formed (a dead controller's worker
\* leaves no queue and no link behind), and no lease is taken away (LeaseKept).
LeaseInv == TypeOK /\ LeaseKept

\* The readiness a status reports was proved by an answer to a probe that was
\* sent on the connection the worker holds now: never by an older connection,
\* an older controller, or the late answer to an earlier probe.
ReadyIsCurrent ==
  alive /\ conn.open /\ conn.ready =>
    /\ conn.id = link
    /\ \E p \in asked : {[p |-> p, part |-> "reply"], [p |-> p, part |-> "idle"]} \subseteq msgs
==============================================================================
