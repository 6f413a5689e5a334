------------------------------ MODULE WaitNotify ------------------------------
(***************************************************************************)
(* The controller's event loop: clients that block until a row or a topic  *)
(* changes, the worker threads whose commits wake them, and the shutdown   *)
(* that waits for every open connection.  The loop runs one segment        *)
(* between two awaits at a time (busy names a segment that has read the    *)
(* store and not yet acted on it); workers commit and post between any two *)
(* of its steps.                                                           *)
(***************************************************************************)
EXTENDS Naturals, FiniteSets

CONSTANTS
  Waiters, Callers, \* client processes, one connection and request at a time
  Execs, Batches, \* durable rows, each with a topic
  Members,        \* the executions of each batch
  Others,         \* topics of condition.wait and condition.notify alone
  MaxCalls        \* bound on the requests made

\* Every batch creates rows of its own.
ASSUME WaitAssumption ==
  /\ MaxCalls \in Nat
  /\ Members \in [Batches -> SUBSET Execs]
  /\ \A b, c \in Batches : b # c => Members[b] \cap Members[c] = {}
  /\ Execs \cap Batches = {} /\ Others \cap (Execs \cup Batches) = {}
  /\ (Waiters \cup Callers) \cap (Execs \cup Batches) = {}
  /\ "none" \notin Waiters \cup Callers \cup Execs \cup Batches

Clients == Waiters \cup Callers
Rows == Execs \cup Batches
Topics == Rows \cup Others
None == "none"

VARIABLES
  row,      \* the durable state of an execution or batch
  owed,     \* rows a worker has changed and not yet notified about
  posted,   \* per topic, publications scheduled on the loop and not yet run
  topic,    \* _topics: the last payload, or "unset" at revision 0
  pc, req,  \* where each connection's handler is, and its request
  busy,     \* the segment that holds the loop after reading the store
  stage,    \* the server: up, stopping, closing, closed
  forced,   \* a forced stop marked rows uncertain
  calls

vars == <<row, owed, posted, topic, pc, req, busy, stage, forced, calls>>
loop == <<pc, req, busy, calls>>

Idle == [who |-> None, read |-> None]
NoReq == [kind |-> None, on |-> None, limited |-> FALSE]

Init ==
  /\ row = [i \in Rows |-> None] /\ owed = {}
  /\ posted = [t \in Topics |-> 0] /\ topic = [t \in Topics |-> "unset"]
  /\ pc = [c \in Clients |-> "idle"] /\ req = [c \in Clients |-> NoReq]
  /\ busy = Idle /\ stage = "up" /\ forced = FALSE /\ calls = 0

Active(i) == row[i] \in {"queued", "running"}
LoopFree == busy = Idle /\ stage # "closed"
Reads(c) == pc[c] \in {"called", "woken"}
Asks(c, kind) == pc[c] = "called" /\ req[c].kind = kind
Answer(c) == pc' = [pc EXCEPT ![c] = "answered"] /\ UNCHANGED <<req, busy, calls>>
Post(ts) == posted' = [t \in Topics |-> posted[t] + (IF t \in ts THEN 1 ELSE 0)]

-----------------------------------------------------------------------------
(***************************************************************************)
(* Connections.  Every client call opens one, and the handler reads it.    *)
(***************************************************************************)
Waits ==
  [kind : {"row"}, on : Rows, limited : BOOLEAN]
    \cup [kind : {"revision"}, on : Others, limited : BOOLEAN]
Changes ==
  [kind : {"start"}, on : Rows \ UNION {Members[b] : b \in Batches}, limited : {TRUE}]
    \cup [kind : {"cancel"}, on : Rows, limited : {TRUE}]
    \cup [kind : {"notify"}, on : Others, limited : {TRUE}]
    \cup [kind : {"stop", "force"}, on : {None}, limited : {TRUE}]

Call(c) ==
  /\ stage \in {"up", "stopping"} /\ pc[c] = "idle" /\ calls < MaxCalls
  /\ \E r \in IF c \in Waiters THEN Waits ELSE Changes : req' = [req EXCEPT ![c] = r]
  /\ pc' = [pc EXCEPT ![c] = "called"] /\ calls' = calls + 1
  /\ UNCHANGED <<row, owed, posted, topic, busy, stage, forced>>

\* The response is written; the client closes its end, or the handler breaks
\* out because a shutdown was requested.  Either way the connection is gone.
Disconnect(c) ==
  /\ LoopFree /\ pc[c] = "answered"
  /\ pc' = [pc EXCEPT ![c] = "idle"] /\ req' = [req EXCEPT ![c] = NoReq]
  /\ stage' = IF stage = "stopping" THEN "closing" ELSE stage
  /\ UNCHANGED <<row, owed, posted, topic, busy, forced, calls>>

\* execution.start and execution.batch.start; a member starts with its batch.
Start(c) ==
  /\ LoopFree /\ Asks(c, "start")
  /\ LET i == req[c].on
         new == {i} \cup (IF i \in Batches THEN Members[i] ELSE {}) IN
     row' = IF row[i] # None THEN row
            ELSE [j \in Rows |-> IF j \in new THEN "queued" ELSE row[j]]
  /\ Answer(c) /\ UNCHANGED <<owed, posted, topic, stage, forced>>

\* Mutant: the cancelled rows are not announced.
CancelSilently(c) ==
  /\ LoopFree /\ Asks(c, "cancel")
  /\ LET i == req[c].on
         all == {i} \cup (IF i \in Batches THEN Members[i] ELSE {}) IN
     row' = [j \in Rows |-> IF j \in all \cap Execs /\ row[j] = "queued"
                            THEN "done" ELSE row[j]]
  /\ Answer(c) /\ UNCHANGED <<owed, posted, topic, stage, forced>>

\* execution.cancel and batch.cancel: the rows change and the topics are
\* posted to in one segment of the loop.
Cancel(c) ==
  /\ LoopFree /\ Asks(c, "cancel")
  /\ LET i == req[c].on
         all == {i} \cup (IF i \in Batches THEN Members[i] ELSE {})
         hit == IF Active(i) THEN all ELSE {} IN
     IF row[i] \in {None, "gone"} THEN UNCHANGED <<row, posted>>
     ELSE /\ row' = [j \in Rows |-> IF j \in hit \cap Execs /\ row[j] = "queued"
                                    THEN "done" ELSE row[j]]
          /\ Post(all)
  /\ Answer(c) /\ UNCHANGED <<owed, topic, stage, forced>>

-----------------------------------------------------------------------------
(***************************************************************************)
(* Waits.                                                                  *)
(***************************************************************************)
\* Mutant: a row that is missing is looked up again instead of refused.
RetriesMissing(c) ==
  /\ LoopFree /\ Reads(c) /\ req[c].kind = "row"
  /\ IF Active(req[c].on)
     THEN busy' = [who |-> c, read |-> row[req[c].on]] /\ UNCHANGED <<pc, req, calls>>
     ELSE /\ pc' = [pc EXCEPT ![c] = IF row[req[c].on] = "done" THEN "answered" ELSE "called"]
          /\ UNCHANGED <<req, busy, calls>>
  /\ UNCHANGED <<row, owed, posted, topic, stage, forced>>

\* execution.wait and batch.wait: a settled or missing row answers at once.
WaitReads(c) ==
  /\ LoopFree /\ Reads(c) /\ req[c].kind = "row"
  /\ IF Active(req[c].on)
     THEN busy' = [who |-> c, read |-> row[req[c].on]] /\ UNCHANGED <<pc, req, calls>>
     ELSE Answer(c)
  /\ UNCHANGED <<row, owed, posted, topic, stage, forced>>

\* Still under the condition, the handler blocks (or a zero timeout ends it).
WaitBlocks(c) ==
  /\ busy.who = c
  /\ \/ pc' = [pc EXCEPT ![c] = "blocked"]
     \/ req[c].limited /\ pc' = [pc EXCEPT ![c] = "answered"]
  /\ busy' = Idle
  /\ UNCHANGED <<row, owed, posted, topic, req, stage, forced, calls>>

\* condition.wait: only a revision above the client's own, here 0, answers.
RevisionWait(c) ==
  /\ LoopFree /\ Reads(c) /\ req[c].kind = "revision"
  /\ pc' = [pc EXCEPT ![c] = IF topic[req[c].on] # "unset"
                             THEN "answered" ELSE "blocked"]
  /\ UNCHANGED <<row, owed, posted, topic, req, busy, stage, forced, calls>>

\* Mutant: a wait that times out starts over.
TimeoutRestarts(c) ==
  /\ LoopFree /\ pc[c] = "blocked" /\ req[c].limited
  /\ pc' = [pc EXCEPT ![c] = "called"]
  /\ UNCHANGED <<row, owed, posted, topic, req, busy, stage, forced, calls>>

Timeout(c) ==
  /\ LoopFree /\ pc[c] = "blocked" /\ req[c].limited
  /\ Answer(c) /\ UNCHANGED <<row, owed, posted, topic, stage, forced>>

\* What notify_all does to the handlers blocked on a topic.
Wake(t) ==
  pc' = [c \in Clients |-> IF pc[c] = "blocked" /\ req[c].on = t THEN "woken" ELSE pc[c]]

\* condition.notify
NotifyCondition(c) ==
  /\ LoopFree /\ Asks(c, "notify")
  /\ LET t == req[c].on IN
     /\ topic' = [topic EXCEPT ![t] = "given"]
     /\ pc' = [d \in Clients |-> IF d = c THEN "answered"
                                 ELSE IF pc[d] = "blocked" /\ req[d].on = t THEN "woken"
                                 ELSE pc[d]]
  /\ UNCHANGED <<row, owed, posted, req, busy, stage, forced, calls>>

\* _publish_execution and _publish_batch read the row ...
PublishReads(i) ==
  /\ LoopFree /\ posted[i] > 0
  /\ posted' = [posted EXCEPT ![i] = @ - 1]
  /\ busy' = [who |-> i, read |-> row[i]]
  /\ UNCHANGED <<row, owed, topic, pc, req, stage, forced, calls>>

\* ... and then raise the revision, set the payload and wake the waiters.
PublishWakes(i) ==
  /\ busy.who = i /\ i \in Rows
  /\ topic' = [topic EXCEPT ![i] = busy.read]
  /\ Wake(i) /\ busy' = Idle
  /\ UNCHANGED <<row, owed, posted, req, stage, forced, calls>>

-----------------------------------------------------------------------------
(***************************************************************************)
(* Workers.  A worker commits a change, then notifies about it, then goes  *)
(* on to its next change.                                                  *)
(***************************************************************************)
Commit(e) ==
  /\ stage # "closed" /\ Active(e) /\ e \notin owed
  /\ \A b \in Batches : e \in Members[b] => row[b] = "running" /\ b \notin owed
  /\ \E s \in {"running", "done"} : s # row[e] /\ row' = [row EXCEPT ![e] = s]
  /\ owed' = owed \cup {e}
  /\ UNCHANGED <<posted, topic, pc, req, busy, stage, forced, calls>>

\* set_batch_state by _run_batch: running at once, settled after its members.
CommitBatch(b) ==
  /\ stage # "closed" /\ Active(b) /\ b \notin owed
  /\ \/ row[b] = "queued" /\ row' = [row EXCEPT ![b] = "running"]
     \/ /\ row[b] = "running" /\ \A e \in Members[b] : ~Active(e) /\ e \notin owed
        /\ row' = [row EXCEPT ![b] = "done"]
  /\ owed' = owed \cup {b}
  /\ UNCHANGED <<posted, topic, pc, req, busy, stage, forced, calls>>

\* Mutant: only a final state is announced.
NotifiesFinal(i) ==
  /\ stage # "closed" /\ i \in owed
  /\ owed' = owed \ {i}
  /\ Post(IF row[i] = "done" THEN {i} ELSE {})
  /\ UNCHANGED <<row, topic, pc, req, busy, stage, forced, calls>>

\* _notify_from_worker and _notify_batch_from_worker: call_soon_threadsafe.
Notify(i) ==
  /\ stage # "closed" /\ i \in owed
  /\ owed' = owed \ {i} /\ Post({i})
  /\ UNCHANGED <<row, topic, pc, req, busy, stage, forced, calls>>

\* Another process deletes a settled execution; no topic hears of it.
Prune(e) ==
  /\ row[e] = "done" /\ e \notin owed
  /\ row' = [row EXCEPT ![e] = "gone"]
  /\ UNCHANGED <<owed, posted, topic, loop, stage, forced>>

-----------------------------------------------------------------------------
(***************************************************************************)
(* Shutdown.                                                               *)
(***************************************************************************)
\* _force_active_uncertain: executions that a worker has begun settle (a queued
\* one is left as it is), and no topic is posted to.
Begun == {e \in Execs : row[e] = "running"}
Uncertain ==
  /\ row' = [i \in Rows |-> IF i \in Begun THEN "done" ELSE row[i]]
  /\ forced' = (forced \/ Begun # {})

\* controller.stop: refused while executions are active, unless forced.
Stop(c) ==
  /\ LoopFree /\ pc[c] = "called" /\ req[c].kind \in {"stop", "force"}
  /\ IF req[c].kind = "stop" /\ \E e \in Execs : Active(e)
     THEN UNCHANGED <<row, forced, stage>>
     ELSE /\ stage' = IF stage = "up" THEN "stopping" ELSE stage
          /\ IF req[c].kind = "force" THEN Uncertain ELSE UNCHANGED <<row, forced>>
  /\ Answer(c) /\ UNCHANGED <<owed, posted, topic>>

\* SIGINT or SIGTERM: the forced path without a request.
Signal ==
  /\ LoopFree /\ stage \in {"up", "stopping"}
  /\ Uncertain /\ stage' = "closing"
  /\ UNCHANGED <<owed, posted, topic, loop>>

\* wait_closed returns once no connection is open; then the workers are
\* closed, the files unlinked and the lifetime lock released.
Close ==
  /\ LoopFree /\ stage = "closing" /\ \A c \in Clients : pc[c] = "idle"
  /\ stage' = "closed"
  /\ UNCHANGED <<row, owed, posted, topic, loop, forced>>

-----------------------------------------------------------------------------
Serve(c) == \/ Start(c) \/ Cancel(c) \/ Stop(c) \/ NotifyCondition(c)
            \/ WaitReads(c) \/ WaitBlocks(c) \/ RevisionWait(c) \/ Timeout(c)
            \/ Disconnect(c)
Loop == \/ \E c \in Clients : Serve(c)
        \/ \E i \in Rows : PublishReads(i) \/ PublishWakes(i)
        \/ Close
Notifies == \E i \in Rows : Notify(i)

Next ==
  \/ Loop \/ Notifies \/ Signal
  \/ \E c \in Clients : Call(c)
  \/ \E e \in Execs : Commit(e) \/ Prune(e)
  \/ \E b \in Batches : CommitBatch(b)

\* The loop goes on while a task is ready or a timeout is due, and a worker
\* that has committed goes on to notify.  That an execution ever ends, a
\* client calls or another process prunes is not assumed.
Fairness == WF_vars(Loop) /\ WF_vars(Notifies)

Spec == Init /\ [][Next]_vars /\ Fairness

-----------------------------------------------------------------------------
States == {None, "queued", "running", "done", "gone"}

TypeOK ==
  /\ row \in [Rows -> States]
  /\ owed \subseteq Rows /\ posted \in [Topics -> Nat]
  /\ topic \in [Topics -> {"unset", "given"} \cup States]
  /\ pc \in [Clients -> {"idle", "called", "blocked", "woken", "answered"}]
  /\ req \in [Clients -> Waits \cup Changes \cup {NoReq}]
  /\ busy \in [who : Clients \cup Rows \cup {None}, read : States]
  /\ stage \in {"up", "stopping", "closing", "closed"} /\ forced \in BOOLEAN

\* No wake-up is lost: while a handler is blocked on a settled row, a
\* publication is posted, owed, or about to wake it.  (A forced stop settles
\* rows without a publication.)
NoLostWakeup ==
  \A c \in Clients :
    pc[c] = "blocked" /\ req[c].kind = "row" /\ ~Active(req[c].on) /\ ~forced =>
      posted[req[c].on] > 0 \/ req[c].on \in owed \/ busy.who = req[c].on

\* A handler that has read an active row and not yet blocked will hear of what
\* happened to the row since.
ReadHeard ==
  \A c \in Clients :
    busy.who = c =>
      /\ Reads(c) /\ req[c].kind = "row"
      /\ ~Active(req[c].on) /\ ~forced => posted[req[c].on] > 0 \/ req[c].on \in owed

\* No wake-up is lost (NoLostWakeup), in the form that is inductive: what a
\* handler is about to block on is part of it.
WaitInv == TypeOK /\ NoLostWakeup /\ ReadHeard

\* Once everything owed and posted has run, a topic that was ever published
\* shows the row as it is: a publication that read an older state is
\* followed by another one.
PayloadSettles ==
  \A i \in Rows :
    topic[i] # "unset" /\ posted[i] = 0 /\ i \notin owed /\ busy.who # i
      /\ row[i] # "gone" /\ ~forced
      => topic[i] = row[i]

\* A client blocked on a row that settles is answered.
WaitAnswered ==
  \A c \in Waiters :
    (pc[c] = "blocked" /\ req[c].kind = "row" /\ ~Active(req[c].on))
      ~> (pc[c] = "idle" \/ forced)

\* The server closes once it has been told to stop, provided no request was
\* left that waits without a limit: it waits for every open connection.
BoundedStop ==
  (stage = "closing" /\ \A c \in Clients : pc[c] = "idle" \/ req[c].limited)
    ~> (stage = "closed")

\* docs/08_controller.md: controller stop waits for socket shutdown, after
\* which listener, clients, PID file, socket and lifetime lock are closed.
StopCompletes == (stage = "closing") ~> (stage = "closed")
==============================================================================
