---------------------------- MODULE SessionRegistry ----------------------------
(***************************************************************************)
(* One session name in the two registries a user has: sessions.json of the *)
(* retained commands and the sessions table of the durable store, which    *)
(* imports the former once.  Commands are processes of their own; each     *)
(* allocates, records, keeps alive and releases a Colab VM through several *)
(* calls, beside detached keep-alive daemons, the controller's worker and  *)
(* a backend that reclaims VMs nobody keeps alive.  Endpoints are numbered *)
(* in the order of their assignment, and a daemon's pid is its endpoint.   *)
(***************************************************************************)
EXTENDS Naturals, FiniteSets

CONSTANTS Procs, MaxVMs, MaxCmds   \* bounds on assignments and on commands

ASSUME RegistryAssumption == MaxVMs \in Nat /\ MaxCmds \in Nat /\ "free" \notin Procs

VARIABLES
  vms, last,    \* assigned endpoints, and the last one handed out
  json, db,     \* the two rows under the name
  imported,     \* legacy_import_hash is set
  daemon,       \* keep-alive process per endpoint
  pc, loc,      \* the commands
  lease,        \* holder of the session lease, or "free"
  worker,       \* the controller's kernel worker, connecting
  cmds,
  excused,      \* VMs that an error or a kill, named where it is added, took
                \* from the command or the row that had them
  dirty         \* commands overlapped, or passed a worker without the lease

faults == <<excused, dirty>>
vars == <<vms, last, json, db, imported, daemon, pc, loc, lease, worker, cmds, faults>>
rows == <<json, db, imported>>
outside == <<vms, last, daemon>>

Endpoints == 1..MaxVMs
NoRow == [ep |-> 0, pid |-> 0, kernel |-> 0]
NoDaemon == [at |-> "none", store |-> "none", errs |-> 0]
NoLoc == [cmd |-> "none", row |-> NoRow, ep |-> 0]
Quiet == [at |-> "idle", ep |-> 0]
Durable == {"ensure", "stop", "keeprun", "shortrun"}
Retained == {"new", "oldstop", "run", "exec", "console", "sync"}

Init ==
  /\ vms = {} /\ last = 0 /\ json = NoRow /\ db = NoRow /\ imported = FALSE
  /\ daemon = [e \in Endpoints |-> NoDaemon]
  /\ pc = [p \in Procs |-> "idle"] /\ loc = [p \in Procs |-> NoLoc]
  /\ lease = "free" /\ worker = Quiet /\ cmds = 0
  /\ excused = {} /\ dirty = FALSE

Go(p, place) == pc' = [pc EXCEPT ![p] = place] /\ UNCHANGED loc
Done(p) == pc' = [pc EXCEPT ![p] = "idle"] /\ loc' = [loc EXCEPT ![p] = NoLoc]
IsDurable(p) == loc[p].cmd \in Durable
Running(e) == daemon[e].at \in {"check", "ping"}
Excuse(e) == excused' = excused \cup {e}
\* A detached daemon has just been started for the command's endpoint.
Started(p) == [at |-> "check", store |-> IF IsDurable(p) THEN "db" ELSE "json", errs |-> 0]
\* A daemon that is gone: it "exited" with its row or was killed for it, or it
\* "ended" by itself.
Ended(why) == [NoDaemon EXCEPT !.at = why]
Killed(e) == [x \in Endpoints |-> IF x = e /\ Running(x)
                                  THEN Ended("exited") ELSE daemon[x]]

-----------------------------------------------------------------------------
\* The one-time import when a DurableStore is opened: rows already there stay.
Import ==
  /\ ~imported /\ json # NoRow
  /\ db' = IF db = NoRow THEN json ELSE db
  /\ imported' = TRUE
  /\ UNCHANGED <<outside, json, pc, loc, lease, worker, cmds, faults>>

\* A command starts; it reads the registry it works on, if it reads first.
Begin(p) ==
  /\ pc[p] = "idle" /\ cmds < MaxCmds /\ cmds' = cmds + 1
  /\ dirty' = (dirty \/ \E q \in Procs : pc[q] # "idle")
  /\ \E c \in Durable \cup Retained :
       /\ c \in Durable => imported \/ json = NoRow
       /\ pc' = [pc EXCEPT ![p] =
            CASE c \in {"ensure", "keeprun", "shortrun"} ->
                   IF db = NoRow THEN "assign" ELSE "ready"
              [] c = "stop" -> IF db = NoRow THEN "idle" ELSE "lease"
              [] c \in {"new", "run"} -> "assign"
              [] c = "sync" -> IF json = NoRow THEN "idle" ELSE "sync"
              [] c = "oldstop" -> IF json = NoRow THEN "idle" ELSE "kill"
              [] OTHER -> IF json = NoRow THEN "idle" ELSE "work"]
       /\ loc' = [loc EXCEPT ![p] =
            IF pc'[p] = "idle" THEN NoLoc
            ELSE LET r == IF c \in Durable THEN db
                          ELSE IF c \in {"new", "run"} THEN NoRow ELSE json
                 IN [cmd |-> c, row |-> r, ep |-> r.ep]]
  /\ UNCHANGED <<outside, rows, lease, worker, excused>>

-----------------------------------------------------------------------------
(***************************************************************************)
(* Allocation: ensure_session of the durable client, new and run of the    *)
(* retained commands.                                                      *)
(***************************************************************************)
\* An assignment may be refused, or made although its answer is lost.
Assign(p) ==
  /\ pc[p] = "assign"
  /\ \/ /\ last < MaxVMs /\ last' = last + 1 /\ vms' = vms \cup {last + 1}
        /\ \/ /\ loc' = [loc EXCEPT ![p].ep = last + 1,
                                  ![p].row = [NoRow EXCEPT !.ep = last + 1]]
              /\ pc' = [pc EXCEPT ![p] = "preflight"] /\ UNCHANGED excused
           \/ Done(p) /\ Excuse(last + 1)
     \/ Done(p) /\ UNCHANGED <<vms, last, excused>>
  /\ UNCHANGED <<rows, daemon, lease, worker, cmds, dirty>>

\* A retained command whose call fails outside its handlers ends as it stands.
Aborts(p) == ~IsDurable(p) /\ Done(p) /\ Excuse(loc[p].ep)

\* The first keep-alive ping.  The durable client gives up on any error; the
\* retained commands give up on a missing scope, go on after any other answer,
\* and handle no other error.
Preflight(p) ==
  /\ pc[p] = "preflight"
  /\ \/ (Go(p, "record") \/ Go(p, "undo")) /\ UNCHANGED excused
     \/ Aborts(p)
  /\ UNCHANGED <<outside, rows, lease, worker, cmds, dirty>>

\* Mutant: the daemon is started first, and the row it looks for written next.
SpawnFirst(p) ==
  /\ pc[p] = "record"
  /\ IF loc[p].row.pid = 0
     THEN /\ daemon' = [daemon EXCEPT ![loc[p].ep] = Started(p)]
          /\ loc' = [loc EXCEPT ![p].row.pid = loc[p].ep] /\ UNCHANGED <<pc, json, db>>
     ELSE /\ IF IsDurable(p) THEN db' = loc[p].row /\ UNCHANGED json
             ELSE json' = loc[p].row /\ UNCHANGED db
          /\ Go(p, "pid") /\ UNCHANGED daemon
  /\ UNCHANGED <<vms, last, imported, lease, worker, cmds, faults>>

\* upsert_session or StateStore.add: a row already there is replaced.  Either
\* may fail.
Record(p) ==
  /\ pc[p] = "record"
  /\ \/ /\ IF IsDurable(p) THEN db' = loc[p].row /\ UNCHANGED <<json, excused>>
           ELSE json' = loc[p].row /\ UNCHANGED db /\ Excuse(json.ep)
        /\ Go(p, "spawn")
     \/ IsDurable(p) /\ Go(p, "undo") /\ UNCHANGED <<json, db, excused>>
     \/ Aborts(p) /\ UNCHANGED <<json, db>>
  /\ UNCHANGED <<outside, imported, lease, worker, cmds, dirty>>

\* The daemon is started, detached, or Popen fails.
Spawn(p) ==
  /\ pc[p] = "spawn"
  /\ \/ /\ daemon' = [daemon EXCEPT ![loc[p].ep] = Started(p)]
        /\ pc' = [pc EXCEPT ![p] = "pid"]
        /\ loc' = [loc EXCEPT ![p].row.pid = loc[p].ep] /\ UNCHANGED excused
     \/ IsDurable(p) /\ Go(p, "undo") /\ UNCHANGED <<daemon, excused>>
     \/ Aborts(p) /\ UNCHANGED daemon
  /\ UNCHANGED <<vms, last, rows, lease, worker, cmds, dirty>>

\* update_session_keep_alive_pid writes by name and fails without a row; the
\* retained commands write their whole snapshot again.
SetPid(p) ==
  /\ pc[p] = "pid"
  /\ \/ /\ IsDurable(p) /\ db # NoRow /\ db' = [db EXCEPT !.pid = loc[p].ep]
        /\ Go(p, "ready") /\ UNCHANGED json
     \/ IsDurable(p) /\ Go(p, "undo") /\ UNCHANGED <<json, db>>
     \/ /\ ~IsDurable(p) /\ json' = loc[p].row /\ UNCHANGED db
        /\ IF loc[p].cmd = "run" THEN Go(p, "work") ELSE Done(p)
     \/ ~IsDurable(p) /\ Done(p) /\ UNCHANGED <<json, db>>
  /\ UNCHANGED <<outside, imported, lease, worker, cmds, faults>>

\* Mutant: the assignment that failed is left to the backend.
UndoKeepsVM(p) ==
  /\ pc[p] = "undo"
  /\ Go(p, "undelete")
  /\ UNCHANGED <<vms, last, rows, daemon, lease, worker, cmds, faults>>

\* A failed allocation unassigns its VM (an error is ignored) ...
Undo(p) ==
  /\ pc[p] = "undo"
  /\ \/ vms' = vms \ {loc[p].ep} /\ UNCHANGED excused
     \/ Excuse(loc[p].ep) /\ UNCHANGED vms
  /\ IF IsDurable(p) THEN Go(p, "undelete") ELSE Done(p)
  /\ UNCHANGED <<last, rows, daemon, lease, worker, cmds, dirty>>

\* ... and the durable client deletes the row under the name, without the
\* lease that would have waited for a worker on its way to it.
UndoDelete(p) ==
  /\ pc[p] = "undelete"
  /\ db' \in {NoRow, db} /\ Done(p)
  /\ dirty' = (dirty \/ worker # Quiet)
  /\ UNCHANGED <<outside, json, imported, lease, worker, cmds, excused>>

\* ensure returns; run goes on to its execution and then stops the session.
Ready(p) ==
  /\ pc[p] = "ready"
  /\ IF loc[p].cmd = "shortrun" /\ db # NoRow
     THEN /\ pc' = [pc EXCEPT ![p] = "lease"]
          /\ loc' = [loc EXCEPT ![p].row = db, ![p].ep = db.ep]
     ELSE Done(p)
  /\ UNCHANGED <<outside, rows, lease, worker, cmds, faults>>

-----------------------------------------------------------------------------
(***************************************************************************)
(* Release: stop_session under the session lease, stop and the teardown of *)
(* run without it.  All of them act on the row they read at the start.     *)
(***************************************************************************)
\* Mutant: the lease is granted while the worker is still connecting.
LeaseAtOnce(p) ==
  /\ pc[p] = "lease"
  /\ \/ lease = "free" /\ db # NoRow /\ lease' = p /\ Go(p, "kill")
     \/ Done(p) /\ UNCHANGED lease
  /\ UNCHANGED <<outside, rows, worker, cmds, faults>>

\* The lease is refused when held, and granted once the worker, which takes
\* its requests in order, has closed its transport.
Lease(p) ==
  /\ pc[p] = "lease"
  /\ \/ lease = "free" /\ db # NoRow /\ worker.at \in {"idle", "checked"} /\ lease' = p
        /\ Go(p, "kill")
     \/ Done(p) /\ UNCHANGED lease
  /\ UNCHANGED <<outside, rows, worker, cmds, faults>>

Kill(p) ==
  /\ pc[p] = "kill"
  /\ daemon' = Killed(loc[p].row.pid)
  /\ Go(p, "unassign")
  /\ UNCHANGED <<vms, last, rows, lease, worker, cmds, faults>>

\* An error ends stop with its row still there, ...
Unassign(p) ==
  /\ pc[p] = "unassign" /\ loc[p].cmd # "run"
  /\ \/ /\ loc[p].ep \in vms /\ vms' = vms \ {loc[p].ep}
        /\ Go(p, "delete") /\ UNCHANGED <<excused, lease>>
     \/ /\ Excuse(loc[p].ep) /\ UNCHANGED vms
        /\ Done(p) /\ lease' = IF lease = p THEN "free" ELSE lease
  /\ UNCHANGED <<last, rows, daemon, worker, cmds, dirty>>

\* ... and is ignored by the teardown of run.
TeardownUnassigns(p) ==
  /\ pc[p] = "unassign" /\ loc[p].cmd = "run"
  /\ \/ vms' = vms \ {loc[p].ep} /\ UNCHANGED excused
     \/ Excuse(loc[p].ep) /\ UNCHANGED vms
  /\ Go(p, "delete")
  /\ UNCHANGED <<last, rows, daemon, lease, worker, cmds, dirty>>

\* The row is removed, or that fails and the command ends.
Delete(p) ==
  /\ pc[p] = "delete"
  /\ \/ IsDurable(p) /\ db' = NoRow /\ UNCHANGED json
     \/ ~IsDurable(p) /\ json' = NoRow /\ UNCHANGED db
     \/ UNCHANGED <<json, db>>
  /\ lease' = IF lease = p THEN "free" ELSE lease
  /\ Done(p)
  /\ UNCHANGED <<outside, imported, worker, cmds, faults>>

-----------------------------------------------------------------------------
(***************************************************************************)
(* The retained commands that use a session: exec, run, repl and console   *)
(* write their snapshot back; a lost session is pruned.                    *)
(***************************************************************************)
\* A snapshot is added whole, whatever is under the name by then.
Add(r) ==
  /\ json' = r
  /\ excused' = IF json.ep = r.ep THEN excused ELSE excused \cup {json.ep}

\* The kernel id, the running mark and the end of the command: each of them
\* adds the snapshot, also when the VM is lost on the way.
WriteBack(p) ==
  /\ pc[p] = "work"
  /\ Add(IF loc[p].ep \in vms THEN [loc[p].row EXCEPT !.kernel = loc[p].ep] ELSE loc[p].row)
  /\ \/ loc[p].ep \in vms /\ Go(p, "work")
     \/ Done(p)
     \/ loc[p].cmd = "run" /\ Go(p, "kill")
  /\ UNCHANGED <<outside, db, imported, lease, worker, cmds, dirty>>

\* A write may fail, and exec before its first one: the command ends.
WriteFails(p) ==
  /\ pc[p] = "work"
  /\ Done(p)
  /\ UNCHANGED <<outside, rows, lease, worker, cmds, faults>>

\* prune_session: kill the daemon the row names now, and remove the row.
PruneSession == daemon' = Killed(json.pid) /\ json' = NoRow

\* is_terminal_error: an answer 401 or 404, or one of these numbers in the
\* text of any error, counts as a lost session, also while the VM lives.
\* exec and repl prune the session and exit, ...
LostExec(p) ==
  /\ pc[p] = "work" /\ loc[p].cmd = "exec"
  /\ PruneSession /\ Excuse(json.ep) /\ Done(p)
  /\ UNCHANGED <<vms, last, db, imported, lease, worker, cmds, dirty>>

\* ... run and console prune it too, and then their last write-back, in a
\* finally clause, puts the row back; run may go on to its teardown.
LostRun(p) ==
  /\ pc[p] = "work" /\ loc[p].cmd = "run"
  /\ daemon' = Killed(json.pid) /\ Excuse(json.ep)
  /\ \/ json' = loc[p].row /\ (Done(p) \/ Go(p, "kill"))
     \/ json' = NoRow /\ Done(p)
  /\ UNCHANGED <<vms, last, db, imported, lease, worker, cmds, dirty>>

LostConsole(p) ==
  /\ pc[p] = "work" /\ loc[p].cmd = "console"
  /\ daemon' = Killed(json.pid) /\ Excuse(json.ep)
  /\ json' \in {loc[p].row, NoRow} /\ Done(p)
  /\ UNCHANGED <<vms, last, db, imported, lease, worker, cmds, dirty>>

\* sync_sessions: the assignments are listed after the local rows, ...
SyncLists(p) ==
  /\ pc[p] = "sync"
  /\ IF loc[p].ep \in vms THEN Done(p) ELSE Go(p, "prune")
  /\ UNCHANGED <<outside, rows, lease, worker, cmds, faults>>

\* ... and a name whose endpoint is not listed is pruned as it is by then.
SyncPrunes(p) ==
  /\ pc[p] = "prune"
  /\ PruneSession /\ Done(p)
  /\ UNCHANGED <<vms, last, db, imported, lease, worker, cmds, faults>>

\* A command is killed; a lease it held stays with the controller.
Crash(p) ==
  /\ pc[p] # "idle"
  /\ Done(p) /\ Excuse(loc[p].ep)
  /\ UNCHANGED <<outside, rows, lease, worker, cmds, dirty>>

-----------------------------------------------------------------------------
(***************************************************************************)
(* Keep-alive daemons, the worker's connection and the backend.            *)
(***************************************************************************)
RowOf(e) == IF daemon[e].store = "db" THEN db ELSE json
Goes(e, place) == daemon' = [daemon EXCEPT ![e].at = place]
Counts(e, n) == daemon' = [daemon EXCEPT ![e] = [@ EXCEPT !.errs = n, !.at = "check"]]
Ends(e, why) == daemon' = [daemon EXCEPT ![e] = Ended(why)]

\* The row is gone or names another endpoint: the daemon has no work.
DaemonChecks(e) ==
  /\ daemon[e].at = "check"
  /\ IF RowOf(e).ep = e THEN Goes(e, "ping") ELSE Ends(e, "exited")
  /\ UNCHANGED <<vms, last, rows, pc, loc, lease, worker, cmds, faults>>

\* A ping returns without an error: the VM answered, or, there or not, the
\* read timed out, which counts as success.
DaemonPings(e) ==
  /\ daemon[e].at = "ping"
  /\ Counts(e, 0)
  /\ UNCHANGED <<vms, last, rows, pc, loc, lease, worker, cmds, faults>>

\* Mutant: every refusal is the first one.
RefusedAnew(e) ==
  /\ daemon[e].at = "ping"
  /\ Counts(e, 1)
  /\ UNCHANGED <<vms, last, rows, pc, loc, lease, worker, cmds, faults>>

\* A ping is refused with a 4xx, of whatever kind and whether or not the VM is
\* there: the second one in a row ends the daemon.
DaemonRefused(e) ==
  /\ daemon[e].at = "ping"
  /\ IF daemon[e].errs = 1 THEN Ends(e, "ended") ELSE Counts(e, 1)
  /\ UNCHANGED <<vms, last, rows, pc, loc, lease, worker, cmds, faults>>

\* Any other error (no connection, a 5xx) leaves the count as it is.
DaemonMisses(e) ==
  /\ daemon[e].at = "ping"
  /\ Goes(e, "check")
  /\ UNCHANGED <<vms, last, rows, pc, loc, lease, worker, cmds, faults>>

\* The registry cannot be read, the process is killed, or the retained daemon
\* has run for a day.
DaemonEnds(e) ==
  /\ daemon[e].at = "check"
  /\ Ends(e, "ended")
  /\ UNCHANGED <<vms, last, rows, pc, loc, lease, worker, cmds, faults>>

\* A request of the controller looks at the lease before it is queued.
WorkerChecks ==
  /\ worker.at = "idle" /\ lease = "free" /\ db # NoRow
  /\ worker' = [at |-> "checked", ep |-> 0]
  /\ UNCHANGED <<outside, rows, pc, loc, lease, cmds, faults>>

\* The worker reads the row; a lease taken meanwhile does not stop it.
WorkerReads ==
  /\ worker.at = "checked"
  /\ worker' = IF db = NoRow THEN Quiet ELSE [at |-> "read", ep |-> db.ep]
  /\ dirty' = (dirty \/ lease # "free")
  /\ UNCHANGED <<outside, rows, pc, loc, lease, cmds, excused>>

\* transport_factory connects to what was read, while the VM is there.
WorkerConnects ==
  /\ worker.at = "read"
  /\ worker' = IF worker.ep \in vms THEN [worker EXCEPT !.at = "connected"] ELSE Quiet
  /\ UNCHANGED <<outside, rows, pc, loc, lease, cmds, faults>>

\* update_session_connection writes by name and fails without a row.
WorkerWrites ==
  /\ worker.at = "connected"
  /\ db' = IF db = NoRow THEN db ELSE [db EXCEPT !.kernel = worker.ep]
  /\ worker' = Quiet
  /\ UNCHANGED <<outside, json, imported, pc, loc, lease, cmds, faults>>

\* The backend reclaims a VM that no daemon keeps alive (external).
Reclaim(e) ==
  /\ e \in vms /\ ~Running(e) /\ \A p \in Procs : loc[p].ep = e => pc[p] = "work"
  /\ vms' = vms \ {e}
  /\ UNCHANGED <<last, rows, daemon, pc, loc, lease, worker, cmds, faults>>

-----------------------------------------------------------------------------
Command(p) ==
  \/ Assign(p) \/ Preflight(p) \/ Record(p) \/ Spawn(p) \/ SetPid(p)
  \/ Undo(p) \/ UndoDelete(p) \/ Ready(p) \/ Lease(p) \/ Kill(p)
  \/ Unassign(p) \/ TeardownUnassigns(p) \/ Delete(p)
  \/ WriteBack(p) \/ WriteFails(p) \/ LostExec(p) \/ LostRun(p) \/ LostConsole(p)
  \/ SyncLists(p) \/ SyncPrunes(p)

Next ==
  \/ Import
  \/ \E p \in Procs : Begin(p) \/ Command(p) \/ Crash(p)
  \/ \E e \in Endpoints : DaemonChecks(e) \/ DaemonPings(e) \/ DaemonRefused(e)
                            \/ DaemonMisses(e) \/ DaemonEnds(e) \/ Reclaim(e)
  \/ WorkerChecks \/ WorkerReads \/ WorkerConnects \/ WorkerWrites

\* A daemon, a process of its own, goes on with its loop, and the pings for a
\* VM that is gone do not all end without an answer: one that reaches the
\* backend is refused.
Fairness ==
  \A e \in Endpoints : WF_vars(DaemonChecks(e)) /\ SF_vars(e \notin vms /\ DaemonRefused(e))

Spec == Init /\ [][Next]_vars /\ Fairness

-----------------------------------------------------------------------------
Row == [ep : 0..MaxVMs, pid : 0..MaxVMs, kernel : 0..MaxVMs]

TypeOK ==
  /\ vms \subseteq Endpoints /\ last \in 0..MaxVMs
  /\ json \in Row /\ db \in Row /\ imported \in BOOLEAN
  /\ daemon \in [Endpoints -> [at : {"none", "check", "ping", "exited", "ended"},
                               store : {"none", "db", "json"}, errs : 0..1]]
  /\ loc \in [Procs -> [cmd : Durable \cup Retained \cup {"none"}, row : Row, ep : 0..MaxVMs]]
  /\ lease \in Procs \cup {"free"}
  /\ worker \in [at : {"idle", "checked", "read", "connected"}, ep : 0..MaxVMs]
  /\ excused \subseteq 0..MaxVMs /\ dirty \in BOOLEAN

\* No VM is forgotten: while commands do not overlap, every assigned VM is in
\* a row or in the hands of a command, but for those that one of the errors
\* the code does not handle (or a kill) took from them, each excused where it
\* happens and for its own VM alone.
NoLeak ==
  ~dirty => \A e \in vms \ excused :
              json.ep = e \/ db.ep = e \/ \E p \in Procs : loc[p].ep = e

\* The registry's invariant: well formed, and no VM is forgotten (NoLeak).
RegistryInv == TypeOK /\ NoLeak

\* A finished allocation is kept alive: a row at rest whose VM lives has its
\* daemon, unless that ended by itself (after a day, on two refusals, on an
\* error, or killed from outside).  It did not miss the row when it
\* started, and no command killed it.
RowKept ==
  ~dirty /\ (\A p \in Procs : pc[p] = "idle") =>
    \A e \in vms \ excused : db.ep = e \/ json.ep = e =>
      Running(e) \/ daemon[e].at = "ended"

\* The kernel recorded with a durable session is one of its own VM, although
\* the worker writes it by name after a long connect.
KernelMatches == ~dirty => db.kernel \in {0, db.ep}

\* A read timeout wipes out the one refusal counted for a VM that is gone.
Forgets(e) == DaemonPings(e) /\ e \notin vms /\ daemon[e].errs = 1

\* A keep-alive daemon does not outlive its VM for ever, unless read timeouts
\* keep coming between its refusals.
DaemonStops ==
  \A e \in Endpoints :
    []<><<Forgets(e)>>_vars \/ ((Running(e) /\ e \notin vms) ~> ~Running(e))
==============================================================================
