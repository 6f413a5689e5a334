-------------------------- MODULE StartupElection --------------------------
(***************************************************************************)
(* How clients find or start the one controller: ensure_running of the     *)
(* client library against start, run and close of the controller process.  *)
(* They share two file locks and two paths of the runtime directory:       *)
(*   election   startup.lock, held by a client that looks for a controller *)
(*   lifetime   the lock a controller holds from start to exit; a client   *)
(*              takes and releases it to see whether it is free            *)
(*   sock       the process whose socket the path names, alive or not      *)
(*   pidfile    the process whose pid file exists                          *)
(* The operating system releases the locks of a process that dies.         *)
(***************************************************************************)
EXTENDS Naturals

CONSTANTS
  Clients, Servers,   \* client calls and controller processes
  None,
  Faults, MaxFaults   \* the faults that may happen, and how often each of them

ASSUME ElectionAssumption ==
  /\ Clients \cap Servers = {} /\ None \notin Clients \cup Servers
  /\ MaxFaults \in Nat

VARIABLES election, lifetime, sock, pidfile, cpc, spc, faults

vars == <<election, lifetime, sock, pidfile, cpc, spc, faults>>

ClientPlaces == {"idle", "status", "elect", "recheck", "check", "probing",
                 "unlink", "unlinkpid", "spawn", "wait", "ready", "failed"}
\* A controller owns the lifetime lock from "locked" to "closed".
Owning == {"locked", "bound", "serving", "closing", "unlinked", "closed"}
ServerPlaces == {"none", "spawned", "gone"} \cup Owning

TypeOK ==
  /\ election \in Clients \cup {None}
  /\ lifetime \in Clients \cup Servers \cup {None}
  /\ sock \in Servers \cup {None}
  /\ pidfile \in Servers \cup {None}
  /\ cpc \in [Clients -> ClientPlaces]
  /\ spc \in [Servers -> ServerPlaces]
  /\ faults \in [Faults -> 0..MaxFaults]

Init ==
  /\ election = None /\ lifetime = None /\ sock = None /\ pidfile = None
  /\ cpc = [c \in Clients |-> "idle"]
  /\ spc = [s \in Servers |-> "none"]
  /\ faults = [k \in Faults |-> 0]

Fault(kind) ==
  /\ kind \in Faults /\ faults[kind] < MaxFaults
  /\ faults' = [faults EXCEPT ![kind] = @ + 1]

GoC(c, place) == cpc' = [cpc EXCEPT ![c] = place]
GoS(s, place) == spc' = [spc EXCEPT ![s] = place]

\* A request is answered by the process behind the socket path, if it serves.
Answering == sock # None /\ spc[sock] = "serving"

-----------------------------------------------------------------------------
(***************************************************************************)
(* The client.                                                             *)
(***************************************************************************)
Call(c) ==
  /\ cpc[c] \in {"idle", "failed", "ready"}
  /\ GoC(c, "status")
  /\ UNCHANGED <<election, lifetime, sock, pidfile, spc, faults>>

\* status outside the election, and again once elected: a controller that
\* does not answer in time ("slow") counts as not running.
Status(c) ==
  /\ cpc[c] \in {"status", "recheck"}
  /\ \/ /\ Answering
        /\ GoC(c, "ready") /\ faults' = faults
        /\ election' = IF cpc[c] = "recheck" THEN None ELSE election
     \/ /\ \/ ~Answering /\ faults' = faults
           \/ Answering /\ Fault("slow")
        /\ GoC(c, IF cpc[c] = "status" THEN "elect" ELSE "check")
        /\ UNCHANGED election
  /\ UNCHANGED <<lifetime, sock, pidfile, spc>>

Elect(c) ==
  /\ cpc[c] = "elect"
  /\ \/ election = None /\ election' = c /\ GoC(c, "recheck") /\ faults' = faults
     \/ /\ election # None /\ Fault("timeout")
        /\ GoC(c, "failed") /\ UNCHANGED election
  /\ UNCHANGED <<lifetime, sock, pidfile, spc>>

\* Mutant: an owner is taken for a free lock.
CheckIgnoresOwner(c) ==
  /\ cpc[c] = "check"
  /\ IF lifetime = None THEN lifetime' = c /\ GoC(c, "probing")
                        ELSE lifetime' = lifetime /\ GoC(c, "unlink")
  /\ UNCHANGED <<election, sock, pidfile, spc, faults>>

\* _lifetime_lock_held: try the lock, and release it at once.
CheckLifetime(c) ==
  /\ cpc[c] = "check"
  /\ IF lifetime = None THEN lifetime' = c /\ GoC(c, "probing")
                        ELSE lifetime' = lifetime /\ GoC(c, "wait")
  /\ UNCHANGED <<election, sock, pidfile, spc, faults>>

ReleaseProbe(c) ==
  /\ cpc[c] = "probing"
  /\ lifetime' = None
  /\ GoC(c, "unlink")
  /\ UNCHANGED <<election, sock, pidfile, spc, faults>>

\* Mutant: a dead controller's socket is left in place.
UnlinkForgotten(c) ==
  /\ cpc[c] = "unlink"
  /\ GoC(c, "unlinkpid")
  /\ UNCHANGED <<election, lifetime, sock, pidfile, spc, faults>>

UnlinkSocket(c) ==
  /\ cpc[c] = "unlink"
  /\ sock' = None
  /\ GoC(c, "unlinkpid")
  /\ UNCHANGED <<election, lifetime, pidfile, spc, faults>>

UnlinkPid(c) ==
  /\ cpc[c] = "unlinkpid"
  /\ pidfile' = None
  /\ GoC(c, "spawn")
  /\ UNCHANGED <<election, lifetime, sock, spc, faults>>

Spawn(c) ==
  /\ cpc[c] = "spawn"
  /\ \E s \in Servers : spc[s] = "none" /\ GoS(s, "spawned")
  /\ GoC(c, "wait")
  /\ UNCHANGED <<election, lifetime, sock, pidfile, faults>>

\* Some controller is on its way up or down.
Moving == \E s \in Servers : spc[s] \in {"spawned"} \cup (Owning \ {"serving"})

\* _wait_for_start: poll until an answer or the deadline.  A deadline that
\* passes while a controller is still starting or closing is a fault.
WaitForStart(c) ==
  /\ cpc[c] = "wait"
  /\ \/ Answering /\ GoC(c, "ready") /\ faults' = faults
     \/ /\ ~Answering /\ GoC(c, "failed")
        /\ IF Moving THEN Fault("timeout") ELSE faults' = faults
  /\ election' = None
  /\ UNCHANGED <<lifetime, sock, pidfile, spc>>

\* The client process is killed; its locks go with it.
ClientDies(c) ==
  /\ cpc[c] \notin {"idle", "ready", "failed"} /\ Fault("kill")
  /\ GoC(c, "idle")
  /\ election' = IF election = c THEN None ELSE election
  /\ lifetime' = IF lifetime = c THEN None ELSE lifetime
  /\ UNCHANGED <<sock, pidfile, spc>>

ClientGoes(c) ==
  \/ Call(c) \/ Status(c) \/ Elect(c) \/ CheckLifetime(c) \/ ReleaseProbe(c)
  \/ UnlinkSocket(c) \/ UnlinkPid(c) \/ Spawn(c) \/ WaitForStart(c)

Client(c) == ClientGoes(c) \/ ClientDies(c)

-----------------------------------------------------------------------------
(***************************************************************************)
(* The controller process.                                                 *)
(***************************************************************************)

\* Mutant: the lock is not checked.
StartWithoutLock(s) ==
  /\ spc[s] = "spawned"
  /\ GoS(s, "locked") /\ lifetime' = s
  /\ UNCHANGED <<election, sock, pidfile, cpc, faults>>

AcquireLifetime(s) ==
  /\ spc[s] = "spawned"
  /\ IF lifetime = None THEN GoS(s, "locked") /\ lifetime' = s
                        ELSE GoS(s, "gone") /\ lifetime' = lifetime
  /\ UNCHANGED <<election, sock, pidfile, cpc, faults>>

\* A socket path that exists stops the start; otherwise it is bound.
Bind(s) ==
  /\ spc[s] = "locked"
  /\ IF sock # None
     THEN GoS(s, "gone") /\ lifetime' = None /\ UNCHANGED sock
     ELSE GoS(s, "bound") /\ sock' = s /\ UNCHANGED lifetime
  /\ UNCHANGED <<election, pidfile, cpc, faults>>

\* The pid file, and the reconciliation before the first request.
Reconcile(s) ==
  /\ spc[s] = "bound"
  /\ pidfile' = s
  /\ GoS(s, "serving")
  /\ UNCHANGED <<election, lifetime, sock, cpc, faults>>

StopServing(s) ==
  /\ spc[s] = "serving" /\ Fault("stop")
  /\ GoS(s, "closing")
  /\ UNCHANGED <<election, lifetime, sock, pidfile, cpc>>

CloseSocket(s) ==
  /\ spc[s] = "closing"
  /\ sock' = None
  /\ GoS(s, "unlinked")
  /\ UNCHANGED <<election, lifetime, pidfile, cpc, faults>>

ClosePid(s) ==
  /\ spc[s] = "unlinked"
  /\ pidfile' = None
  /\ GoS(s, "closed")
  /\ UNCHANGED <<election, lifetime, sock, cpc, faults>>

ReleaseLifetime(s) ==
  /\ spc[s] = "closed"
  /\ lifetime' = None
  /\ GoS(s, "gone")
  /\ UNCHANGED <<election, sock, pidfile, cpc, faults>>

ServerDies(s) ==
  /\ spc[s] \in {"spawned"} \cup Owning /\ Fault("crash")
  /\ GoS(s, "gone")
  /\ lifetime' = IF lifetime = s THEN None ELSE lifetime
  /\ UNCHANGED <<election, sock, pidfile, cpc>>

ServerGoes(s) ==
  \/ AcquireLifetime(s) \/ Bind(s) \/ Reconcile(s)
  \/ CloseSocket(s) \/ ClosePid(s) \/ ReleaseLifetime(s)

Server(s) == ServerGoes(s) \/ StopServing(s) \/ ServerDies(s)

Next == (\E c \in Clients : Client(c)) \/ (\E s \in Servers : Server(s))

Spec == Init /\ [][Next]_vars

(***************************************************************************)
(* Processes that were started run, a client that called goes on, and one  *)
(* that was told to retry calls again.  No process has to die, a serving   *)
(* controller may serve for ever, and each fault happens at most MaxFaults *)
(* times.                                                                  *)
(***************************************************************************)
Fairness ==
  /\ \A c \in Clients : WF_vars(ClientGoes(c) /\ cpc[c] \notin {"idle", "ready"})
  /\ \A s \in Servers : WF_vars(ServerGoes(s))

FairSpec == Spec /\ Fairness

-----------------------------------------------------------------------------
\* Whatever clients race, time out, die or take a dead controller's place,
\* one process at most is between taking and releasing the lifetime lock, so
\* that no two of them reconcile the store or serve at the same time.
OneController ==
  \A s \in Servers : spc[s] \in Owning <=> lifetime = s

\* One client at a time looks for a controller, and only that one holds the
\* lifetime lock to probe it.
OneElected ==
  \A c \in Clients :
    /\ cpc[c] \in {"recheck", "check", "probing", "unlink", "unlinkpid",
                   "spawn", "wait"} <=> election = c
    /\ cpc[c] = "probing" <=> lifetime = c

ElectionInv == TypeOK /\ OneController /\ OneElected

\* No client gave up on a controller that was still starting, and none died.
Prompt == \A k \in Faults \cap {"timeout", "kill"} : faults[k] = 0

\* A serving controller can be reached: the socket path names it and the pid
\* file is its own, as long as the client that spawned a controller stays
\* until it serves.
Reachable ==
  Prompt => \A s \in Servers : spc[s] = "serving" => sock = s /\ pidfile = s

\* ensure_running: stale endpoints are unlinked only after proving that no
\* lifetime owner exists.  No client removes the socket of a living process,
\* unless an earlier client left a controller behind before it had the lock.
UnlinkOnlyStale ==
  [][\A c \in Clients :
       Prompt /\ cpc[c] = "unlink" /\ cpc'[c] = "unlinkpid"
         => sock = None \/ spc[sock] = "gone"]_vars

\* A client that asks for a controller, and asks again when it is told that
\* the start timed out (a retryable error), gets one: neither a dead
\* controller's socket nor a controller that is closing keeps it out.  A
\* controller whose socket was unlinked under it would.
GetsController ==
  \A c \in Clients : cpc[c] = "status" ~> cpc[c] = "ready" \/ ~Prompt
=============================================================================
