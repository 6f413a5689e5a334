----------------------- MODULE StartupElectionProofs -----------------------
(***************************************************************************)
(* At most one controller, for any number of clients and processes and any *)
(* number of faults.  ElectionInv is inductive as it stands: each lock's   *)
(* owner is exactly the process whose program counter says so.  Under it,  *)
(* StartInv shows that a living controller keeps its socket and pid file.  *)
(***************************************************************************)
EXTENDS StartupElection, TLAPS

\* Nobody holds a lock when nothing has been started.
LEMMA InitElection == Init => ElectionInv
  BY ElectionAssumption DEF Init, ElectionInv, TypeOK, OneController, OneElected,
     ClientPlaces, ServerPlaces, Owning

\* A step of ensure_running, or the death of its process, keeps each lock
\* with the process whose place says that it holds it.
LEMMA ClientStep ==
  ASSUME ElectionInv, NEW c \in Clients, Client(c)
  PROVE  ElectionInv'
<1> USE ElectionAssumption DEF ElectionInv, TypeOK, OneController, OneElected,
      ClientPlaces, ServerPlaces, Owning, GoC, GoS, Fault
<1>1. CASE Call(c)
  BY <1>1 DEF Call
<1>2. CASE Status(c)
  BY <1>2 DEF Status
<1>3. CASE Elect(c)
  BY <1>3 DEF Elect
<1>4. CASE CheckLifetime(c)
  BY <1>4 DEF CheckLifetime
<1>5. CASE ReleaseProbe(c)
  BY <1>5 DEF ReleaseProbe
<1>6. CASE UnlinkSocket(c) \/ UnlinkPid(c)
  BY <1>6 DEF UnlinkSocket, UnlinkPid
<1>7. CASE Spawn(c)
  BY <1>7 DEF Spawn
<1>8. CASE WaitForStart(c)
  BY <1>8 DEF WaitForStart
<1>9. CASE ClientDies(c)
  BY <1>9 DEF ClientDies
<1> QED
  BY <1>1, <1>2, <1>3, <1>4, <1>5, <1>6, <1>7, <1>8, <1>9 DEF Client, ClientGoes

\* A step of the controller process, or its death, keeps the lifetime lock
\* with the one process between start and exit.
LEMMA ServerStep ==
  ASSUME ElectionInv, NEW s \in Servers, Server(s)
  PROVE  ElectionInv'
<1> USE ElectionAssumption DEF ElectionInv, TypeOK, OneController, OneElected,
      ClientPlaces, ServerPlaces, Owning, GoC, GoS, Fault
<1>1. CASE AcquireLifetime(s)
  BY <1>1 DEF AcquireLifetime
<1>2. CASE Bind(s)
  BY <1>2 DEF Bind
<1>3. CASE Reconcile(s)
  BY <1>3 DEF Reconcile
<1>4. CASE StopServing(s)
  BY <1>4 DEF StopServing
<1>5. CASE CloseSocket(s) \/ ClosePid(s)
  BY <1>5 DEF CloseSocket, ClosePid
<1>6. CASE ReleaseLifetime(s)
  BY <1>6 DEF ReleaseLifetime
<1>7. CASE ServerDies(s)
  BY <1>7 DEF ServerDies
<1> QED
  BY <1>1, <1>2, <1>3, <1>4, <1>5, <1>6, <1>7 DEF Server, ServerGoes

\* ensure_running, start and close: whatever clients race, time out or die,
\* at most one controller process reconciles and serves, and at most one
\* client probes and starts.
THEOREM OneControllerAtATime == Spec => []ElectionInv
<1>1. ElectionInv /\ [Next]_vars => ElectionInv'
  <2> SUFFICES ASSUME ElectionInv, [Next]_vars PROVE ElectionInv'
    OBVIOUS
  <2>1. CASE \E c \in Clients : Client(c)
    BY <2>1, ClientStep
  <2>2. CASE \E s \in Servers : Server(s)
    BY <2>2, ServerStep
  <2>3. CASE UNCHANGED vars
    BY <2>3 DEF ElectionInv, TypeOK, OneController, OneElected, vars
  <2> QED
    BY <2>1, <2>2, <2>3 DEF Next
<1> QED
  BY InitElection, <1>1, PTL DEF Spec

-----------------------------------------------------------------------------
(***************************************************************************)
(* The second result: as long as no client leaves a start unattended, a    *)
(* living controller keeps its socket.  The argument follows the election: *)
(* a controller is started only by the elected client, after it has seen   *)
(* the lifetime lock free, and that client stays until the controller      *)
(* serves, so nobody else probes, unlinks or starts in between.            *)
(***************************************************************************)
Living == {"spawned"} \cup Owning

\* A controller on its way up has the client that waits for it.
Attended ==
  (\E s \in Servers : spc[s] \in {"spawned", "locked", "bound"}) =>
    \E c \in Clients : cpc[c] = "wait"

\* One controller process lives at a time.
OneLiving == \A s, t \in Servers : spc[s] \in Living /\ spc[t] \in Living => s = t

\* From the probe of the free lock to the start, no controller lives.
Vacant ==
  \A c \in Clients : cpc[c] \in {"probing", "unlink", "unlinkpid", "spawn"} =>
    \A s \in Servers : spc[s] \notin Living

\* The paths name the controller that made them until it removes them.
Endpoints ==
  \A s \in Servers :
    /\ spc[s] \in {"bound", "serving", "closing"} => sock = s
    /\ spc[s] = "serving" => pidfile = s

\* A socket path was made by a process that was started.
SockMade == sock # None => spc[sock] # "none"

StartInv == SockMade /\ (Prompt => Attended /\ OneLiving /\ Vacant /\ Endpoints)

\* Faults are counted and never forgotten.
LEMMA PromptBefore ==
  ASSUME ElectionInv, Next, Prompt'
  PROVE  Prompt
<1>1. ASSUME NEW k \in Faults
      PROVE faults[k] \in Nat /\ (faults'[k] = faults[k] \/ faults'[k] = faults[k] + 1)
  <2>1. faults[k] \in Nat BY ElectionAssumption DEF ElectionInv, TypeOK
  <2>2. faults' = faults \/ \E kind \in Faults : faults' = [faults EXCEPT ![kind] = @ + 1]
    BY DEF Next, Client, ClientGoes, Call, Status, Elect, CheckLifetime, ReleaseProbe,
       UnlinkSocket, UnlinkPid, Spawn, WaitForStart, ClientDies, Server, ServerGoes,
       AcquireLifetime, Bind, Reconcile, StopServing, CloseSocket, ClosePid,
       ReleaseLifetime, ServerDies, Fault
  <2> QED BY <2>1, <2>2 DEF ElectionInv, TypeOK
<1> QED BY <1>1 DEF Prompt

\* A fault that ends promptness shows.
LEMMA FaultShows ==
  ASSUME ElectionInv, NEW k \in {"timeout", "kill"}, Fault(k)
  PROVE  ~Prompt'
<1>1. k \in Faults /\ faults[k] \in Nat /\ faults'[k] = faults[k] + 1
  BY ElectionAssumption DEF ElectionInv, TypeOK, Fault
<1> QED BY <1>1 DEF Prompt

\* A step of ensure_running keeps the started controller attended.
LEMMA ClientKeeps ==
  ASSUME ElectionInv, StartInv, NEW c \in Clients, Client(c), Prompt, Prompt'
  PROVE  StartInv'
<1> USE ElectionAssumption DEF StartInv, ElectionInv, TypeOK, OneController, OneElected,
      ClientPlaces, ServerPlaces, Owning, Living, Attended, OneLiving, Vacant, Endpoints,
      SockMade, GoC, GoS
<1>1. CASE Call(c) BY <1>1 DEF Call
<1>2. CASE Status(c) BY <1>2 DEF Status
<1>3. CASE Elect(c)
  <2>1. ~ Fault("timeout") BY FaultShows
  <2> QED BY <1>3, <2>1 DEF Elect
<1>4. CASE CheckLifetime(c) BY <1>4 DEF CheckLifetime
<1>5. CASE ReleaseProbe(c) BY <1>5 DEF ReleaseProbe
<1>6. CASE UnlinkSocket(c) BY <1>6 DEF UnlinkSocket
<1>7. CASE UnlinkPid(c) BY <1>7 DEF UnlinkPid
<1>8. CASE Spawn(c) BY <1>8 DEF Spawn
<1>9. CASE WaitForStart(c)
  <2>1. ~ Fault("timeout") BY FaultShows
  <2>2. CASE Answering BY <1>9, <2>2 DEF WaitForStart, Answering
  <2>3. CASE ~Answering BY <1>9, <2>1, <2>3 DEF WaitForStart, Moving
  <2> QED BY <2>2, <2>3
<1>10. CASE ClientDies(c)
  <2>1. ~ Fault("kill") BY FaultShows
  <2> QED BY <1>10, <2>1 DEF ClientDies
<1> QED
  BY <1>1, <1>2, <1>3, <1>4, <1>5, <1>6, <1>7, <1>8, <1>9, <1>10 DEF Client, ClientGoes

\* A step of the controller process keeps its paths its own.
LEMMA ServerKeeps ==
  ASSUME ElectionInv, StartInv, NEW s \in Servers, Server(s), Prompt, Prompt'
  PROVE  StartInv'
<1> USE ElectionAssumption DEF StartInv, ElectionInv, TypeOK, OneController, OneElected,
      ClientPlaces, ServerPlaces, Owning, Living, Attended, OneLiving, Vacant, Endpoints,
      SockMade, GoC, GoS
<1>1. CASE AcquireLifetime(s) BY <1>1 DEF AcquireLifetime
<1>2. CASE Bind(s) BY <1>2 DEF Bind
<1>3. CASE Reconcile(s) BY <1>3 DEF Reconcile
<1>4. CASE StopServing(s) BY <1>4 DEF StopServing
<1>5. CASE CloseSocket(s) BY <1>5 DEF CloseSocket
<1>6. CASE ClosePid(s) BY <1>6 DEF ClosePid
<1>7. CASE ReleaseLifetime(s) BY <1>7 DEF ReleaseLifetime
<1>8. CASE ServerDies(s) BY <1>8 DEF ServerDies
<1> QED
  BY <1>1, <1>2, <1>3, <1>4, <1>5, <1>6, <1>7, <1>8 DEF Server, ServerGoes

\* A socket path never names a process that was not started, prompt or not.
LEMMA SockKept ==
  ASSUME ElectionInv, SockMade, Next
  PROVE  SockMade'
<1> USE ElectionAssumption DEF ElectionInv, TypeOK, SockMade, GoS, GoC, ServerPlaces, Owning
<1>1. ASSUME NEW c \in Clients, Client(c) PROVE SockMade'
  BY <1>1 DEF Client, ClientGoes, Call, Status, Elect, CheckLifetime, ReleaseProbe,
     UnlinkSocket, UnlinkPid, Spawn, WaitForStart, ClientDies
<1>2. ASSUME NEW s \in Servers, Server(s) PROVE SockMade'
  BY <1>2 DEF Server, ServerGoes, AcquireLifetime, Bind, Reconcile, StopServing,
     CloseSocket, ClosePid, ReleaseLifetime, ServerDies
<1> QED BY <1>1, <1>2 DEF Next

\* Every step, prompt or not, keeps it.
LEMMA StartKept ==
  ASSUME ElectionInv, StartInv, [Next]_vars
  PROVE  StartInv'
<1>1. CASE UNCHANGED vars
  BY <1>1 DEF vars, StartInv, SockMade, Prompt, Attended, OneLiving, Vacant, Endpoints
<1>2. CASE Next /\ Prompt'
  BY <1>2, PromptBefore, ClientKeeps, ServerKeeps DEF Next
<1>3. CASE Next /\ ~Prompt'
  BY <1>3, SockKept DEF StartInv
<1> QED BY <1>1, <1>2, <1>3

\* The invariant of attended starts holds from the beginning.
LEMMA StartAttended == Spec => [](ElectionInv /\ StartInv)
<1>1. Init => StartInv
  BY ElectionAssumption DEF Init, StartInv, SockMade, Attended, OneLiving, Vacant, Endpoints,
     Living, Owning
<1>2. ElectionInv /\ StartInv /\ [Next]_vars => StartInv'
  BY StartKept
<1> QED BY <1>1, <1>2, OneControllerAtATime, PTL DEF Spec

\* start, ensure_running: a serving controller can be reached at the socket
\* path, and the pid file is its own, as long as no client gave up on a start
\* or died, for any number of clients and controllers.
THEOREM ServingReachable == Spec => []Reachable
<1>1. StartInv => Reachable
  BY DEF StartInv, Endpoints, Reachable
<1> QED BY <1>1, StartAttended, PTL

\* ensure_running: under the same condition an elected client unlinks only the
\* socket of a process that is gone.
THEOREM OnlyStaleUnlinked == Spec => UnlinkOnlyStale
<1>1. ElectionInv /\ StartInv /\ [Next]_vars =>
        \A c \in Clients : Prompt /\ cpc[c] = "unlink" /\ cpc'[c] = "unlinkpid"
          => sock = None \/ spc[sock] = "gone"
  BY DEF ElectionInv, TypeOK, StartInv, SockMade, Vacant, Living, ServerPlaces
<1> QED BY <1>1, StartAttended, PTL DEF Spec, UnlinkOnlyStale
=============================================================================
