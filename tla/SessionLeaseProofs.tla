-------------------------- MODULE SessionLeaseProofs --------------------------
(***************************************************************************)
(* The exclusive lease and the readiness probe, for any number of commands *)
(* and probe requests and any number of faults.  LeaseInductive says whom  *)
(* each token belongs to, where the close request of a lease is on its way *)
(* through the worker, and which request the answers of a probe belong to. *)
(***************************************************************************)
EXTENDS SessionLease, FiniteSetTheorems, SequenceTheorems, TLAPS

Items == [kind : Kinds, id : Nat]
CloseOf(c) == [kind |-> "close", id |-> loc[c].req]
Granted == {"closing", "held", "gone"}

\* Restarts are paid for by crashes, and a dead controller owes one.
Counted ==
  /\ ids \in 0..MaxIds /\ faults \in 0..MaxFaults
  /\ IF alive THEN epoch \leq faults ELSE epoch < faults

\* Requests in the worker carry ids that were handed out, and the worker has
\* an item exactly when it is not idle.
Numbered(i, n) == i.kind \in {"probe", "close"} => i.id \in 1..n
Working ==
  /\ Numbered(item, ids) /\ (at = "idle" <=> item = NoItem)
  /\ (at # "idle" => item.kind # "none")
  /\ \A i \in 1..Len(queue) : Numbered(queue[i], ids) /\ queue[i].kind # "none"
  /\ done \subseteq 1..ids

\* A dead controller has no worker, no start and no request under way.
Stopped ==
  ~alive => /\ ~hasWorker /\ start = NoStart
            /\ \A t \in Threads : pc[t] \in {"idle", "held", "gone"}

\* A command's token is its own, from a controller that ran already.
Tokens ==
  \A c \in Clients :
    /\ loc[c].req = loc[c].lease /\ loc[c].lease \in 0..ids /\ loc[c].epoch \leq epoch
    /\ pc[c] \in Granted => loc[c].lease # 0
    /\ pc[c] = "closing" => alive /\ loc[c].epoch = epoch
    /\ \A d \in Clients : loc[c].lease # 0 /\ loc[c].lease = loc[d].lease => c = d

\* From the moment it is set until it is released, the lease is the command's.
Owned(c) == pc[c] \in Granted /\ loc[c].epoch = epoch /\ alive
OwnedKept == \A c \in Clients : Owned(c) => lease = loc[c].lease

\* The worker has nothing to do and no connection.
Quiet == queue = <<>> /\ item = NoItem /\ at = "idle" /\ link = 0

\* The close request of c: completed, in hand, or last in the queue.
Closed(c) == loc[c].req \in done /\ Quiet
InHand(c) == loc[c].req \notin done /\ item = CloseOf(c) /\ at = "begin" /\ queue = <<>>
Last(c) ==
  /\ loc[c].req \notin done /\ item # CloseOf(c) /\ queue # <<>>
  /\ \A i \in 1..Len(queue) : queue[i] = CloseOf(c) <=> i = Len(queue)

\* Behind a clean request nothing enters the queue.
Alone ==
  \A c \in Clients : Owned(c) /\ loc[c].clean =>
    /\ pc[c] \in {"closing", "held"} => ~InFlight
    /\ pc[c] = "held" => Quiet
    /\ pc[c] = "closing" => Closed(c) \/ InHand(c) \/ Last(c)

\* What a probe has observed came in answer to it, on this connection.
Probing ==
  /\ msgs \subseteq [p : Nat, part : {"reply", "wrong", "idle"}]
  /\ at = "run" => proof = {}
  /\ at = "observe" =>
       /\ item.kind = "probe" /\ item.id \in asked
       /\ \A part \in proof : [p |-> item.id, part |-> part] \in msgs

Basic == TypeOK /\ Counted /\ Working
LeaseInductive ==
  Basic /\ Stopped /\ Tokens /\ OwnedKept /\ Alone /\ Probing /\ ReadyIsCurrent

-----------------------------------------------------------------------------
(***************************************************************************)
(* Well-formed states.                                                     *)
(***************************************************************************)

\* Finishing an item completes at most the close request in hand.
LEMMA FinishDone ==
  ASSUME Finish
  PROVE  /\ done \subseteq done'
         /\ \A x \in done' : x \in done \/ (item.kind = "close" /\ x = item.id)
  BY DEF Finish

\* The enumerations of rows are sequences, and no row gives the empty one.
LEMMA RowsSeq ==
  ASSUME NEW state, NEW q \in RowsIn(state), NExec \in Nat
  PROVE  q \in Seq(Execs) /\ ((\A e \in Execs : rows[e] # state) => q = <<>>)
<1> DEFINE S == {e \in Execs : rows[e] = state}
<1>1. IsFiniteSet(S)
  BY FS_Interval, FS_Subset, 1 \in Int, NExec \in Int, S \subseteq 1..NExec DEF Execs
<1>2. Cardinality(S) \in Nat
  BY <1>1, FS_CardinalityType
<1>3. q \in [1..Cardinality(S) -> S]
  BY DEF RowsIn
<1>4. q \in Seq(S) /\ Len(q) = Cardinality(S)
  <2> HIDE DEF S
  <2>1. q = [i \in 1..Cardinality(S) |-> q[i]] /\ \A i \in 1..Cardinality(S) : q[i] \in S
    BY <1>3
  <2>2. [i \in 1..Cardinality(S) |-> q[i]] \in Seq(S)
    BY <1>2, <2>1
  <2> QED BY <1>2, <2>1, <2>2
<1>5. (\A e \in Execs : rows[e] # state) => Cardinality(S) = 0
  BY FS_EmptySet
<1> HIDE DEF S
<1>6. S \subseteq Execs
  BY DEF S
<1> QED
  BY <1>4, <1>5, <1>6

\* The queue of a restarted controller: recoveries and executions only.
LEMMA RestartQueue ==
  ASSUME LeaseAssumption, Restart
  PROVE  /\ queue' \in Seq(Items)
         /\ \A i \in 1..Len(queue') : queue'[i].kind \in {"recover", "execute"}
         /\ ActiveWork \/ queue' = <<>>
<1>1. PICK r \in RowsIn("running"), q \in RowsIn("queued") :
        queue' = ItemsOf("recover", r) \o ItemsOf("execute", q)
  BY DEF Restart
<1>2. /\ r \in Seq(Execs) /\ q \in Seq(Execs)
      /\ ActiveWork \/ (r = <<>> /\ q = <<>>)
  BY RowsSeq DEF LeaseAssumption, ActiveWork
<1> DEFINE a == ItemsOf("recover", r)  b == ItemsOf("execute", q)
<1>3. /\ a \in Seq(Items) /\ Len(a) = Len(r)
      /\ \A i \in 1..Len(a) : a[i].kind = "recover"
  <2>1. Len(r) \in Nat /\ \A i \in 1..Len(r) : r[i] \in Nat
    BY <1>2 DEF Execs
  <2> QED BY <2>1 DEF ItemsOf, Items, Kinds
<1>4. /\ b \in Seq(Items) /\ Len(b) = Len(q)
      /\ \A i \in 1..Len(b) : b[i].kind = "execute"
  <2>1. Len(q) \in Nat /\ \A i \in 1..Len(q) : q[i] \in Nat
    BY <1>2 DEF Execs
  <2> QED BY <2>1 DEF ItemsOf, Items, Kinds
<1>5. queue' = a \o b
  BY <1>1
<1> HIDE DEF a, b
<1>6. queue' \in Seq(Items) /\ Len(queue') = Len(a) + Len(b)
  BY <1>3, <1>4, <1>5, ConcatProperties
<1>7. ASSUME NEW i \in 1..Len(queue')
      PROVE  queue'[i].kind \in {"recover", "execute"}
  <2>1. CASE i \in 1..Len(a)
    BY <2>1, <1>3, <1>4, <1>5
  <2>2. CASE i > Len(a)
    <3>1. i - Len(a) \in 1..Len(b)
      BY <2>2, <1>6, <1>3, <1>4
    <3>2. queue'[i] = b[i - Len(a)]
      BY <2>2, <1>3, <1>4, <1>5, <1>6
    <3> QED BY <3>1, <3>2, <1>4
  <2> QED BY <2>1, <2>2, <1>3, <1>6
<1>8. ActiveWork \/ queue' = <<>>
  BY <1>2, <1>3, <1>4, <1>6
<1> QED BY <1>6, <1>7, <1>8

\* A request put at the end of the queue.
LEMMA PutQueue ==
  ASSUME queue \in Seq(Items), NEW k \in Kinds, NEW n \in Nat, Put(k, n)
  PROVE  /\ queue' \in Seq(Items) /\ Len(queue') = Len(queue) + 1
         /\ queue'[Len(queue) + 1] = [kind |-> k, id |-> n]
         /\ \A i \in 1..Len(queue) : queue'[i] = queue[i]
  BY DEF Put, Items

\* The item taken is the first, and the others move up.
LEMMA TakeQueue ==
  ASSUME queue \in Seq(Items), Take
  PROVE  /\ item' = queue[1] /\ Len(queue) \in Nat \ {0} /\ item' \in Items
         /\ queue' \in Seq(Items) /\ Len(queue') = Len(queue) - 1
         /\ \A i \in 1..Len(queue') : queue'[i] = queue[i + 1]
  BY DEF Take

\* An item of the worker keeps its number while ids grow.
LEMMA NumberedGrows ==
  ASSUME NEW n \in Nat, NEW m \in {n, n + 1}, NEW i, Numbered(i, n)
  PROVE  Numbered(i, m)
  BY DEF Numbered

\* A request thread's move keeps its place and its knowledge well formed.
LEMMA MoveTyped ==
  ASSUME LeaseAssumption, TypeOK, NEW t \in Threads, NEW place \in Places,
         Go(t, place) \/ Answer(t)
  PROVE  /\ pc' \in [Threads -> Places]
         /\ loc' \in [Threads -> [lease : 0..MaxIds, req : 0..MaxIds,
                                  epoch : 0..MaxFaults, clean : BOOLEAN]]
<1>1. NoLoc \in [lease : 0..MaxIds, req : 0..MaxIds, epoch : 0..MaxFaults, clean : BOOLEAN]
  BY DEF NoLoc, LeaseAssumption
<1>2. "idle" \in Places
  BY DEF Places
<1> DEFINE Locs == [lease : 0..MaxIds, req : 0..MaxIds, epoch : 0..MaxFaults, clean : BOOLEAN]
<1>3. pc \in [Threads -> Places] /\ loc \in [Threads -> Locs] /\ NoLoc \in Locs
  BY <1>1 DEF TypeOK
<1> HIDE DEF Locs
<1>4. pc' \in [Threads -> Places] /\ loc' \in [Threads -> Locs]
  BY <1>2, <1>3 DEF Go, Answer
<1> QED BY <1>4 DEF Locs

\* A request that leaves the worker alone.
LEMMA BasicMove ==
  ASSUME LeaseAssumption, Basic, NEW t \in Threads, NEW place \in Places,
         Go(t, place) \/ Answer(t),
         lease' \in {0, lease}, done' \subseteq done,
         UNCHANGED <<process, ids, rows, start, worker, kernel>>,
         faults' = faults \/ (faults < MaxFaults /\ faults' = faults + 1)
  PROVE  Basic'
<1>1. /\ pc' \in [Threads -> Places]
      /\ loc' \in [Threads -> [lease : 0..MaxIds, req : 0..MaxIds,
                               epoch : 0..MaxFaults, clean : BOOLEAN]]
  BY MoveTyped DEF Basic
<1>2. TypeOK'
  <2>1. lease' \in 0..MaxIds /\ done' \subseteq 1..MaxIds
    BY DEF Basic, LeaseAssumption, TypeOK
  <2>2. UNCHANGED <<alive, epoch, rows, start, hasWorker, at, item, queue, link, conn, asked>>
    BY DEF process, worker, kernel
  <2> QED BY <1>1, <2>1, <2>2, SMTT(20) DEF Basic, TypeOK
<1>3. Counted'
  BY SMTT(20) DEF Basic, LeaseAssumption, TypeOK, Counted, process
<1>4. Working'
  BY DEF Basic, Working, worker
<1> QED BY <1>2, <1>3, <1>4 DEF Basic

\* A request that enters the worker's queue, with a number of its own.
LEMMA QueueGrows ==
  ASSUME Basic, ids' = ids + 1, NEW k \in Kinds \ {"none"}, Put(k, ids + 1),
         UNCHANGED <<item, at, done>>
  PROVE  queue' \in Seq(Items) /\ Working'
<1>i. ids \in Nat /\ ids + 1 \in Nat /\ queue \in Seq(Items) /\ Len(queue) \in Nat
  BY DEF Basic, TypeOK, Counted, Items
<1>2. /\ queue' \in Seq(Items) /\ Len(queue') = Len(queue) + 1
      /\ queue'[Len(queue) + 1] = [kind |-> k, id |-> ids + 1]
      /\ \A i \in 1..Len(queue) : queue'[i] = queue[i]
  BY <1>i, PutQueue
<1>3. ASSUME NEW i \in 1..Len(queue')
      PROVE  Numbered(queue'[i], ids') /\ queue'[i].kind # "none"
  <2>1. CASE i \in 1..Len(queue)
    BY <2>1, <1>2, <1>i, NumberedGrows DEF Basic, Working
  <2>2. CASE i = Len(queue) + 1
    BY <2>2, <1>2, <1>i DEF Numbered
  <2> QED BY <2>1, <2>2, <1>2, <1>i
<1>4. Numbered(item', ids')
  BY <1>i, NumberedGrows DEF Basic, Working
<1>5. done' \subseteq 1..ids'
  BY <1>i DEF Basic, Working
<1> QED BY <1>2, <1>3, <1>4, <1>5 DEF Basic, Working

\* The requests of commands and probes keep the state well formed.
LEMMA BasicRequest ==
  ASSUME LeaseAssumption, Basic, NEW t \in Threads,
         \/ t \in Clients /\ (CheckWork(t) \/ SetLease(t) \/ AwaitClose(t) \/ Release(t) \/ ClientDies(t))
         \/ ProbeCheck(t) \/ ProbePut(t) \/ ProbeReturns(t)
  PROVE  Basic'
<1> USE DEF process, requests, worker, kernel
<1>i. /\ ids \in Nat /\ faults \in Nat
      /\ {"checked", "held", "gone", "probe", "probeput", "probing", "idle"} \subseteq Places
  BY DEF Basic, TypeOK, Counted, Places
<1>1. CASE t \in Clients /\ CheckWork(t)
  BY <1>1, <1>i, BasicMove DEF CheckWork
<1>2. CASE t \in Clients /\ SetLease(t)
  <2>1. CASE lease # 0
    BY <1>2, <1>i, <2>1, BasicMove DEF SetLease
  <2>2. CASE lease = 0
    <3>1. /\ ids' = ids + 1 /\ ids < MaxIds /\ lease' = ids + 1
          /\ loc' = [loc EXCEPT ![t] = [lease |-> ids + 1, req |-> ids + 1,
                                        epoch |-> epoch, clean |-> ~InFlight]]
          /\ pc' = [pc EXCEPT ![t] = IF hasWorker THEN "closing" ELSE "held"]
          /\ IF hasWorker THEN Put("close", ids + 1) ELSE UNCHANGED queue
          /\ UNCHANGED <<process, rows, start, hasWorker, item, at, kernel, done, faults>>
      BY <1>2, <2>2 DEF SetLease
    <3>2. Counted'
      BY <3>1, <1>i DEF Counted, Basic, LeaseAssumption
    <3>3. /\ queue' \in Seq(Items) /\ (hasWorker \/ queue' = <<>>) /\ Working'
      <4>1. CASE hasWorker
        <5>1. "close" \in Kinds \ {"none"} /\ Put("close", ids + 1)
          BY <3>1, <4>1 DEF Kinds
        <5> QED BY <5>1, <4>1, <3>1, QueueGrows
      <4>2. CASE ~hasWorker
        <5>1. queue' = <<>> /\ item' = NoItem /\ Len(queue') = 0
          BY <4>2, <3>1 DEF Basic, TypeOK
        <5> QED BY <5>1, <3>1, <1>i, <4>2 DEF Basic, Working, Numbered, NoItem
      <4> QED BY <4>1, <4>2
    <3>4. [lease |-> ids + 1, req |-> ids + 1, epoch |-> epoch, clean |-> ~InFlight]
            \in [lease : 0..MaxIds, req : 0..MaxIds, epoch : 0..MaxFaults, clean : BOOLEAN]
      BY <3>1, <1>i DEF Basic, TypeOK, InFlight, LeaseAssumption
    <3>5. TypeOK'
      BY <3>1, <3>3, <3>4, <1>i DEF Basic, TypeOK, Places, Items, LeaseAssumption
    <3> QED BY <3>2, <3>3, <3>5 DEF Basic
  <2> QED BY <2>1, <2>2
<1>3. CASE t \in Clients /\ AwaitClose(t)
  BY <1>3, <1>i, BasicMove DEF AwaitClose
<1>4. CASE t \in Clients /\ Release(t)
  BY <1>4, <1>i, BasicMove DEF Release
<1>5. CASE t \in Clients /\ ClientDies(t)
  BY <1>5, <1>i, BasicMove DEF ClientDies
<1>6. CASE ProbeCheck(t)
  BY <1>6, <1>i, BasicMove DEF ProbeCheck
<1>7. CASE ProbePut(t)
  <2>1. /\ ids' = ids + 1 /\ ids < MaxIds /\ hasWorker' = TRUE
        /\ Put("probe", ids + 1) /\ pc' = [pc EXCEPT ![t] = "probing"]
        /\ UNCHANGED <<loc, process, lease, rows, start, item, at, kernel, done, faults>>
    BY <1>7 DEF ProbePut, Go
  <2>2. "probe" \in Kinds \ {"none"}
    BY DEF Kinds
  <2>3. queue' \in Seq(Items) /\ Working'
    BY <2>1, <2>2, QueueGrows
  <2>5. Counted'
    BY <2>1, <1>i DEF Basic, Counted, LeaseAssumption
  <2>6. TypeOK'
    BY <2>1, <2>3, <1>i DEF Basic, TypeOK, Places, Items
  <2> QED BY <2>3, <2>5, <2>6 DEF Basic
<1>8. CASE ProbeReturns(t)
  BY <1>8, <1>i, BasicMove DEF ProbeReturns
<1> QED
  BY <1>1, <1>2, <1>3, <1>4, <1>5, <1>6, <1>7, <1>8

\* A start on the event loop, and the request it puts into the queue.
LEMMA BasicStart ==
  ASSUME LeaseAssumption, Basic,
         (\E e \in Execs : StartCheck(e)) \/ StartCreate \/ Submit \/ SubmitPut
  PROVE  Basic'
<1> USE DEF process, requests, worker, kernel
<1>1. CASE (\E e \in Execs : StartCheck(e)) \/ StartCreate \/ Submit
  <2>1. start' \in [e : 0..NExec, at : {"none", "create", "submit", "put"}]
    <3>1. start \in [e : 0..NExec, at : {"none", "create", "submit", "put"}] /\ NExec \in Nat
      BY DEF Basic, TypeOK, LeaseAssumption
    <3>2. CASE \E e \in Execs : StartCheck(e)
      BY <3>1, <3>2 DEF StartCheck, Execs
    <3>3. CASE StartCreate
      BY <3>1, <3>3 DEF StartCreate
    <3>4. CASE Submit
      BY <3>1, <3>4 DEF Submit, NoStart
    <3> QED BY <1>1, <3>2, <3>3, <3>4
  <2>2. rows' \in [Execs -> {"none", "queued", "running", "done"}]
    BY <1>1 DEF StartCheck, StartCreate, Submit, Basic, TypeOK
  <2>3. UNCHANGED <<process, requests, worker, kernel, done, faults>>
    BY <1>1 DEF StartCheck, StartCreate, Submit
  <2> QED BY <2>1, <2>2, <2>3 DEF Basic, TypeOK, Counted, Working
<1>2. CASE SubmitPut
  <2>1. /\ start' = NoStart /\ hasWorker' = TRUE
        /\ UNCHANGED <<process, requests, rows, item, at, kernel, done, faults>>
        /\ queue' = queue \/ Put("execute", start.e)
    BY <1>2 DEF SubmitPut
  <2>2. /\ queue' \in Seq(Items)
        /\ \A i \in 1..Len(queue') : Numbered(queue'[i], ids) /\ queue'[i].kind # "none"
    <3>1. CASE queue' = queue
      BY <3>1 DEF Basic, TypeOK, Working, Items
    <3>2. CASE Put("execute", start.e)
      <4>1. /\ queue \in Seq(Items) /\ Len(queue) \in Nat
            /\ "execute" \in Kinds /\ start.e \in Nat
        BY DEF Basic, TypeOK, Items, Kinds, LeaseAssumption
      <4>2. /\ queue' \in Seq(Items) /\ Len(queue') = Len(queue) + 1
            /\ queue'[Len(queue) + 1] = [kind |-> "execute", id |-> start.e]
            /\ \A i \in 1..Len(queue) : queue'[i] = queue[i]
        BY <4>1, <3>2, PutQueue
      <4>3. ASSUME NEW i \in 1..Len(queue')
            PROVE  Numbered(queue'[i], ids) /\ queue'[i].kind # "none"
        <5>1. CASE i \in 1..Len(queue)
          BY <5>1, <4>2 DEF Basic, Working
        <5>2. CASE i = Len(queue) + 1
          BY <5>2, <4>2 DEF Numbered
        <5> QED BY <5>1, <5>2, <4>1, <4>2
      <4> QED BY <4>2, <4>3
    <3> QED BY <3>1, <3>2, <2>1
  <2>3. NoStart \in [e : 0..NExec, at : {"none", "create", "submit", "put"}]
    BY DEF NoStart, LeaseAssumption
  <2>4. TypeOK'
    BY <2>1, <2>2, <2>3 DEF Basic, TypeOK, Items
  <2>5. Counted' /\ Working'
    BY <2>1, <2>2 DEF Basic, Counted, Working
  <2> QED BY <2>4, <2>5 DEF Basic
<1> QED BY <1>1, <1>2

\* The worker has finished its item: nothing is left in hand.
LEMMA BasicFinish ==
  ASSUME LeaseAssumption, Basic, Finish, at # "idle",
         UNCHANGED <<process, requests, start, hasWorker, queue>>,
         rows' \in [Execs -> {"none", "queued", "running", "done"}],
         link' \in {0, link},
         conn' \in [id : 0..MaxIds, open : BOOLEAN, ready : BOOLEAN],
         asked' \subseteq asked,
         faults' = faults \/ (faults < MaxFaults /\ faults' = faults + 1)
  PROVE  Basic'
<1> USE DEF process, requests
<1>1. item' = NoItem /\ at' = "idle"
  BY DEF Finish
<1>2. done' \subseteq 1..ids /\ ids \in 0..MaxIds
  BY FinishDone DEF Basic, Working, Numbered, Counted
<1>3. NoItem \in [kind : Kinds, id : Nat] /\ Numbered(NoItem, ids)
  BY DEF NoItem, Kinds, Numbered
<1>4. TypeOK'
  BY <1>1, <1>2, <1>3 DEF Basic, TypeOK, LeaseAssumption
<1>5. Counted'
  BY DEF Basic, Counted, TypeOK, LeaseAssumption
<1>6. Working'
  BY <1>1, <1>2, <1>3 DEF Basic, Working
<1> QED BY <1>4, <1>5, <1>6 DEF Basic

\* A step of the worker, or of the kernel it talks to.
LEMMA BasicWorker ==
  ASSUME LeaseAssumption, Basic,
         \/ Take \/ RunClose \/ Skip \/ Connect \/ ConnectFails \/ ExecutionEnds
         \/ Disconnect \/ ProbeSend \/ KernelAnswers \/ ProbeObserve \/ ProbeRecord
  PROVE  Basic'
<1> USE DEF process, requests, worker, kernel
<1>c. /\ conn \in [id : 0..MaxIds, open : BOOLEAN, ready : BOOLEAN]
      /\ rows \in [Execs -> {"none", "queued", "running", "done"}]
  BY DEF Basic, TypeOK
<1>d. Drop => /\ link' = 0 /\ asked' \subseteq asked
              /\ conn' \in [id : 0..MaxIds, open : BOOLEAN, ready : BOOLEAN]
  BY <1>c DEF Drop
<1>1. CASE Take
  <2>1. /\ item' = queue[1] /\ Len(queue) \in Nat \ {0} /\ item' \in Items
        /\ queue' \in Seq(Items) /\ Len(queue') = Len(queue) - 1
        /\ \A i \in 1..Len(queue') : queue'[i] = queue[i + 1]
    BY <1>1, TakeQueue DEF Basic, TypeOK, Items
  <2>2. queue # <<>> /\ at' = "begin"
        /\ UNCHANGED <<process, requests, rows, start, hasWorker, kernel, done, faults>>
    BY <1>1 DEF Take
  <2>3. \A i \in 1..Len(queue') : Numbered(queue'[i], ids) /\ queue'[i].kind # "none"
    BY <2>1 DEF Basic, Working
  <2>4. Numbered(item', ids) /\ item'.kind # "none"
    BY <2>1 DEF Basic, Working
  <2>5. TypeOK'
    BY <2>1, <2>2 DEF Basic, TypeOK, Items
  <2>6. Counted' /\ Working'
    BY <2>2, <2>3, <2>4 DEF Basic, Counted, Working, NoItem
  <2> QED BY <2>5, <2>6 DEF Basic
<1>2. CASE RunClose
  BY <1>2, <1>c, <1>d, BasicFinish DEF RunClose
<1>3. CASE Skip
  BY <1>3, <1>c, BasicFinish DEF Skip
<1>4. CASE Connect
  <2>1. /\ at = "begin" /\ item.kind # "none" /\ at' = "run"
        /\ UNCHANGED <<process, requests, start, hasWorker, queue, item, done, faults>>
    BY <1>4 DEF Connect
  <2>2. rows' \in [Execs -> {"none", "queued", "running", "done"}]
    BY <1>4, <1>c DEF Connect
  <2>3. /\ link' \in 0..MaxIds /\ asked' \subseteq asked
        /\ conn' \in [id : 0..MaxIds, open : BOOLEAN, ready : BOOLEAN]
    <3>1. link \in 0..MaxIds /\ MaxIds \in Nat /\ conn.id \in 0..MaxIds
      BY <1>c DEF LeaseAssumption, Basic, TypeOK
    <3>2. CASE link = 0
      <4>1. /\ conn.id < MaxIds /\ link' = conn.id + 1 /\ asked' = {}
            /\ conn' = [id |-> conn.id + 1, open |-> TRUE, ready |-> FALSE]
        BY <1>4, <3>2 DEF Connect
      <4> QED BY <3>1, <4>1
    <3>3. CASE link # 0
      BY <1>4, <1>c, <3>1, <3>3 DEF Connect
    <3> QED BY <3>2, <3>3
  <2>4. hasWorker
    BY <2>1 DEF Basic, TypeOK, NoItem
  <2>5. TypeOK'
    BY <2>1, <2>2, <2>3, <2>4 DEF Basic, TypeOK
  <2>6. Counted' /\ Working'
    BY <2>1 DEF Basic, Counted, Working
  <2> QED BY <2>5, <2>6 DEF Basic
<1>5. CASE ConnectFails
  <2>1. rows' \in [Execs -> {"none", "queued", "running", "done"}]
    BY <1>5, <1>c DEF ConnectFails
  <2> QED BY <1>5, <1>c, <2>1, BasicFinish DEF ConnectFails
<1>6. CASE ExecutionEnds
  <2>1. rows' \in [Execs -> {"none", "queued", "running", "done"}]
    BY <1>6, <1>c DEF ExecutionEnds
  <2> QED BY <1>6, <1>c, <2>1, BasicFinish DEF ExecutionEnds
<1>7. CASE Disconnect
  <2>1. rows' \in [Execs -> {"none", "queued", "running", "done"}]
    BY <1>7, <1>c DEF Disconnect
  <2> QED BY <1>7, <1>c, <1>d, <2>1, BasicFinish DEF Disconnect
<1>8. CASE ProbeSend
  <2>1. item.id \in 1..MaxIds
    BY <1>8 DEF ProbeSend, Basic, Working, Numbered, Counted, LeaseAssumption
  <2>2. /\ asked' = asked \cup {item.id} /\ at = "run" /\ at' = "observe"
        /\ UNCHANGED <<process, requests, rows, start, hasWorker, queue, item, link, conn, done, faults>>
    BY <1>8 DEF ProbeSend
  <2>3. TypeOK'
    <3>1. asked' \subseteq 1..MaxIds
      <4>1. asked \subseteq 1..MaxIds
        BY DEF Basic, TypeOK
      <4> QED BY <2>1, <2>2, <4>1
    <3>2. /\ UNCHANGED <<alive, epoch, lease, pc, loc, rows, start, hasWorker, queue, item>>
          /\ UNCHANGED <<link, conn, done>> /\ at' = "observe"
      BY <2>2
    <3> QED BY <3>1, <3>2 DEF Basic, TypeOK
  <2>4. Counted' /\ Working'
    BY <2>2 DEF Basic, Counted, Working
  <2> QED BY <2>3, <2>4 DEF Basic
<1>9. CASE KernelAnswers \/ ProbeObserve
  <2>1. UNCHANGED <<process, requests, rows, start, worker, link, conn, asked, done, faults>>
    BY <1>9 DEF KernelAnswers, ProbeObserve
  <2> QED BY <2>1 DEF Basic, TypeOK, Counted, Working
<1>10. CASE ProbeRecord
  <2>1. conn' \in [id : 0..MaxIds, open : BOOLEAN, ready : BOOLEAN]
    BY <1>10, <1>c DEF ProbeRecord, Ready
  <2> QED BY <1>10, <1>c, <2>1, BasicFinish DEF ProbeRecord
<1> QED
  BY <1>1, <1>2, <1>3, <1>4, <1>5, <1>6, <1>7, <1>8, <1>9, <1>10

\* The controller dies, and its successor starts from the rows.
LEMMA BasicProcess ==
  ASSUME LeaseAssumption, Basic, Stopped, Crash \/ Restart
  PROVE  Basic'
<1> USE DEF process, requests, worker, kernel
<1>1. CASE Crash
  <2>1. NoLoc \in [lease : 0..MaxIds, req : 0..MaxIds, epoch : 0..MaxFaults, clean : BOOLEAN]
    BY DEF NoLoc, LeaseAssumption
  <2>2. /\ pc' \in [Threads -> Places]
        /\ loc' \in [Threads -> [lease : 0..MaxIds, req : 0..MaxIds,
                                 epoch : 0..MaxFaults, clean : BOOLEAN]]
    BY <1>1, <2>1 DEF Crash, Basic, TypeOK, Places
  <2>3. /\ alive' = FALSE /\ lease' = 0 /\ start' = NoStart /\ hasWorker' = FALSE
        /\ queue' = <<>> /\ item' = NoItem /\ at' = "idle" /\ link' = 0
        /\ asked' = {} /\ done' = {} /\ alive /\ faults < MaxFaults /\ faults' = faults + 1
        /\ UNCHANGED <<epoch, ids, rows, conn>>
    BY <1>1 DEF Crash
  <2>4. /\ NoStart \in [e : 0..NExec, at : {"none", "create", "submit", "put"}]
        /\ NoItem \in [kind : Kinds, id : Nat] /\ Numbered(NoItem, ids)
    BY DEF NoStart, NoItem, Kinds, Numbered, LeaseAssumption
  <2>5. TypeOK'
    <3>1. /\ alive' \in BOOLEAN /\ epoch' \in 0..MaxFaults /\ lease' \in 0..MaxIds
          /\ rows' \in [Execs -> {"none", "queued", "running", "done"}]
          /\ link' \in 0..MaxIds /\ conn' \in [id : 0..MaxIds, open : BOOLEAN, ready : BOOLEAN]
      <4>0. alive' \in BOOLEAN
        BY <2>3, Zenon
      <4>1. lease' \in 0..MaxIds /\ link' \in 0..MaxIds
        <5>1. lease' = 0 /\ link' = 0
          BY <2>3
        <5> QED BY <5>1 DEF LeaseAssumption
      <4>2. UNCHANGED <<epoch, rows, conn>>
        BY <2>3
      <4> QED BY <4>0, <4>1, <4>2 DEF Basic, TypeOK
    <3>2. /\ start' \in [e : 0..NExec, at : {"none", "create", "submit", "put"}]
          /\ item' \in [kind : Kinds, id : Nat] /\ queue' \in Seq([kind : Kinds, id : Nat])
      BY <2>3, <2>4
    <3> QED BY <2>2, <2>3, <3>1, <3>2 DEF TypeOK
  <2>6. Counted'
    BY <2>3 DEF Basic, Counted, TypeOK, LeaseAssumption
  <2>7. Working'
    BY <2>3, <2>4 DEF Basic, Working
  <2> QED BY <2>5, <2>6, <2>7 DEF Basic
<1>2. CASE Restart
  <2>1. /\ queue' \in Seq(Items)
        /\ \A i \in 1..Len(queue') : queue'[i].kind \in {"recover", "execute"}
        /\ ActiveWork \/ queue' = <<>>
    BY <1>2, RestartQueue
  <2>2. /\ ~alive /\ alive' = TRUE /\ epoch' = epoch + 1 /\ hasWorker' = ActiveWork
        /\ conn' = [conn EXCEPT !.open = FALSE, !.ready = FALSE]
        /\ UNCHANGED <<requests, rows, start, item, at, link, proof, asked, msgs, done, faults>>
    BY <1>2 DEF Restart
  <2>3. conn' \in [id : 0..MaxIds, open : BOOLEAN, ready : BOOLEAN] /\ epoch' \in 0..MaxFaults
    <3>1. conn \in [id : 0..MaxIds, open : BOOLEAN, ready : BOOLEAN]
      BY DEF Basic, TypeOK
    <3>2. conn' \in [id : 0..MaxIds, open : BOOLEAN, ready : BOOLEAN]
      BY <2>2, <3>1
    <3>3. epoch' \in 0..MaxFaults
      BY <2>2, SMTT(20) DEF Basic, TypeOK, Counted, LeaseAssumption
    <3> QED BY <3>2, <3>3
  <2>4. item' = NoItem /\ link' = 0 /\ ActiveWork \in BOOLEAN
    BY <2>2 DEF Stopped, Basic, TypeOK, ActiveWork
  <2>5. TypeOK'
    <3>1. alive' \in BOOLEAN /\ hasWorker' \in BOOLEAN
      BY <2>2, <2>4, Zenon
    <3>2. UNCHANGED <<lease, rows, pc, loc, start, at, item, link, asked, done>>
      BY <2>2
    <3>3. hasWorker' \/ queue' = <<>>
      BY <2>1, <2>2, Zenon
    <3> QED BY <2>1, <2>3, <2>4, <3>1, <3>2, <3>3, SMTT(20) DEF Basic, TypeOK, Items
  <2>6. Counted'
    BY <2>2 DEF Basic, Counted, TypeOK, LeaseAssumption
  <2>7. Working'
    BY <2>1, <2>2 DEF Basic, Working, Numbered
  <2> QED BY <2>5, <2>6, <2>7 DEF Basic
<1> QED BY <1>1, <1>2

\* Nothing starts in a dead controller.
LEMMA StoppedStep ==
  ASSUME LeaseAssumption, Basic, Stopped, Next
  PROVE  Stopped'
<1> USE DEF process, requests, worker, kernel, Stopped
<1>p. pc \in [Threads -> Places] /\ Clients \subseteq Threads
  BY DEF Basic, TypeOK, Threads
<1>1. CASE alive'
  BY <1>1
<1>2. CASE ~alive' /\ alive
  BY <1>2, <1>p DEF Next, CheckWork, SetLease, AwaitClose, Release, ClientDies, ProbeCheck,
     ProbePut, ProbeReturns, StartCheck, StartCreate, Submit, SubmitPut, Take, RunClose,
     Skip, Connect, ConnectFails, ExecutionEnds, Disconnect, ProbeSend, KernelAnswers,
     ProbeObserve, ProbeRecord, Crash, Restart
<1>3. CASE ~alive' /\ ~alive
  <2>1. ASSUME NEW c \in Clients, CheckWork(c) \/ SetLease(c) \/ AwaitClose(c) \/ Release(c) \/ ClientDies(c)
        PROVE  Stopped'
    BY <2>1, <1>3, <1>p DEF CheckWork, SetLease, AwaitClose, Release, ClientDies, Go, Answer
  <2>2. ASSUME NEW t \in Threads, ProbeCheck(t) \/ ProbePut(t) \/ ProbeReturns(t)
        PROVE  Stopped'
    BY <2>2, <1>3, <1>p DEF ProbeCheck, ProbePut, ProbeReturns
  <2>3. CASE (\E e \in Execs : StartCheck(e)) \/ StartCreate \/ Submit \/ SubmitPut
    BY <2>3, <1>3 DEF StartCheck, StartCreate, Submit, SubmitPut, NoStart
  <2>4. CASE \/ Take \/ RunClose \/ Skip \/ Connect \/ ConnectFails \/ ExecutionEnds
             \/ Disconnect \/ ProbeSend \/ KernelAnswers \/ ProbeObserve \/ ProbeRecord
    BY <2>4, <1>3 DEF Take, RunClose, Skip, Connect, ConnectFails, ExecutionEnds, Disconnect,
       ProbeSend, KernelAnswers, ProbeObserve, ProbeRecord
  <2>5. CASE Crash \/ Restart
    BY <2>5, <1>3 DEF Crash, Restart
  <2> QED BY <2>1, <2>2, <2>3, <2>4, <2>5 DEF Next
<1> QED BY <1>1, <1>2, <1>3 DEF Basic, TypeOK

\* Every step keeps the state well formed.
LEMMA BasicStep ==
  ASSUME LeaseAssumption, Basic, Stopped, Next
  PROVE  Basic' /\ Stopped'
<1>1. Clients \subseteq Threads
  BY DEF Threads
<1> QED
  BY <1>1, BasicRequest, BasicStart, BasicWorker, BasicProcess, StoppedStep DEF Next

-----------------------------------------------------------------------------
(***************************************************************************)
(* Whose lease it is.                                                      *)
(***************************************************************************)

\* A thread that moves on keeps what it knew or forgets it, and does not come
\* to hold a lease it was not granted.
Moved ==
  \A c \in Clients :
    /\ loc'[c] \in {loc[c], NoLoc}
    /\ pc'[c] \in Granted => pc[c] \in Granted /\ loc'[c] = loc[c]
    /\ pc'[c] = "closing" => pc[c] = "closing"
    /\ pc'[c] = "held" => pc[c] \in {"closing", "held"}

\* All requests but the one that sets the lease only move on.
LEMMA RequestMoves ==
  ASSUME LeaseAssumption, Basic, NEW t \in Threads,
         \/ t \in Clients /\ (CheckWork(t) \/ (SetLease(t) /\ lease # 0) \/ AwaitClose(t)
                                \/ Release(t) \/ ClientDies(t))
         \/ ProbeCheck(t) \/ ProbePut(t) \/ ProbeReturns(t)
  PROVE  Moved
<1>p. pc \in [Threads -> Places] /\ loc \in [Threads -> [lease : 0..MaxIds, req : 0..MaxIds,
        epoch : 0..MaxFaults, clean : BOOLEAN]] /\ Clients \subseteq Threads
  BY DEF Basic, TypeOK, Threads
<1> SUFFICES ASSUME NEW c \in Clients
             PROVE  /\ loc'[c] \in {loc[c], NoLoc}
                    /\ pc'[c] \in Granted => pc[c] \in Granted /\ loc'[c] = loc[c]
                    /\ pc'[c] = "closing" => pc[c] = "closing"
                    /\ pc'[c] = "held" => pc[c] \in {"closing", "held"}
  BY DEF Moved
<1>1. \/ Answer(t)
      \/ Go(t, "checked") \/ Go(t, "probe") \/ Go(t, "probeput") \/ Go(t, "probing")
      \/ (Go(t, "held") \/ Go(t, "gone")) /\ pc[t] \in {"closing", "held"}
  BY DEF CheckWork, SetLease, AwaitClose, Release, ClientDies, ProbeCheck, ProbePut,
     ProbeReturns, Granted
<1>2. CASE c # t
  BY <1>p, <1>1, <1>2 DEF Answer, Go
<1>3. CASE c = t
  BY <1>p, <1>1, <1>3 DEF Answer, Go, Granted
<1> QED BY <1>2, <1>3

\* The lease is set for a command under a number nobody has.
LEMMA LeaseSet ==
  ASSUME LeaseAssumption, Basic, NEW t \in Clients, SetLease(t), lease = 0
  PROVE  /\ ids' = ids + 1 /\ lease' = ids + 1 /\ ids \in Nat
         /\ loc'[t] = [lease |-> ids + 1, req |-> ids + 1, epoch |-> epoch, clean |-> ~InFlight]
         /\ pc'[t] = IF hasWorker THEN "closing" ELSE "held"
         /\ \A c \in Clients \ {t} : loc'[c] = loc[c] /\ pc'[c] = pc[c]
         /\ UNCHANGED <<process, start, hasWorker, item, at, kernel, done>>
         /\ IF hasWorker THEN Put("close", ids + 1) ELSE UNCHANGED queue
<1>p. pc \in [Threads -> Places] /\ loc \in [Threads -> [lease : 0..MaxIds, req : 0..MaxIds,
        epoch : 0..MaxFaults, clean : BOOLEAN]] /\ Clients \subseteq Threads /\ ids \in Nat
  BY DEF Basic, TypeOK, Threads, Counted
<1> QED BY <1>p DEF SetLease

\* What commands know across a crash.
LEMMA CrashMoves ==
  ASSUME Crash
  PROVE  Moved /\ \A c \in Clients : pc'[c] # "closing"
<1>1. Clients \subseteq Threads
  BY DEF Threads
<1> QED BY <1>1 DEF Crash, Moved, Granted

\* Tokens stay distinct, and a command that waits for its lease waits for the
\* controller that runs.
LEMMA TokensStep ==
  ASSUME LeaseAssumption, Basic, Stopped, Tokens, OwnedKept, Next
  PROVE  Tokens'
<1>b. ids \in Nat /\ epoch \in Nat /\ ids' \in Nat /\ epoch' \in Nat
      /\ \A c \in Clients : loc[c].lease \in Nat /\ loc[c].epoch \in Nat
  <2>1. Basic'
    BY BasicStep
  <2>2. Clients \subseteq Threads
    BY DEF Threads
  <2>3. ids' \in Nat /\ epoch' \in Nat
    BY <2>1 DEF Basic, TypeOK, Counted
  <2>4. ids \in Nat /\ epoch \in Nat /\ \A c \in Clients : loc[c].lease \in Nat /\ loc[c].epoch \in Nat
    BY <2>2 DEF Basic, TypeOK, Counted
  <2> QED BY <2>3, <2>4
<1>n. NoLoc.lease = 0 /\ NoLoc.req = 0 /\ NoLoc.epoch = 0
  BY DEF NoLoc
<1>m. ASSUME Moved, ids' \in {ids, ids + 1},
             \/ epoch' = epoch /\ alive' = alive
             \/ epoch' \in {epoch, epoch + 1} /\ \A c \in Clients : pc'[c] # "closing"
      PROVE  Tokens'
  <2> SUFFICES ASSUME NEW c \in Clients, NEW d \in Clients
               PROVE  /\ loc'[c].req = loc'[c].lease /\ loc'[c].lease \in 0..ids'
                      /\ loc'[c].epoch \leq epoch'
                      /\ pc'[c] \in Granted => loc'[c].lease # 0
                      /\ pc'[c] = "closing" => alive' /\ loc'[c].epoch = epoch'
                      /\ loc'[c].lease # 0 /\ loc'[c].lease = loc'[d].lease => c = d
    BY DEF Tokens
  <2>1. loc'[c].req = loc'[c].lease /\ loc'[c].lease \in 0..ids' /\ loc'[c].epoch \leq epoch'
    BY <1>m, <1>b, <1>n DEF Tokens, Moved
  <2>2. /\ pc'[c] \in Granted => loc'[c].lease # 0
        /\ loc'[c].lease # 0 /\ loc'[c].lease = loc'[d].lease => c = d
    BY <1>m, <1>n DEF Tokens, Moved
  <2>3. pc'[c] = "closing" => alive' /\ loc'[c].epoch = epoch'
    BY <1>m DEF Tokens, Moved, Granted
  <2> QED BY <2>1, <2>2, <2>3
<1>1. ASSUME NEW t \in Threads,
             \/ t \in Clients /\ (CheckWork(t) \/ SetLease(t) \/ AwaitClose(t) \/ Release(t) \/ ClientDies(t))
             \/ ProbeCheck(t) \/ ProbePut(t) \/ ProbeReturns(t)
      PROVE  Tokens'
  <2>1. CASE t \in Clients /\ SetLease(t) /\ lease = 0
    <3>1. /\ ids' = ids + 1
          /\ loc'[t].lease = ids + 1 /\ loc'[t].req = ids + 1 /\ loc'[t].epoch = epoch
          /\ \A c \in Clients \ {t} : loc'[c] = loc[c] /\ pc'[c] = pc[c]
          /\ UNCHANGED <<alive, epoch>> /\ (pc'[t] = "closing" => hasWorker)
      BY <2>1, LeaseSet DEF process
    <3>2. alive
      BY <1>1, <2>1 DEF SetLease, Stopped
    <3>3. \A c \in Clients \ {t} : loc'[c].lease \in 0..ids /\ loc'[c].lease # ids + 1
      BY <3>1, <1>b DEF Tokens
    <3> SUFFICES ASSUME NEW c \in Clients, NEW d \in Clients
                 PROVE  /\ loc'[c].req = loc'[c].lease /\ loc'[c].lease \in 0..ids'
                        /\ loc'[c].epoch \leq epoch'
                        /\ pc'[c] \in Granted => loc'[c].lease # 0
                        /\ pc'[c] = "closing" => alive' /\ loc'[c].epoch = epoch'
                        /\ loc'[c].lease # 0 /\ loc'[c].lease = loc'[d].lease => c = d
      BY DEF Tokens
    <3>4. CASE c = t
      BY <3>1, <3>2, <3>3, <3>4, <1>b
    <3>5. CASE c # t
      BY <3>1, <3>3, <3>5, <1>b DEF Tokens
    <3> QED BY <3>4, <3>5
  <2>2. CASE ~(t \in Clients /\ SetLease(t) /\ lease = 0)
    <3>1. Moved
      BY <1>1, <2>2, RequestMoves
    <3>2. ids' \in {ids, ids + 1} /\ epoch' = epoch /\ alive' = alive
      BY <1>1 DEF CheckWork, SetLease, AwaitClose, Release, ClientDies, ProbeCheck, ProbePut,
         ProbeReturns, process
    <3> QED BY <3>1, <3>2, <1>m
  <2> QED BY <2>1, <2>2
<1>2. CASE \/ (\E e \in Execs : StartCheck(e)) \/ StartCreate \/ Submit \/ SubmitPut
           \/ Take \/ RunClose \/ Skip \/ Connect \/ ConnectFails \/ ExecutionEnds
           \/ Disconnect \/ ProbeSend \/ KernelAnswers \/ ProbeObserve \/ ProbeRecord
  <2>1. UNCHANGED <<process, requests>>
    BY <1>2 DEF StartCheck, StartCreate, Submit, SubmitPut, Take, RunClose, Skip, Connect,
       ConnectFails, ExecutionEnds, Disconnect, ProbeSend, KernelAnswers, ProbeObserve, ProbeRecord
  <2> QED BY <2>1 DEF Tokens, process, requests
<1>3. CASE Crash
  <2>1. ids' = ids /\ epoch' = epoch
    BY <1>3 DEF Crash
  <2> QED BY <2>1, <1>3, CrashMoves, <1>m
<1>4. CASE Restart
  <2>1. /\ ids' = ids /\ epoch' = epoch + 1 /\ pc' = pc /\ loc' = loc
        /\ \A c \in Clients : pc[c] # "closing"
    BY <1>4 DEF Restart, requests, Stopped, Threads
  <2>2. Moved
    BY <2>1 DEF Moved
  <2> QED BY <2>1, <2>2, <1>m
<1> QED
  BY <1>1, <1>2, <1>3, <1>4 DEF Next, Threads

\* No step of another command, of the worker or of a later controller takes a
\* lease away.
LEMMA OwnedStep ==
  ASSUME LeaseAssumption, Basic, Stopped, Tokens, OwnedKept, Next
  PROVE  OwnedKept'
<1>b. ids \in Nat /\ epoch \in Nat /\ lease \in Nat
      /\ \A c \in Clients : loc[c].lease \in Nat /\ loc[c].epoch \in Nat
  <2>2. Clients \subseteq Threads
    BY DEF Threads
  <2> QED BY <2>2 DEF Basic, TypeOK, Counted
<1>m. ASSUME Moved, UNCHANGED <<epoch, alive, lease>>
      PROVE  OwnedKept'
  BY <1>m DEF OwnedKept, Owned, Moved
<1>1. ASSUME NEW t \in Clients, SetLease(t), lease = 0
      PROVE  OwnedKept'
  <2>1. /\ lease' = ids + 1 /\ loc'[t].lease = ids + 1
        /\ \A c \in Clients \ {t} : loc'[c] = loc[c] /\ pc'[c] = pc[c]
        /\ UNCHANGED <<alive, epoch>>
    BY <1>1, LeaseSet DEF process
  <2>2. \A c \in Clients : ~Owned(c)
    BY <1>1 DEF OwnedKept, Owned, Tokens
  <2> QED BY <2>1, <2>2 DEF OwnedKept, Owned
<1>2. ASSUME NEW t \in Clients, AwaitClose(t)
      PROVE  OwnedKept'
  <2>m. Moved /\ UNCHANGED <<epoch, alive>>
    BY <1>2, RequestMoves DEF Threads, AwaitClose, process
  <2>t. pc[t] = "closing" /\ t \in Threads
    BY <1>2 DEF AwaitClose, Threads
  <2>1. CASE lease' = lease
    BY <2>1, <2>m, <1>m
  <2>2. CASE lease = loc[t].lease /\ Answer(t)
    <3>1. pc'[t] = "idle"
      BY <2>2, <2>t DEF Answer, Basic, TypeOK
    <3>2. \A c \in Clients : ~Owned(c)'
      BY <3>1, <2>2, <2>m, <2>t, <1>b DEF Owned, OwnedKept, Tokens, Moved, Granted
    <3> QED BY <3>2 DEF OwnedKept
  <2> QED BY <1>2, <2>1, <2>2 DEF AwaitClose
<1>3. ASSUME NEW t \in Clients, Release(t)
      PROVE  OwnedKept'
  <2>m. Moved /\ UNCHANGED <<epoch, alive>>
    BY <1>3, RequestMoves DEF Threads, Release, process
  <2>t. pc[t] = "held" /\ t \in Threads
    BY <1>3 DEF Release, Threads
  <2>1. CASE lease' = lease
    BY <2>1, <2>m, <1>m
  <2>2. CASE lease = loc[t].lease /\ (Go(t, "probe") \/ Answer(t))
    <3>1. pc'[t] \in {"idle", "probe"}
      BY <2>2, <2>t DEF Answer, Go, Basic, TypeOK
    <3>2. \A c \in Clients : ~Owned(c)'
      BY <3>1, <2>2, <2>m, <2>t, <1>b DEF Owned, OwnedKept, Tokens, Moved, Granted
    <3> QED BY <3>2 DEF OwnedKept
  <2> QED BY <1>3, <2>1, <2>2 DEF Release
<1>4. ASSUME NEW t \in Threads,
             \/ t \in Clients /\ (CheckWork(t) \/ (SetLease(t) /\ lease # 0) \/ ClientDies(t))
             \/ ProbeCheck(t) \/ ProbePut(t) \/ ProbeReturns(t)
      PROVE  OwnedKept'
  <2>1. Moved
    BY <1>4, RequestMoves
  <2>2. UNCHANGED <<epoch, alive, lease>>
    BY <1>4 DEF CheckWork, SetLease, ClientDies, ProbeCheck, ProbePut, ProbeReturns, process
  <2> QED BY <2>1, <2>2, <1>m
<1>5. CASE \/ (\E e \in Execs : StartCheck(e)) \/ StartCreate \/ Submit \/ SubmitPut
           \/ Take \/ RunClose \/ Skip \/ Connect \/ ConnectFails \/ ExecutionEnds
           \/ Disconnect \/ ProbeSend \/ KernelAnswers \/ ProbeObserve \/ ProbeRecord
  <2>1. UNCHANGED <<process, requests>>
    BY <1>5 DEF StartCheck, StartCreate, Submit, SubmitPut, Take, RunClose, Skip, Connect,
       ConnectFails, ExecutionEnds, Disconnect, ProbeSend, KernelAnswers, ProbeObserve, ProbeRecord
  <2> QED BY <2>1 DEF OwnedKept, Owned, process, requests
<1>6. CASE Crash
  <2>1. ~alive'
    BY <1>6 DEF Crash
  <2> QED BY <2>1 DEF OwnedKept, Owned
<1>7. CASE Restart
  <2>1. epoch' = epoch + 1 /\ loc' = loc
    BY <1>7 DEF Restart, requests
  <2> QED BY <2>1, <1>b DEF OwnedKept, Owned, Tokens
<1> QED
  BY <1>1, <1>2, <1>3, <1>4, <1>5, <1>6, <1>7 DEF Next, Threads

-----------------------------------------------------------------------------
(***************************************************************************)
(* The kernel is the command's own.                                        *)
(***************************************************************************)
Position(c) == Closed(c) \/ InHand(c) \/ Last(c)

\* Under a lease no request gets past its last look at it.
LEMMA FlightNone ==
  ASSUME LeaseAssumption, Basic, alive, alive', lease # 0, ~InFlight, Next
  PROVE  ~InFlight'
<1>p. pc \in [Threads -> Places] /\ Clients \subseteq Threads
  BY DEF Basic, TypeOK, Threads
<1>n. NoStart.at # "put"
  BY DEF NoStart
<1>1. ASSUME NEW t \in Threads,
             \/ t \in Clients /\ (CheckWork(t) \/ SetLease(t) \/ AwaitClose(t) \/ Release(t) \/ ClientDies(t))
             \/ ProbeCheck(t) \/ ProbePut(t) \/ ProbeReturns(t)
      PROVE  ~InFlight'
  <2>1. /\ UNCHANGED start
        /\ \/ Answer(t) \/ Go(t, "checked") \/ Go(t, "probe") \/ Go(t, "probing")
           \/ Go(t, "held") \/ Go(t, "gone")
    BY <1>1 DEF CheckWork, SetLease, AwaitClose, Release, ClientDies, ProbeCheck, ProbePut,
       ProbeReturns
  <2>2. \A u \in Threads : pc'[u] # "probeput"
    BY <2>1, <1>p DEF Answer, Go, InFlight
  <2> QED BY <2>1, <2>2 DEF InFlight
<1>2. CASE (\E e \in Execs : StartCheck(e)) \/ StartCreate \/ Submit \/ SubmitPut
  <2>1. UNCHANGED pc
    BY <1>2 DEF StartCheck, StartCreate, Submit, SubmitPut, requests
  <2>2. start'.at # "put"
    <3>1. start \in [e : 0..NExec, at : {"none", "create", "submit", "put"}]
      BY DEF Basic, TypeOK
    <3> QED BY <1>2, <1>n, <3>1 DEF StartCheck, StartCreate, Submit, SubmitPut
  <2> QED BY <2>1, <2>2 DEF InFlight
<1>3. CASE \/ Take \/ RunClose \/ Skip \/ Connect \/ ConnectFails \/ ExecutionEnds
           \/ Disconnect \/ ProbeSend \/ KernelAnswers \/ ProbeObserve \/ ProbeRecord
  <2>1. UNCHANGED <<pc, start>>
    BY <1>3 DEF Take, RunClose, Skip, Connect, ConnectFails, ExecutionEnds, Disconnect,
       ProbeSend, KernelAnswers, ProbeObserve, ProbeRecord, requests
  <2> QED BY <2>1 DEF InFlight
<1>4. CASE Crash \/ Restart
  BY <1>4 DEF Crash, Restart
<1> QED
  BY <1>1, <1>2, <1>3, <1>4, <1>p DEF Next

\* A quiet worker stays quiet under a lease.
LEMMA QuietKept ==
  ASSUME Basic, alive, alive', lease # 0, ~InFlight, Quiet, Next
  PROVE  Quiet'
<1> USE DEF worker, kernel, Quiet
<1>1. ASSUME NEW t \in Threads,
             \/ t \in Clients /\ (CheckWork(t) \/ SetLease(t) \/ AwaitClose(t) \/ Release(t) \/ ClientDies(t))
             \/ ProbeCheck(t) \/ ProbePut(t) \/ ProbeReturns(t)
      PROVE  Quiet'
  <2>1. UNCHANGED <<queue, item, at, link>>
    BY <1>1 DEF CheckWork, SetLease, AwaitClose, Release, ClientDies, ProbeCheck, ProbePut,
       ProbeReturns, InFlight
  <2> QED BY <2>1
<1>2. CASE (\E e \in Execs : StartCheck(e)) \/ StartCreate \/ Submit \/ SubmitPut
  BY <1>2 DEF StartCheck, StartCreate, Submit, SubmitPut, InFlight
<1>3. CASE \/ Take \/ RunClose \/ Skip \/ Connect \/ ConnectFails \/ ExecutionEnds
           \/ Disconnect \/ ProbeSend \/ KernelAnswers \/ ProbeObserve \/ ProbeRecord
  BY <1>3 DEF Take, RunClose, Skip, Connect, ConnectFails, ExecutionEnds, Disconnect,
       ProbeSend, KernelAnswers, ProbeObserve, ProbeRecord
<1>4. CASE Crash \/ Restart
  BY <1>4 DEF Crash, Restart
<1> QED
  BY <1>1, <1>2, <1>3, <1>4 DEF Next, Threads

\* The worker finishes an item while the close request of c is on its way.
LEMMA ClosingFinish ==
  ASSUME Basic, NEW c \in Clients, pc[c] = "closing", Position(c), loc'[c] = loc[c],
         at # "idle", Finish, UNCHANGED queue, InHand(c) => link' = 0
  PROVE  Position(c)'
<1>1. item' = NoItem /\ at' = "idle" /\ done \subseteq done'
      /\ \A x \in done' : x \in done \/ (item.kind = "close" /\ x = item.id)
  BY FinishDone DEF Finish
<1>2. item \in Items /\ NoItem # CloseOf(c)
  BY DEF Basic, TypeOK, Items, NoItem, CloseOf
<1>3. CASE InHand(c)
  <2>1. item.kind = "close" /\ item.id = loc[c].req /\ queue = <<>>
    BY <1>3 DEF InHand, CloseOf
  <2>2. loc[c].req \in done'
    BY <2>1 DEF Finish
  <2> QED BY <1>1, <1>3, <2>1, <2>2 DEF Position, Closed, Quiet
<1>4. CASE Last(c)
  <2>1. item # CloseOf(c) /\ loc[c].req \notin done
    BY <1>4 DEF Last
  <2>2. loc[c].req \notin done'
    BY <1>1, <1>2, <2>1 DEF Items, CloseOf
  <2>3. CloseOf(c)' = CloseOf(c)
    BY DEF CloseOf
  <2> QED BY <1>1, <1>2, <1>4, <2>2, <2>3 DEF Position, Last, CloseOf
<1> QED BY <1>3, <1>4 DEF Position, Closed, Quiet

\* Behind a clean close request the worker works its way to it, and then has
\* nothing left.
LEMMA ClosingKept ==
  ASSUME LeaseAssumption, Basic, Tokens, alive, alive', lease # 0, ~InFlight, Next,
         NEW c \in Clients, pc[c] = "closing", pc'[c] = "closing", loc'[c] = loc[c],
         Position(c)
  PROVE  Position(c)'
<1> USE DEF worker, kernel
<1>c. CloseOf(c)' = CloseOf(c)
  BY DEF CloseOf
<1>u. ASSUME UNCHANGED <<queue, item, at, link>>, loc[c].req \in done' <=> loc[c].req \in done
      PROVE  Position(c)'
  BY <1>u, <1>c DEF Position, Closed, InHand, Last, Quiet, CloseOf
<1>1. ASSUME NEW t \in Threads,
             \/ t \in Clients /\ (CheckWork(t) \/ SetLease(t) \/ AwaitClose(t) \/ Release(t) \/ ClientDies(t))
             \/ ProbeCheck(t) \/ ProbePut(t) \/ ProbeReturns(t)
      PROVE  Position(c)'
  <2>1. UNCHANGED <<queue, item, at, link>>
    BY <1>1 DEF CheckWork, SetLease, AwaitClose, Release, ClientDies, ProbeCheck, ProbePut,
       ProbeReturns, InFlight
  <2>2. loc[c].req \in done' <=> loc[c].req \in done
    <3>1. CASE UNCHANGED done
      BY <3>1
    <3>2. CASE t \in Clients /\ AwaitClose(t)
      <4>1. done' = done \ {loc[t].req} /\ (Go(t, "held") \/ Answer(t))
        BY <3>2 DEF AwaitClose
      <4>2. t # c
        BY <4>1 DEF Go, Answer, Basic, TypeOK, Threads
      <4>3. loc[t].req # loc[c].req
        BY <4>2, <3>2 DEF Tokens, Granted
      <4> QED BY <4>1, <4>3
    <3> QED BY <1>1, <3>1, <3>2 DEF CheckWork, SetLease, Release, ClientDies, ProbeCheck,
               ProbePut, ProbeReturns
  <2> QED BY <2>1, <2>2, <1>u
<1>2. CASE (\E e \in Execs : StartCheck(e)) \/ StartCreate \/ Submit \/ SubmitPut
  <2>1. UNCHANGED <<queue, item, at, link, done>>
    BY <1>2 DEF StartCheck, StartCreate, Submit, SubmitPut, InFlight
  <2> QED BY <2>1, <1>u
<1>3. CASE Take
  <2>1. /\ item' = queue[1] /\ Len(queue) \in Nat \ {0}
        /\ queue' \in Seq(Items) /\ Len(queue') = Len(queue) - 1
        /\ \A i \in 1..Len(queue') : queue'[i] = queue[i + 1]
    BY <1>3, TakeQueue DEF Basic, TypeOK, Items
  <2>2. at = "idle" /\ at' = "begin" /\ queue # <<>> /\ UNCHANGED done
    BY <1>3 DEF Take
  <2>3. Last(c)
    BY <2>2 DEF Position, Closed, InHand, Quiet
  <2>4. \A i \in 1..Len(queue) : queue[i] = CloseOf(c) <=> i = Len(queue)
    BY <2>3 DEF Last
  <2>5. CASE Len(queue) = 1
    <3>1. item' = CloseOf(c) /\ queue' = <<>>
      BY <2>1, <2>4, <2>5
    <3> QED BY <3>1, <2>2, <2>3, <1>c DEF Position, InHand, Last, CloseOf
  <2>6. CASE Len(queue) # 1
    <3>1. item' # CloseOf(c) /\ queue' # <<>>
      BY <2>1, <2>4, <2>6
    <3>2. \A i \in 1..Len(queue') : queue'[i] = CloseOf(c) <=> i = Len(queue')
      BY <2>1, <2>4
    <3> QED BY <3>1, <3>2, <2>2, <2>3, <1>c DEF Position, Last, CloseOf
  <2> QED BY <2>5, <2>6
<1>4. CASE RunClose
  BY <1>4, ClosingFinish DEF RunClose, Drop
<1>5. CASE Skip \/ ConnectFails \/ ExecutionEnds
  <2>1. at # "idle" /\ Finish /\ UNCHANGED queue
    BY <1>5 DEF Skip, ConnectFails, ExecutionEnds
  <2>2. ~InHand(c)
    BY <1>5 DEF Skip, ConnectFails, ExecutionEnds, InHand, CloseOf
  <2> QED BY <2>1, <2>2, ClosingFinish
<1>6. CASE Disconnect \/ ProbeRecord
  <2>1. at \in {"run", "observe"} /\ Finish /\ UNCHANGED queue
    BY <1>6 DEF Disconnect, ProbeRecord
  <2>2. ~InHand(c)
    BY <2>1 DEF InHand
  <2> QED BY <2>1, <2>2, ClosingFinish
<1>7. CASE Connect \/ ProbeSend \/ KernelAnswers \/ ProbeObserve
  <2>1. UNCHANGED <<queue, item, done>>
    BY <1>7 DEF Connect, ProbeSend, KernelAnswers, ProbeObserve
  <2>2. CASE KernelAnswers
    BY <2>1, <2>2, <1>u DEF KernelAnswers
  <2>3. CASE Connect \/ ProbeSend \/ ProbeObserve
    <3>1. Last(c)
      BY <2>3 DEF Position, Closed, InHand, Quiet, Connect, ProbeSend, ProbeObserve, CloseOf
    <3> QED BY <3>1, <2>1, <1>c DEF Position, Last, CloseOf
  <2> QED BY <1>7, <2>2, <2>3
<1>8. CASE Crash \/ Restart
  BY <1>8 DEF Crash, Restart
<1> QED
  BY <1>1, <1>2, <1>3, <1>4, <1>5, <1>6, <1>7, <1>8 DEF Next, Threads

\* A command that has its lease cleanly has the kernel for itself, and one
\* that waits for it cleanly will have.
LEMMA AloneStep ==
  ASSUME LeaseAssumption, Basic, Stopped, Tokens, OwnedKept, Alone, Next
  PROVE  Alone'
<1> DEFINE AloneOf(c) ==
      /\ pc[c] \in {"closing", "held"} => ~InFlight
      /\ pc[c] = "held" => Quiet
      /\ pc[c] = "closing" => Position(c)
<1> SUFFICES ASSUME NEW c \in Clients, Owned(c)', loc'[c].clean
             PROVE  AloneOf(c)'
  BY DEF Alone, Position
<1>p. pc \in [Threads -> Places] /\ c \in Threads /\ epoch \in Nat /\ loc[c].epoch \in Nat
  BY DEF Basic, TypeOK, Threads
<1>e. alive /\ alive' /\ epoch' = epoch
  <2>1. ~Crash
    BY DEF Crash, Owned
  <2>2. ~Restart
    BY <1>p DEF Restart, Owned, requests, Tokens
  <2> QED BY <2>1, <2>2, <1>p DEF Owned, Next, CheckWork, SetLease, AwaitClose, Release,
     ClientDies, ProbeCheck, ProbePut, ProbeReturns, StartCheck, StartCreate, Submit, SubmitPut,
     Take, RunClose, Skip, Connect, ConnectFails, ExecutionEnds, Disconnect, ProbeSend,
     KernelAnswers, ProbeObserve, ProbeRecord, process, Stopped
<1>1. CASE SetLease(c) /\ lease = 0
  <2>0. ~InFlight
    <3>1. loc'[c] = [lease |-> ids + 1, req |-> ids + 1, epoch |-> epoch, clean |-> ~InFlight]
      BY <1>1, LeaseSet, Zenon
    <3> SUFFICES ASSUME InFlight PROVE FALSE
      OBVIOUS
    <3>2. (~InFlight) = FALSE
      OBVIOUS
    <3>3. loc'[c] = [lease |-> ids + 1, req |-> ids + 1, epoch |-> epoch, clean |-> FALSE]
      BY <3>1, <3>2, Zenon
    <3> QED BY <3>3
  <2>1. /\ loc'[c].req = ids + 1 /\ ids \in Nat
        /\ pc'[c] = IF hasWorker THEN "closing" ELSE "held"
        /\ UNCHANGED <<start, item, at, link, done>>
        /\ IF hasWorker THEN Put("close", ids + 1) ELSE UNCHANGED queue
    BY <1>1, LeaseSet DEF kernel
  <2>2. ~InFlight'
    <3>1. \A t \in Threads : pc'[t] = "probeput" => pc[t] = "probeput"
      BY <1>1, <1>p, <2>1 DEF SetLease
    <3> QED BY <2>0, <2>1, <3>1 DEF InFlight
  <2>3. CASE ~hasWorker
    <3>1. Quiet'
      BY <2>1, <2>3 DEF Basic, TypeOK, Working, Quiet
    <3> QED BY <2>1, <2>2, <2>3, <3>1
  <2>4. CASE hasWorker
    <3>0. queue \in Seq(Items) /\ Len(queue) \in Nat /\ "close" \in Kinds /\ ids + 1 \in Nat
      BY <2>1 DEF Basic, TypeOK, Items, Kinds
    <3>1. /\ Len(queue') = Len(queue) + 1 /\ queue' \in Seq(Items)
          /\ queue'[Len(queue) + 1] = [kind |-> "close", id |-> ids + 1]
          /\ \A i \in 1..Len(queue) : queue'[i] = queue[i]
      BY <3>0, <2>1, <2>4, PutQueue
    <3>2. CloseOf(c)' = [kind |-> "close", id |-> ids + 1]
      BY <2>1 DEF CloseOf
    <3>3. /\ item # [kind |-> "close", id |-> ids + 1] /\ ids + 1 \notin done
          /\ \A i \in 1..Len(queue) : queue[i] # [kind |-> "close", id |-> ids + 1]
      BY <2>1 DEF Basic, Working, Numbered
    <3>4. \A i \in 1..Len(queue') :
            queue'[i] = [kind |-> "close", id |-> ids + 1] <=> i = Len(queue')
      BY <3>0, <3>1, <3>3
    <3>5. queue' # <<>>
      BY <3>0, <3>1
    <3>6. Last(c)'
      BY <2>1, <3>2, <3>3, <3>4, <3>5 DEF Last
    <3> QED BY <2>1, <2>2, <2>4, <3>6 DEF Position
  <2> QED BY <2>3, <2>4
<1>2. CASE ~(SetLease(c) /\ lease = 0)
  <2>1. /\ loc'[c] = loc[c] /\ pc[c] \in Granted
        /\ pc'[c] = "closing" => pc[c] = "closing"
        /\ pc'[c] = "held" => pc[c] \in {"closing", "held"}
        /\ pc'[c] = "held" /\ pc[c] = "closing" => loc[c].req \in done
    <3>1. ASSUME NEW t \in Threads, t # c,
                 \/ t \in Clients /\ (CheckWork(t) \/ SetLease(t) \/ AwaitClose(t) \/ Release(t) \/ ClientDies(t))
                 \/ ProbeCheck(t) \/ ProbePut(t) \/ ProbeReturns(t)
          PROVE  pc'[c] = pc[c] /\ loc'[c] = loc[c]
      <4>1. loc \in [Threads -> [lease : 0..MaxIds, req : 0..MaxIds, epoch : 0..MaxFaults,
                                 clean : BOOLEAN]]
        BY DEF Basic, TypeOK
      <4> QED BY <3>1, <1>p, <4>1 DEF CheckWork, SetLease, AwaitClose, Release, ClientDies,
                 ProbeCheck, ProbePut, ProbeReturns, Go, Answer
    <3>2. ASSUME \/ CheckWork(c) \/ SetLease(c) \/ AwaitClose(c) \/ Release(c) \/ ClientDies(c)
                 \/ ProbeCheck(c) \/ ProbePut(c) \/ ProbeReturns(c)
          PROVE  Moved /\ (pc'[c] = "held" /\ pc[c] = "closing" => loc[c].req \in done)
      <4>1. Moved
        BY <3>2, <1>2, <1>p, RequestMoves
      <4>2. AwaitClose(c) \/ pc[c] # "closing"
        BY <3>2, <1>p DEF CheckWork, SetLease, Release, ClientDies, ProbeCheck, ProbePut,
                          ProbeReturns
      <4>3. AwaitClose(c) => pc'[c] = "idle" \/ loc[c].req \in done
        BY <1>p DEF AwaitClose, Answer
      <4> QED BY <4>1, <4>2, <4>3
    <3>3. CASE UNCHANGED <<pc, loc>>
      BY <3>3 DEF Owned
    <3>4. \/ UNCHANGED <<pc, loc>>
          \/ CheckWork(c) \/ SetLease(c) \/ AwaitClose(c) \/ Release(c) \/ ClientDies(c)
          \/ ProbeCheck(c) \/ ProbePut(c) \/ ProbeReturns(c)
          \/ \E t \in Threads : t # c /\
               \/ t \in Clients /\ (CheckWork(t) \/ SetLease(t) \/ AwaitClose(t) \/ Release(t) \/ ClientDies(t))
               \/ ProbeCheck(t) \/ ProbePut(t) \/ ProbeReturns(t)
      BY <1>e DEF Next, StartCheck, StartCreate, Submit, SubmitPut, Take, RunClose, Skip, Connect,
         ConnectFails, ExecutionEnds, Disconnect, ProbeSend, KernelAnswers, ProbeObserve,
         ProbeRecord, Crash, Restart, requests, Threads
    <3> QED BY <3>1, <3>2, <3>3, <3>4 DEF Moved, Owned
  <2>2. Owned(c) /\ AloneOf(c)
    BY <2>1, <1>e DEF Owned, Alone, Position
  <2>3. lease # 0
    BY <2>1, <2>2 DEF OwnedKept, Tokens
  <2>4. pc'[c] \in {"closing", "held"} => ~InFlight'
    BY <2>1, <2>2, <2>3, <1>e, FlightNone
  <2>5. pc'[c] = "held" => Quiet'
    <3>1. pc'[c] = "held" => Quiet
      BY <2>1, <2>2 DEF Position, Closed, InHand, Last
    <3> QED BY <3>1, <2>1, <2>2, <2>3, <1>e, QuietKept
  <2>6. pc'[c] = "closing" => Position(c)'
    BY <2>1, <2>2, <2>3, <1>e, ClosingKept
  <2> QED BY <2>4, <2>5, <2>6
<1> QED BY <1>1, <1>2

-----------------------------------------------------------------------------
(***************************************************************************)
(* Readiness.                                                              *)
(***************************************************************************)

\* What a probe has observed, and the readiness recorded from it, belong to
\* the connection that the worker holds.
LEMMA ProbingStep ==
  ASSUME LeaseAssumption, Basic, Probing, ReadyIsCurrent, Next
  PROVE  Probing' /\ ReadyIsCurrent'
<1> USE DEF kernel, process
<1>c. conn \in [id : 0..MaxIds, open : BOOLEAN, ready : BOOLEAN]
  BY DEF Basic, TypeOK
<1>d. Drop => ~(conn'.open /\ conn'.ready) \/ ~alive
  BY <1>c DEF Drop, ReadyIsCurrent
<1>f. Finish => at' = "idle"
  BY DEF Finish
<1>k. ASSUME UNCHANGED <<alive, link, conn>>, asked \subseteq asked', msgs \subseteq msgs'
      PROVE  ReadyIsCurrent'
  BY <1>k DEF ReadyIsCurrent
<1>g. ASSUME msgs' \in {{}, msgs} PROVE msgs' \subseteq [p : Nat, part : {"reply", "wrong", "idle"}]
  BY <1>g DEF Probing
<1>i. at' = "idle" /\ msgs' \in {{}, msgs} => Probing'
  BY <1>g DEF Probing
<1>1. ASSUME NEW t \in Threads,
             \/ t \in Clients /\ (CheckWork(t) \/ SetLease(t) \/ AwaitClose(t) \/ Release(t) \/ ClientDies(t))
             \/ ProbeCheck(t) \/ ProbePut(t) \/ ProbeReturns(t)
      PROVE  Probing' /\ ReadyIsCurrent'
  <2>1. UNCHANGED <<process, kernel, item, at>>
    BY <1>1 DEF CheckWork, SetLease, AwaitClose, Release, ClientDies, ProbeCheck, ProbePut,
       ProbeReturns, worker
  <2> QED BY <2>1 DEF Probing, ReadyIsCurrent
<1>2. CASE (\E e \in Execs : StartCheck(e)) \/ StartCreate \/ Submit \/ SubmitPut
  <2>1. UNCHANGED <<process, kernel, item, at>>
    BY <1>2 DEF StartCheck, StartCreate, Submit, SubmitPut, worker
  <2> QED BY <2>1 DEF Probing, ReadyIsCurrent
<1>3. CASE Take
  BY <1>3 DEF Take, Probing, ReadyIsCurrent
<1>4. CASE RunClose \/ Disconnect
  <2>1. Finish /\ Drop /\ alive' = alive /\ msgs' = {}
    BY <1>4 DEF RunClose, Disconnect, Drop
  <2> QED BY <2>1, <1>d, <1>f, <1>i DEF ReadyIsCurrent
<1>5. CASE Skip \/ ConnectFails \/ ExecutionEnds
  BY <1>5, <1>f, <1>i, <1>k DEF Skip, ConnectFails, ExecutionEnds
<1>6. CASE Connect
  <2>1. /\ at' = "run" /\ proof' = {} /\ alive' = alive
        /\ msgs' \subseteq [p : Nat, part : {"reply", "wrong", "idle"}]
    BY <1>6, <1>g DEF Connect
  <2>2. CASE link = 0
    BY <1>6, <2>1, <2>2 DEF Connect, Probing, ReadyIsCurrent
  <2>3. CASE link # 0
    BY <1>6, <2>1, <2>3, <1>k DEF Connect, Probing
  <2> QED BY <2>2, <2>3
<1>7. CASE ProbeSend
  BY <1>7, <1>k DEF ProbeSend, Probing
<1>8. CASE KernelAnswers
  <2>1. /\ UNCHANGED <<alive, link, conn, item, at, proof, asked>> /\ msgs \subseteq msgs'
    BY <1>8 DEF KernelAnswers, worker
  <2>2. msgs' \subseteq [p : Nat, part : {"reply", "wrong", "idle"}]
    BY <1>8 DEF KernelAnswers, Probing, Basic, TypeOK
  <2> QED BY <2>1, <2>2, <1>k DEF Probing
<1>9. CASE ProbeObserve
  <2>1. UNCHANGED <<alive, link, conn, item, at, asked, msgs>> /\ at = "observe"
    BY <1>9 DEF ProbeObserve, worker
  <2>2. PICK m \in msgs : m.p = item.id /\ proof' = proof \cup {m.part}
    BY <1>9 DEF ProbeObserve
  <2>3. [p |-> item.id, part |-> m.part] \in msgs
    <3>1. m \in [p : Nat, part : {"reply", "wrong", "idle"}]
      BY <2>2 DEF Probing
    <3>2. m = [p |-> m.p, part |-> m.part]
      BY <3>1
    <3> QED BY <2>2, <3>2
  <2> QED BY <2>1, <2>2, <2>3, <1>k DEF Probing
<1>10. CASE ProbeRecord
  <2>1. UNCHANGED <<alive, link, asked, msgs, proof>> /\ at = "observe" /\ Finish
    BY <1>10 DEF ProbeRecord
  <2>2. CASE conn' = conn
    BY <2>1, <2>2, <1>f, <1>i, <1>k
  <2>3. CASE conn.id = link /\ conn' = [conn EXCEPT !.ready = Ready]
    <3>1. conn'.id = link /\ (conn'.ready => Ready)
      BY <1>c, <2>3
    <3>2. Ready => {[p |-> item.id, part |-> "reply"], [p |-> item.id, part |-> "idle"]} \subseteq msgs
      BY <2>1 DEF Ready, Probing
    <3>3. item.id \in asked
      BY <2>1 DEF Probing
    <3> QED BY <3>1, <3>2, <3>3, <2>1, <1>f, <1>i DEF ReadyIsCurrent
  <2> QED BY <2>2, <2>3, <1>10 DEF ProbeRecord
<1>11. CASE Crash \/ Restart
  <2>1. ~alive' \/ ~conn'.open
    BY <1>11, <1>c DEF Crash, Restart
  <2>2. ReadyIsCurrent'
    BY <2>1 DEF ReadyIsCurrent
  <2>3. Probing'
    BY <1>11, <1>i DEF Crash, Restart, Probing
  <2> QED BY <2>2, <2>3
<1> QED
  BY <1>1, <1>2, <1>3, <1>4, <1>5, <1>6, <1>7, <1>8, <1>9, <1>10, <1>11 DEF Next, Threads

-----------------------------------------------------------------------------
\* An idle controller satisfies the invariant.
LEMMA InitLease == LeaseAssumption /\ Init => LeaseInductive
<1> SUFFICES ASSUME LeaseAssumption, Init PROVE LeaseInductive
  OBVIOUS
<1> USE DEF Init
<1>1. TypeOK
  <2>1. /\ NoLoc \in [lease : 0..MaxIds, req : 0..MaxIds, epoch : 0..MaxFaults, clean : BOOLEAN]
        /\ NoStart \in [e : 0..NExec, at : {"none", "create", "submit", "put"}]
        /\ NoItem \in [kind : Kinds, id : Nat] /\ "idle" \in Places
        /\ conn \in [id : 0..MaxIds, open : BOOLEAN, ready : BOOLEAN]
    BY DEF LeaseAssumption, NoLoc, NoStart, NoItem, Places, Kinds
  <2>2. alive \in BOOLEAN /\ hasWorker \in BOOLEAN
    BY Zenon
  <2>3. /\ epoch \in 0..MaxFaults /\ lease \in 0..MaxIds /\ link \in 0..MaxIds
        /\ queue \in Seq([kind : Kinds, id : Nat])
        /\ rows \in [Execs -> {"none", "queued", "running", "done"}]
    BY DEF LeaseAssumption
  <2>4. /\ pc \in [Threads -> Places]
        /\ loc \in [Threads -> [lease : 0..MaxIds, req : 0..MaxIds, epoch : 0..MaxFaults,
                                clean : BOOLEAN]]
    BY <2>1
  <2> QED BY <2>1, <2>2, <2>3, <2>4 DEF TypeOK
<1>2. Counted /\ Working /\ Stopped
  BY DEF LeaseAssumption, Counted, Working, Numbered, NoItem, Stopped
<1>3. Tokens /\ OwnedKept /\ Alone
  BY DEF Tokens, OwnedKept, Alone, Owned, Granted, NoLoc, Threads
<1>4. Probing /\ ReadyIsCurrent
  BY DEF Probing, ReadyIsCurrent
<1> QED BY <1>1, <1>2, <1>3, <1>4 DEF LeaseInductive, Basic

\* Every step of a request, a start, the worker, the kernel and the process
\* keeps the invariant.
LEMMA LeaseStep == LeaseAssumption /\ LeaseInductive /\ [Next]_vars => LeaseInductive'
<1> SUFFICES ASSUME LeaseAssumption, LeaseInductive, [Next]_vars PROVE LeaseInductive'
  OBVIOUS
<1>1. CASE Next
  BY <1>1, BasicStep, TokensStep, OwnedStep, AloneStep, ProbingStep DEF LeaseInductive
<1>2. CASE UNCHANGED vars
  <2> USE <1>2 DEF vars, LeaseInductive
  <2>1. Basic'
    BY DEF Basic, TypeOK, Counted, Working
  <2>2. Stopped' /\ Tokens' /\ OwnedKept'
    BY DEF Stopped, Tokens, OwnedKept, Owned
  <2>3. Alone'
    BY DEF Alone, Owned, InFlight, Quiet, Closed, InHand, Last, CloseOf
  <2>4. Probing' /\ ReadyIsCurrent'
    BY DEF Probing, ReadyIsCurrent
  <2> QED BY <2>1, <2>2, <2>3, <2>4
<1> QED BY <1>1, <1>2

\* acquire_session_lease and release_session_lease: whatever requests race,
\* time out or die, the lease of a command that was granted one stays its own
\* until it gives it back or the controller that granted it is gone.
THEOREM LeaseNeverStolen == Spec => []LeaseInv
<1>1. LeaseInductive => LeaseInv
  BY DEF LeaseInductive, Basic, OwnedKept, Owned, Granted, LeaseInv, LeaseKept
<1> QED BY LeaseAssumption, InitLease, LeaseStep, <1>1, PTL DEF Spec

\* acquire_session_lease with close_transport: a command whose request met no
\* other between its check and the queue has the kernel for itself.
THEOREM LeaseIsExclusive == Spec => []CleanExclusive
<1>1. LeaseInductive => CleanExclusive
  BY DEF LeaseInductive, Alone, Owned, Granted, Quiet, CleanExclusive
<1> QED BY LeaseAssumption, InitLease, LeaseStep, <1>1, PTL DEF Spec

\* ReadinessProof.observe and record_kernel_probe: the readiness that a status
\* reports was proved on the connection that the worker holds.
THEOREM ReadinessIsCurrent == Spec => []ReadyIsCurrent
<1>1. LeaseInductive => ReadyIsCurrent
  BY DEF LeaseInductive
<1> QED BY LeaseAssumption, InitLease, LeaseStep, <1>1, PTL DEF Spec
==============================================================================
