------------------------- MODULE SessionRegistryProofs -------------------------
(***************************************************************************)
(* While commands do not overlap and the worker is not overtaken (~dirty), *)
(* the registry forgets no VM but those an error took from their command   *)
(* or row (excused), keeps every other finished allocation alive and       *)
(* records no kernel of another VM: for any number of processes,           *)
(* assignments and commands, and whatever fails.                           *)
(* Tidy is the inductive form.  Commands then run one at a time, and what  *)
(* the running one holds agrees with the rows and the assignments; the     *)
(* lease keeps the worker's read of a row from surviving the row.          *)
(***************************************************************************)
EXTENDS SessionRegistry, TLAPS

Places == {"idle", "assign", "preflight", "record", "spawn", "pid", "undo", "undelete", "ready",
           "lease", "kill", "unassign", "delete", "work", "sync", "prune"}
Using == {"ready", "lease", "kill", "unassign", "delete", "work", "sync", "prune"}

\* An allocation or a release that is under way has no daemon to show for.
Between == {"preflight", "record", "spawn", "undo", "undelete", "unassign", "delete", "prune"}

\* What a command may hold and what is known of a daemon.
Loc == [cmd : Durable \cup Retained \cup {"none"}, row : Row, ep : 0..MaxVMs]
Watch == [at : {"none", "check", "ping", "exited", "ended"},
          store : {"none", "db", "json"}, errs : 0..1]

\* Well-formed states.
Typed == TypeOK /\ pc \in [Procs -> Places]

\* A row is about one VM.
OneVM(r) ==
  /\ r.ep = 0 => r = NoRow
  /\ r.pid \in {0, r.ep} /\ r.kernel \in {0, r.ep}

\* What a command holds, at each of its places.
Held(p) ==
  /\ pc[p] = "idle" => loc[p] = NoLoc
  /\ OneVM(loc[p].row) /\ loc[p].row.ep = loc[p].ep
  /\ pc[p] = "assign" => loc[p].ep = 0
  /\ pc[p] \notin {"idle", "assign"} => loc[p].ep \in Endpoints
  /\ pc[p] \in {"ready", "lease", "undelete"} => IsDurable(p)
  /\ pc[p] \in {"work", "sync", "prune"} => ~IsDurable(p)
  /\ pc[p] \in {"undelete", "delete", "prune"} => loc[p].ep \notin vms \ excused
  /\ pc[p] # "idle" /\ IsDurable(p) =>
       /\ imported \/ json = NoRow
       /\ pc[p] \in {"assign", "preflight", "record"} => db = NoRow
       /\ pc[p] \in {"undo", "undelete"} => db.ep \in {0, loc[p].ep}
       /\ pc[p] \in {"spawn", "pid"} \cup Using => db.ep = loc[p].ep
       /\ pc[p] \in {"kill", "unassign", "delete"} => lease = p
  /\ pc[p] # "idle" /\ ~IsDurable(p) /\ pc[p] \in {"spawn", "pid"} \cup Using =>
       json.ep = loc[p].ep

\* One command at a time.
OneCommand == \A p, q \in Procs : pc[p] # "idle" /\ pc[q] # "idle" => p = q

\* The daemon of a VM that is neither being allocated nor being released
\* runs and finds its row, unless it ended by itself.
Alive(e) == daemon[e].at = "ended" \/ (Running(e) /\ RowOf(e).ep = e)
Kept ==
  \A e \in vms \ excused :
    /\ db.ep = e \/ json.ep = e
    /\ \A p \in Procs : loc[p].ep = e => pc[p] \notin Between
    => Alive(e)

\* No VM is without a row or a command.
Known == \A e \in vms \ excused : json.ep = e \/ db.ep = e \/ \E p \in Procs : loc[p].ep = e

\* The worker is on its way to the VM of the row, and the lease keeps it off.
WorkerAgrees ==
  /\ worker.at \in {"read", "connected"} => worker.ep = db.ep /\ db # NoRow
  /\ lease # "free" => worker.at \in {"idle", "checked"}

Tidy ==
  /\ OneCommand /\ OneVM(json) /\ OneVM(db)
  /\ \A p \in Procs : Held(p)
  /\ Known /\ Kept /\ WorkerAgrees

RegistryProof == Typed /\ (~dirty => Tidy)

-----------------------------------------------------------------------------
(***************************************************************************)
(* Well-formed states.                                                     *)
(***************************************************************************)
\* The initial states: nothing assigned, recorded or running.
LEMMA RegistryInit == Init => RegistryProof
<1> SUFFICES ASSUME Init PROVE RegistryProof
  OBVIOUS
<1> USE RegistryAssumption DEF Init, NoRow, NoDaemon, NoLoc, Quiet
<1>1. TypeOK
  <2>1. json \in Row /\ db \in Row
    BY DEF Row
  <2>2. [cmd |-> "none", row |-> NoRow, ep |-> 0] \in Loc
    BY DEF Loc, Row
  <2>3. NoDaemon \in Watch
    BY DEF Watch
  <2>4. loc \in [Procs -> Loc] /\ daemon \in [Endpoints -> Watch]
    BY <2>2, <2>3
  <2> QED
    <3>1. daemon \in [Endpoints -> [at : {"none", "check", "ping", "exited", "ended"},
                                    store : {"none", "db", "json"}, errs : 0..1]]
      BY <2>4 DEF Watch
    <3>2. loc \in [Procs -> [cmd : Durable \cup Retained \cup {"none"}, row : Row, ep : 0..MaxVMs]]
      BY <2>4 DEF Loc
    <3>3. worker \in [at : {"idle", "checked", "read", "connected"}, ep : 0..MaxVMs]
      OBVIOUS
    <3> QED
      BY <2>1, <3>1, <3>2, <3>3 DEF TypeOK
<1>2. pc \in [Procs -> Places]
  BY DEF Places
<1>3. OneCommand /\ Known /\ Kept /\ WorkerAgrees
  BY DEF OneCommand, Known, Kept, WorkerAgrees
<1>4. OneVM(json) /\ OneVM(db)
  BY DEF OneVM
<1>5. ASSUME NEW p \in Procs PROVE Held(p)
  BY DEF Held, OneVM
<1> QED
  BY <1>1, <1>2, <1>3, <1>4, <1>5 DEF RegistryProof, Typed, Tidy

\* A command's local state is well formed after an assignment to its parts.
LEMMA LocTyped ==
  ASSUME Typed, NEW p \in Procs, NEW r \in Row, NEW e \in 0..MaxVMs
  PROVE  /\ [loc EXCEPT ![p].ep = e, ![p].row = r] \in [Procs -> Loc]
         /\ [loc EXCEPT ![p].row = r, ![p].ep = e] \in [Procs -> Loc]
         /\ [loc EXCEPT ![p].row.pid = e] \in [Procs -> Loc]
         /\ [loc EXCEPT ![p] = NoLoc] \in [Procs -> Loc]
         /\ [NoRow EXCEPT !.ep = e] \in Row
         /\ [r EXCEPT !.pid = e] \in Row
         /\ [r EXCEPT !.kernel = e] \in Row
<1> USE RegistryAssumption
<1>0. loc \in [Procs -> Loc] /\ NoRow \in Row /\ loc[p].row \in Row
  BY DEF Typed, TypeOK, Loc, Row, NoRow
<1>1. [r EXCEPT !.pid = e] \in Row /\ [r EXCEPT !.kernel = e] \in Row
  BY DEF Row
<1>2. [NoRow EXCEPT !.ep = e] \in Row
  BY <1>0 DEF Row, NoRow
<1>3. [loc[p].row EXCEPT !.pid = e] \in Row
  BY <1>0 DEF Row
<1>4. [loc[p] EXCEPT !.ep = e, !.row = r] \in Loc /\ [loc[p] EXCEPT !.row = r, !.ep = e] \in Loc
  BY <1>0 DEF Loc
<1>5. [loc[p] EXCEPT !.row.pid = e] \in Loc
  BY <1>0, <1>3 DEF Loc
<1>6. NoLoc \in Loc
  BY <1>0 DEF Loc, NoLoc
<1> QED
  BY <1>0, <1>1, <1>2, <1>4, <1>5, <1>6

\* Killing a daemon leaves the others as they are.
LEMMA KilledTyped ==
  ASSUME Typed, NEW e \in 0..MaxVMs
  PROVE  Killed(e) \in [Endpoints -> Watch]
<1>1. daemon \in [Endpoints -> Watch]
  BY DEF Typed, TypeOK, Watch
<1>2. Ended("exited") \in Watch
  BY DEF Watch, Ended, NoDaemon
<1> QED
  BY <1>1, <1>2 DEF Killed

\* The parts that make a state well formed.
LEMMA TypedParts ==
  Typed <=> /\ vms \subseteq Endpoints /\ last \in 0..MaxVMs
            /\ json \in Row /\ db \in Row /\ imported \in BOOLEAN
            /\ daemon \in [Endpoints -> Watch]
            /\ loc \in [Procs -> Loc] /\ pc \in [Procs -> Places]
            /\ lease \in Procs \cup {"free"}
            /\ worker \in [at : {"idle", "checked", "read", "connected"}, ep : 0..MaxVMs]
            /\ excused \subseteq 0..MaxVMs /\ dirty \in BOOLEAN
BY DEF Typed, TypeOK, Watch, Loc

\* The same of the state after a step.
LEMMA TypedPartsNext ==
  Typed' <=> /\ vms' \subseteq Endpoints /\ last' \in 0..MaxVMs
             /\ json' \in Row /\ db' \in Row /\ imported' \in BOOLEAN
             /\ daemon' \in [Endpoints -> Watch]
             /\ loc' \in [Procs -> Loc] /\ pc' \in [Procs -> Places]
             /\ lease' \in Procs \cup {"free"}
             /\ worker' \in [at : {"idle", "checked", "read", "connected"}, ep : 0..MaxVMs]
             /\ excused' \subseteq 0..MaxVMs /\ dirty' \in BOOLEAN
BY DEF Typed, TypeOK, Watch, Loc, Row, Endpoints

\* Each step of an allocation keeps states well formed.
LEMMA AllocateTyped ==
  ASSUME Typed, NEW p \in Procs,
         \/ Assign(p) \/ Preflight(p) \/ Record(p) \/ Spawn(p) \/ SetPid(p)
         \/ Undo(p) \/ UndoDelete(p) \/ Ready(p)
  PROVE  Typed'
<1> USE RegistryAssumption, TypedParts, TypedPartsNext DEF faults, outside, rows
<1>0. loc[p].row \in Row /\ loc[p].ep \in 0..MaxVMs /\ NoRow \in Row /\ json.ep \in 0..MaxVMs
  BY DEF Loc, Row, NoRow
<1>n. [loc EXCEPT ![p] = NoLoc] \in [Procs -> Loc]
  BY <1>0, LocTyped
<1>a. Done(p) => pc' \in [Procs -> Places] /\ loc' \in [Procs -> Loc]
  BY <1>n DEF Done, Places
<1>b. ASSUME NEW place \in Places, Go(p, place)
      PROVE  pc' \in [Procs -> Places] /\ loc' \in [Procs -> Loc]
  BY <1>b DEF Go
<1>c. ASSUME NEW e \in 0..MaxVMs, Excuse(e) PROVE excused' \subseteq 0..MaxVMs
  BY <1>c DEF Excuse
<1>d. Aborts(p) => /\ pc' \in [Procs -> Places] /\ loc' \in [Procs -> Loc]
                   /\ excused' \subseteq 0..MaxVMs
  BY <1>0, <1>a, <1>c DEF Aborts
<1>1. CASE Assign(p)
  <2>1. CASE last < MaxVMs /\ last' = last + 1 /\ vms' = vms \cup {last + 1}
    <3>1. last + 1 \in Endpoints /\ last + 1 \in 0..MaxVMs
      BY <2>1 DEF Endpoints
    <3>2. vms' \subseteq Endpoints
      BY <2>1, <3>1
    <3>3. [loc EXCEPT ![p].ep = last + 1, ![p].row = [NoRow EXCEPT !.ep = last + 1]]
            \in [Procs -> Loc]
      BY <1>0, <3>1, LocTyped
    <3>4. /\ pc' \in [Procs -> Places] /\ loc' \in [Procs -> Loc]
          /\ excused' \subseteq 0..MaxVMs
      BY <1>1, <1>a, <1>c, <2>1, <3>1, <3>3 DEF Assign, Places
    <3> QED
      BY <1>1, <2>1, <3>1, <3>2, <3>4 DEF Assign
  <2> QED
    BY <1>1, <1>a, <2>1 DEF Assign
<1>2. CASE Preflight(p)
  BY <1>2, <1>b, <1>d DEF Preflight, Places
<1>3. CASE Record(p)
  <2>1. json' \in Row /\ db' \in Row
    BY <1>3, <1>0 DEF Record
  <2>2. pc' \in [Procs -> Places] /\ loc' \in [Procs -> Loc] /\ excused' \subseteq 0..MaxVMs
    BY <1>3, <1>0, <1>b, <1>c, <1>d DEF Record, Places
  <2> QED
    BY <1>3, <2>1, <2>2 DEF Record
<1>4. CASE Spawn(p)
  <2>1. Started(p) \in Watch
    BY DEF Started, Watch
  <2>2. [loc EXCEPT ![p].row.pid = loc[p].ep] \in [Procs -> Loc]
    BY <1>0, LocTyped
  <2>3. daemon' \in [Endpoints -> Watch]
    BY <1>4, <2>1 DEF Spawn
  <2>4. pc' \in [Procs -> Places] /\ loc' \in [Procs -> Loc] /\ excused' \subseteq 0..MaxVMs
    BY <1>4, <1>b, <1>d, <2>2 DEF Spawn, Places
  <2> QED
    BY <1>4, <2>3, <2>4 DEF Spawn
<1>5. CASE SetPid(p)
  <2>0. [db EXCEPT !.pid = loc[p].ep] \in Row
    BY <1>0, LocTyped
  <2>1. db' \in Row /\ json' \in Row
    BY <1>5, <1>0, <2>0 DEF SetPid
  <2>2. pc' \in [Procs -> Places] /\ loc' \in [Procs -> Loc]
    BY <1>5, <1>a, <1>b DEF SetPid, Places
  <2> QED
    BY <1>5, <2>1, <2>2 DEF SetPid
<1>6. CASE Undo(p)
  <2>1. vms' \subseteq Endpoints /\ excused' \subseteq 0..MaxVMs
    BY <1>6, <1>0, <1>c DEF Undo
  <2>2. pc' \in [Procs -> Places] /\ loc' \in [Procs -> Loc]
    BY <1>6, <1>a, <1>b DEF Undo, Places
  <2> QED
    BY <1>6, <2>1, <2>2 DEF Undo
<1>7. CASE UndoDelete(p)
  BY <1>7, <1>0, <1>a DEF UndoDelete
<1>8. CASE Ready(p)
  <2>1. db.ep \in 0..MaxVMs
    BY DEF Row
  <2>2. [loc EXCEPT ![p].row = db, ![p].ep = db.ep] \in [Procs -> Loc]
    BY <2>1, LocTyped
  <2>3. CASE loc[p].cmd = "shortrun" /\ db # NoRow
    <3>1. /\ pc' = [pc EXCEPT ![p] = "lease"]
          /\ loc' = [loc EXCEPT ![p].row = db, ![p].ep = db.ep]
      BY <1>8, <2>3 DEF Ready
    <3>2. pc' \in [Procs -> Places] /\ loc' \in [Procs -> Loc]
      BY <2>2, <3>1 DEF Places
    <3> QED
      BY <1>8, <3>2 DEF Ready
  <2>4. CASE ~(loc[p].cmd = "shortrun" /\ db # NoRow)
    BY <1>8, <1>a, <2>4 DEF Ready
  <2> QED
    BY <2>3, <2>4
<1> QED
  BY <1>1, <1>2, <1>3, <1>4, <1>5, <1>6, <1>7, <1>8

\* Each step that uses or releases a session keeps states well formed.
LEMMA UseTyped ==
  ASSUME Typed, NEW p \in Procs,
         \/ Lease(p) \/ Kill(p) \/ Unassign(p) \/ TeardownUnassigns(p) \/ Delete(p)
         \/ WriteBack(p) \/ WriteFails(p) \/ LostExec(p) \/ LostRun(p) \/ LostConsole(p)
         \/ SyncLists(p) \/ SyncPrunes(p) \/ Crash(p)
  PROVE  Typed'
<1> USE RegistryAssumption, TypedParts, TypedPartsNext DEF faults, outside, rows
<1>0. /\ loc[p].row \in Row /\ loc[p].ep \in 0..MaxVMs /\ NoRow \in Row
      /\ json.ep \in 0..MaxVMs /\ json.pid \in 0..MaxVMs
  BY DEF Loc, Row, NoRow
<1>1. loc[p].row.pid \in 0..MaxVMs
  BY <1>0 DEF Row
<1>n. [loc EXCEPT ![p] = NoLoc] \in [Procs -> Loc]
  BY <1>0, LocTyped
<1>a. Done(p) => pc' \in [Procs -> Places] /\ loc' \in [Procs -> Loc]
  BY <1>n DEF Done, Places
<1>b. ASSUME NEW place \in Places, Go(p, place)
      PROVE  pc' \in [Procs -> Places] /\ loc' \in [Procs -> Loc]
  BY <1>b DEF Go
<1>c. ASSUME NEW e \in 0..MaxVMs, daemon' = Killed(e) PROVE daemon' \in [Endpoints -> Watch]
  BY <1>c, KilledTyped
<1>d. ASSUME NEW e \in 0..MaxVMs, Excuse(e) PROVE excused' \subseteq 0..MaxVMs
  BY <1>d DEF Excuse
<1>2. CASE Lease(p)
  BY <1>2, <1>a, <1>b DEF Lease, Places
<1>3. CASE Kill(p)
  BY <1>3, <1>1, <1>b, <1>c DEF Kill, Places
<1>4. CASE Unassign(p)
  <2>1. /\ vms' \subseteq Endpoints /\ lease' \in Procs \cup {"free"}
        /\ excused' \subseteq 0..MaxVMs
    BY <1>4, <1>0, <1>d DEF Unassign
  <2>2. pc' \in [Procs -> Places] /\ loc' \in [Procs -> Loc]
    BY <1>4, <1>a, <1>b DEF Unassign, Places
  <2> QED
    BY <1>4, <2>1, <2>2 DEF Unassign
<1>5. CASE TeardownUnassigns(p)
  <2>1. vms' \subseteq Endpoints /\ excused' \subseteq 0..MaxVMs
    BY <1>5, <1>0, <1>d DEF TeardownUnassigns
  <2>2. pc' \in [Procs -> Places] /\ loc' \in [Procs -> Loc]
    BY <1>5, <1>b DEF TeardownUnassigns, Places
  <2> QED
    BY <1>5, <2>1, <2>2 DEF TeardownUnassigns
<1>6. CASE Delete(p)
  BY <1>6, <1>0, <1>a DEF Delete
<1>7. CASE WriteBack(p)
  <2>1. [loc[p].row EXCEPT !.kernel = loc[p].ep] \in Row
    BY <1>0, LocTyped
  <2>2. json' \in Row /\ excused' \subseteq 0..MaxVMs
    BY <1>7, <1>0, <2>1 DEF WriteBack, Add
  <2>3. pc' \in [Procs -> Places] /\ loc' \in [Procs -> Loc]
    BY <1>7, <1>a, <1>b DEF WriteBack, Places
  <2> QED
    BY <1>7, <2>2, <2>3 DEF WriteBack
<1>8. CASE LostExec(p) \/ SyncPrunes(p)
  BY <1>8, <1>0, <1>a, <1>c, <1>d DEF LostExec, SyncPrunes, PruneSession
<1>9. CASE LostRun(p) \/ LostConsole(p)
  <2>1. daemon' \in [Endpoints -> Watch] /\ excused' \subseteq 0..MaxVMs
    BY <1>9, <1>0, <1>c, <1>d DEF LostRun, LostConsole
  <2>2. pc' \in [Procs -> Places] /\ loc' \in [Procs -> Loc] /\ json' \in Row
    BY <1>9, <1>0, <1>a, <1>b DEF LostRun, LostConsole, Places
  <2> QED
    BY <1>9, <2>1, <2>2 DEF LostRun, LostConsole
<1>10. CASE SyncLists(p) \/ Crash(p) \/ WriteFails(p)
  BY <1>10, <1>0, <1>a, <1>b, <1>d DEF SyncLists, Crash, WriteFails, Places
<1> QED
  BY <1>2, <1>3, <1>4, <1>5, <1>6, <1>7, <1>8, <1>9, <1>10

\* The row a command reads when it starts.
Snapshot(c) == IF c \in Durable THEN db ELSE IF c \in {"new", "run"} THEN NoRow ELSE json

\* A command c starts at a place: one that reads a row goes on if there is one.
BeginAs(p, c, place) ==
  /\ pc[p] = "idle" /\ (c \in Durable => imported \/ json = NoRow)
  /\ pc' = [pc EXCEPT ![p] = place]
  /\ loc' = [loc EXCEPT ![p] =
       IF place = "idle" THEN NoLoc
       ELSE [cmd |-> c, row |-> Snapshot(c), ep |-> Snapshot(c).ep]]
  /\ place \in (IF c \in Durable THEN {"idle", "assign", "ready", "lease"}
                ELSE {"idle", "assign", "sync", "kill", "work"})
  /\ place = "assign" => Snapshot(c) = NoRow
  /\ place \notin {"idle", "assign"} => Snapshot(c) # NoRow

\* Every start is one of these.
LEMMA BeginPlace ==
  ASSUME Typed, NEW p \in Procs, Begin(p)
  PROVE  \E c \in Durable \cup Retained, place \in Places : BeginAs(p, c, place)
<1> DEFINE Place(c) ==
      CASE c \in {"ensure", "keeprun", "shortrun"} -> IF db = NoRow THEN "assign" ELSE "ready"
        [] c = "stop" -> IF db = NoRow THEN "idle" ELSE "lease"
        [] c \in {"new", "run"} -> "assign"
        [] c = "sync" -> IF json = NoRow THEN "idle" ELSE "sync"
        [] c = "oldstop" -> IF json = NoRow THEN "idle" ELSE "kill"
        [] OTHER -> IF json = NoRow THEN "idle" ELSE "work"
<1>1. PICK c \in Durable \cup Retained :
        /\ c \in Durable => imported \/ json = NoRow
        /\ pc' = [pc EXCEPT ![p] = Place(c)]
        /\ loc' = [loc EXCEPT ![p] =
             IF pc'[p] = "idle" THEN NoLoc
             ELSE LET r == IF c \in Durable THEN db
                           ELSE IF c \in {"new", "run"} THEN NoRow ELSE json
                  IN [cmd |-> c, row |-> r, ep |-> r.ep]]
  BY DEF Begin
<1>2. /\ Place(c) \in Places
      /\ Place(c) \in (IF c \in Durable THEN {"idle", "assign", "ready", "lease"}
                       ELSE {"idle", "assign", "sync", "kill", "work"})
      /\ Place(c) = "assign" => Snapshot(c) = NoRow
      /\ Place(c) \notin {"idle", "assign"} => Snapshot(c) # NoRow
  <2>1. CASE c \in {"ensure", "keeprun", "shortrun"}
    BY <2>1 DEF Places, Durable, Snapshot
  <2>2. CASE c = "stop"
    BY <2>2 DEF Places, Durable, Snapshot
  <2>3. CASE c \in {"new", "run"}
    BY <2>3 DEF Places, Durable, Snapshot
  <2>4. CASE c \in {"oldstop", "sync"}
    BY <2>4 DEF Places, Durable, Snapshot
  <2>5. CASE c \in {"exec", "console"}
    BY <2>5 DEF Places, Durable, Snapshot
  <2> QED
    BY <1>1, <2>1, <2>2, <2>3, <2>4, <2>5 DEF Durable, Retained
<1>3. pc[p] = "idle" /\ pc'[p] = Place(c)
  BY <1>1 DEF Begin, Typed
<1> HIDE DEF Place
<1>4. BeginAs(p, c, Place(c))
  BY <1>1, <1>2, <1>3 DEF BeginAs, Snapshot
<1> QED
  BY <1>2, <1>4

\* The import and the start of a command keep states well formed.
LEMMA BeginTyped ==
  ASSUME Typed, Import \/ \E p \in Procs : Begin(p)
  PROVE  Typed'
<1> USE RegistryAssumption, TypedParts, TypedPartsNext DEF faults, outside, rows
<1>1. CASE Import
  BY <1>1 DEF Import
<1>2. ASSUME NEW p \in Procs, Begin(p)
      PROVE  Typed'
  <2>1. PICK c \in Durable \cup Retained, place \in Places : BeginAs(p, c, place)
    BY <1>2, BeginPlace
  <2>2. NoLoc \in Loc /\ Snapshot(c) \in Row
    BY DEF Loc, Row, NoLoc, NoRow, Snapshot
  <2>3. [cmd |-> c, row |-> Snapshot(c), ep |-> Snapshot(c).ep] \in Loc
    BY <2>2 DEF Loc, Row
  <2>4. loc' \in [Procs -> Loc]
    BY <2>1, <2>2, <2>3 DEF BeginAs
  <2>5. pc' \in [Procs -> Places]
    BY <2>1 DEF BeginAs
  <2> QED
    BY <1>2, <2>4, <2>5 DEF Begin
<1> QED
  BY <1>1, <1>2

\* A daemon whose count is set goes on with its loop.
LEMMA CountSet ==
  ASSUME Typed, NEW e \in Endpoints, NEW n \in 0..1, Counts(e, n)
  PROVE  \E d \in Watch : /\ daemon' = [daemon EXCEPT ![e] = d]
                          /\ d.at = "check" /\ d.store = daemon[e].store
<1>0. daemon \in [Endpoints -> Watch] /\ daemon[e] \in Watch
  BY DEF Typed, TypeOK, Watch
<1>1. [daemon[e] EXCEPT !.errs = n] \in Watch
      /\ [daemon[e] EXCEPT !.errs = n].store = daemon[e].store
  BY <1>0 DEF Watch
<1>2. PICK v \in Watch : v = [daemon[e] EXCEPT !.errs = n] /\ v.store = daemon[e].store
  BY <1>1
<1>a. /\ [v EXCEPT !.at = "check"] \in Watch /\ [v EXCEPT !.at = "check"].at = "check"
      /\ [v EXCEPT !.at = "check"].store = v.store
  BY DEF Watch
<1>3. PICK d \in Watch : /\ d = [v EXCEPT !.at = "check"] /\ d.at = "check"
                         /\ d.store = v.store
  BY <1>a
<1>4. daemon' = [daemon EXCEPT ![e] = d]
  BY <1>2, <1>3 DEF Counts
<1> QED
  BY <1>2, <1>3, <1>4

\* A daemon's state is well formed after a step of its loop.
LEMMA DaemonTyped ==
  ASSUME Typed, NEW e \in Endpoints,
         \/ DaemonChecks(e) \/ DaemonPings(e) \/ DaemonRefused(e)
         \/ DaemonMisses(e) \/ DaemonEnds(e)
  PROVE  daemon' \in [Endpoints -> Watch]
<1>0. daemon \in [Endpoints -> Watch] /\ daemon[e] \in Watch
  BY DEF Typed, TypeOK, Watch
<1>1. \A why \in {"exited", "ended"} : Ended(why) \in Watch
  BY DEF Ended, NoDaemon, Watch
<1>2. \A at \in {"check", "ping"} : [daemon[e] EXCEPT !.at = at] \in Watch
  BY <1>0 DEF Watch
<1>3. Counts(e, 0) \/ Counts(e, 1) => daemon' \in [Endpoints -> Watch]
  <2>1. Counts(e, 0) => \E d \in Watch : daemon' = [daemon EXCEPT ![e] = d]
    BY CountSet
  <2>2. Counts(e, 1) => \E d \in Watch : daemon' = [daemon EXCEPT ![e] = d]
    BY CountSet
  <2> QED
    BY <1>0, <2>1, <2>2
<1>4. CASE DaemonChecks(e) \/ DaemonMisses(e) \/ DaemonEnds(e)
  BY <1>0, <1>1, <1>2, <1>4 DEF DaemonChecks, DaemonMisses, DaemonEnds, Goes, Ends
<1>5. CASE DaemonPings(e) \/ DaemonRefused(e)
  BY <1>0, <1>1, <1>3, <1>5 DEF DaemonPings, DaemonRefused, Ends
<1> QED
  BY <1>4, <1>5

\* And so do the steps of the daemons, the worker and the backend.
LEMMA OthersTyped ==
  ASSUME Typed,
         \/ \E e \in Endpoints : \/ DaemonChecks(e) \/ DaemonPings(e) \/ DaemonRefused(e)
                                 \/ DaemonMisses(e) \/ DaemonEnds(e) \/ Reclaim(e)
         \/ WorkerChecks \/ WorkerReads \/ WorkerConnects \/ WorkerWrites
  PROVE  Typed'
<1> USE RegistryAssumption, TypedParts, TypedPartsNext DEF faults, outside, rows
<1>1. ASSUME NEW e \in Endpoints,
             \/ DaemonChecks(e) \/ DaemonPings(e) \/ DaemonRefused(e)
             \/ DaemonMisses(e) \/ DaemonEnds(e)
      PROVE  Typed'
  <2>1. daemon' \in [Endpoints -> Watch]
    BY <1>1, DaemonTyped
  <2> QED
    BY <1>1, <2>1 DEF DaemonChecks, DaemonPings, DaemonRefused, DaemonMisses, DaemonEnds
<1>2. ASSUME NEW e \in Endpoints, Reclaim(e) PROVE Typed'
  BY <1>2 DEF Reclaim
<1>3. CASE WorkerChecks \/ WorkerReads \/ WorkerConnects
  <2>1. db.ep \in 0..MaxVMs
    BY DEF Row
  <2>2. [worker EXCEPT !.at = "connected"]
          \in [at : {"idle", "checked", "read", "connected"}, ep : 0..MaxVMs]
    OBVIOUS
  <2> QED
    <3>1. CASE WorkerChecks \/ WorkerConnects
      BY <2>2, <3>1 DEF WorkerChecks, WorkerConnects, Quiet
    <3>2. CASE WorkerReads
      <4>1. dirty' \in BOOLEAN
        BY <3>2 DEF WorkerReads
      <4>2. worker' \in [at : {"idle", "checked", "read", "connected"}, ep : 0..MaxVMs]
        BY <2>1, <3>2 DEF WorkerReads, Quiet
      <4> QED
        BY <3>2, <4>1, <4>2 DEF WorkerReads
    <3> QED
      BY <1>3, <3>1, <3>2
<1>4. CASE WorkerWrites
  <2>1. [db EXCEPT !.kernel = worker.ep] \in Row
    BY DEF Row
  <2> QED
    BY <1>4, <2>1 DEF WorkerWrites, Quiet
<1> QED
  BY <1>1, <1>2, <1>3, <1>4

-----------------------------------------------------------------------------
(***************************************************************************)
(* One command at a time: what the others hold, they do not.               *)
(***************************************************************************)
\* The other commands are idle.
Alone(p) == \A q \in Procs : q # p => pc[q] = "idle" /\ loc[q] = NoLoc

\* What Known and Kept say when only p is at work.
KnownAt(p) == \A e \in vms \ excused : json.ep = e \/ db.ep = e \/ loc[p].ep = e
KeptAt(p) ==
  \A e \in vms \ excused :
    (db.ep = e \/ json.ep = e) /\ (loc[p].ep = e => pc[p] \notin Between) => Alive(e)

\* The rows and the worker, which no command owns.
Outer == OneVM(json) /\ OneVM(db) /\ WorkerAgrees

\* A tidy state as the only command at work sees it.
LEMMA Sole ==
  ASSUME Typed, Tidy, NEW p \in Procs, pc[p] # "idle" \/ \A q \in Procs : pc[q] = "idle"
  PROVE  Alone(p) /\ KnownAt(p) /\ KeptAt(p) /\ Held(p) /\ Outer
<1>1. Alone(p)
  BY DEF Alone, Tidy, OneCommand, Held
<1>2. \A e \in vms : e # 0
  BY DEF Typed, TypeOK, Endpoints
<1>3. \A q \in Procs : loc[q].ep # 0 => q = p
  BY <1>1 DEF Alone, NoLoc
<1>4. KnownAt(p)
  BY <1>2, <1>3 DEF KnownAt, Tidy, Known
<1>5. KeptAt(p)
  BY <1>2, <1>3 DEF KeptAt, Tidy, Kept
<1> QED
  BY <1>1, <1>4, <1>5 DEF Tidy, Outer

\* A step of p leads to a tidy state when what p sees of it is right.
LEMMA Assemble ==
  ASSUME Typed, Typed', NEW p \in Procs, Alone(p),
         \A q \in Procs : q # p => pc'[q] = pc[q] /\ loc'[q] = loc[q],
         KnownAt(p)', KeptAt(p)', Held(p)', Outer'
  PROVE  Tidy'
<1>1. \A q \in Procs : q # p => pc'[q] = "idle" /\ loc'[q] = NoLoc
  BY DEF Alone
<1>2. \A q \in Procs : Held(q)'
  <2> SUFFICES ASSUME NEW q \in Procs, q # p PROVE Held(q)'
    OBVIOUS
  <2>1. OneVM(loc[q].row)' /\ loc'[q].row.ep = loc'[q].ep
    BY <1>1 DEF OneVM, NoLoc, NoRow
  <2> QED
    BY <1>1, <2>1 DEF Held, Using
<1>3. OneCommand'
  BY <1>1 DEF OneCommand
<1>4. Known'
  BY DEF Known, KnownAt
<1>5. Kept'
  BY DEF Kept, KeptAt
<1> QED
  BY <1>2, <1>3, <1>4, <1>5 DEF Tidy, Outer

\* A step that is no command's leaves what the commands hold to be shown.
LEMMA AssembleQuiet ==
  ASSUME Typed, Tidy, UNCHANGED <<pc, loc>>,
         \A p \in Procs : Held(p)', Known', Kept', Outer'
  PROVE  Tidy'
<1>1. OneCommand'
  BY DEF OneCommand, Tidy
<1> QED
  BY <1>1 DEF Tidy, Outer

-----------------------------------------------------------------------------
(***************************************************************************)
(* The steps of an allocation.                                             *)
(***************************************************************************)
\* A daemon a step leaves alone stays, as long as its row names its VM.
LEMMA AliveStays ==
  ASSUME NEW e, Alive(e), daemon'[e] = daemon[e],
         daemon[e].store = "db" /\ db.ep = e => db'.ep = e,
         daemon[e].store # "db" /\ json.ep = e => json'.ep = e
  PROVE  Alive(e)'
BY DEF Alive, Running, RowOf

\* A VM just assigned is in its command's hands.
LEMMA AssignTidy ==
  ASSUME Typed, Typed', Tidy, NEW p \in Procs, Assign(p)
  PROVE  Tidy'
<1> USE RegistryAssumption
<1>0. Alone(p) /\ KnownAt(p) /\ KeptAt(p) /\ Held(p) /\ Outer /\ pc[p] = "assign"
  BY Sole DEF Assign
<1>t. /\ pc \in [Procs -> Places] /\ loc \in [Procs -> Loc] /\ last \in 0..MaxVMs
      /\ \A e \in vms : e # 0
  BY TypedParts DEF Endpoints
<1>1. loc[p].ep = 0
  BY <1>0 DEF Held
<1>2. /\ Outer' /\ daemon' = daemon /\ json' = json /\ db' = db /\ imported' = imported
      /\ lease' = lease /\ excused \subseteq excused'
  BY <1>0 DEF Assign, Excuse, Outer, OneVM, WorkerAgrees, NoRow, rows
<1>3. CASE /\ last < MaxVMs /\ last' = last + 1 /\ vms' = vms \cup {last + 1}
           /\ pc' = [pc EXCEPT ![p] = "preflight"]
           /\ loc' = [loc EXCEPT ![p].ep = last + 1, ![p].row = [NoRow EXCEPT !.ep = last + 1]]
  <2>1. /\ pc'[p] = "preflight" /\ loc'[p].ep = last + 1 /\ loc'[p].cmd = loc[p].cmd
        /\ loc'[p].row = [ep |-> last + 1, pid |-> 0, kernel |-> 0]
        /\ \A q \in Procs : q # p => pc'[q] = pc[q] /\ loc'[q] = loc[q]
    BY <1>3, <1>t DEF Loc, NoRow
  <2>2. last + 1 \in Endpoints /\ last + 1 # 0
    BY <1>3, <1>t DEF Endpoints
  <2>3. KnownAt(p)'
    BY <1>0, <1>1, <1>2, <1>3, <1>t, <2>1 DEF KnownAt
  <2>4. KeptAt(p)'
    BY <1>0, <1>1, <1>2, <1>3, <1>t, <2>1, AliveStays DEF KeptAt, Between
  <2>5. Held(p)'
    BY <1>0, <1>2, <2>1, <2>2 DEF Held, OneVM, IsDurable, Using
  <2> QED
    BY <1>0, <1>2, <2>1, <2>3, <2>4, <2>5, Assemble
<1>4. CASE Done(p) /\ vms' \ excused' \subseteq vms \ excused
  <2>1. /\ pc'[p] = "idle" /\ loc'[p] = NoLoc /\ vms' \ excused' \subseteq vms \ excused
        /\ \A q \in Procs : q # p => pc'[q] = pc[q] /\ loc'[q] = loc[q]
    BY <1>4, <1>t DEF Done
  <2>2. KnownAt(p)' /\ Held(p)'
    BY <1>0, <1>1, <1>2, <1>t, <2>1 DEF KnownAt, NoLoc, NoRow, Held, OneVM, Using
  <2>3. KeptAt(p)'
    BY <1>0, <1>1, <1>2, <1>t, <2>1, AliveStays DEF KeptAt
  <2> QED
    BY <1>0, <1>2, <2>1, <2>2, <2>3, Assemble
<1> QED
  BY <1>3, <1>4 DEF Assign, Excuse

\* A command that gives up leaves the rest as it is, and its VM excused.
LEMMA LeaveTidy ==
  ASSUME Typed, Typed', NEW p \in Procs, Done(p), excused \subseteq excused',
         Alone(p), KnownAt(p), KeptAt(p), Outer,
         vms' \ excused' \subseteq vms \ excused, loc[p].ep \notin vms' \ excused',
         daemon' = daemon, json'.ep = json.ep, db'.ep = db.ep, OneVM(json)', OneVM(db)',
         WorkerAgrees'
  PROVE  Tidy'
<1>t. pc \in [Procs -> Places] /\ loc \in [Procs -> Loc] /\ \A e \in vms : e # 0
  BY TypedParts DEF Endpoints
<1>1. /\ pc'[p] = "idle" /\ loc'[p] = NoLoc
      /\ \A q \in Procs : q # p => pc'[q] = pc[q] /\ loc'[q] = loc[q]
  BY <1>t DEF Done
<1>2. KnownAt(p)'
  BY DEF KnownAt
<1>3. KeptAt(p)'
  BY AliveStays DEF KeptAt
<1>4. Held(p)'
  BY <1>1 DEF Held, OneVM, NoLoc, NoRow, Using
<1> QED
  BY <1>1, <1>2, <1>3, <1>4, Assemble DEF Outer

\* The ping before the row is written decides whether it is.
LEMMA PreflightTidy ==
  ASSUME Typed, Typed', Tidy, NEW p \in Procs, Preflight(p)
  PROVE  Tidy'
<1>0. Alone(p) /\ KnownAt(p) /\ KeptAt(p) /\ Held(p) /\ Outer /\ pc[p] = "preflight"
  BY Sole DEF Preflight
<1>t. pc \in [Procs -> Places] /\ \A e \in vms : e # 0
  BY TypedParts DEF Endpoints
<1>2. /\ vms' = vms /\ daemon' = daemon /\ json' = json /\ db' = db /\ imported' = imported
      /\ lease' = lease /\ worker' = worker
  BY DEF Preflight, outside, rows
<1>3. Outer'
  BY <1>0, <1>2 DEF Outer, OneVM, WorkerAgrees
<1>4. CASE (Go(p, "record") \/ Go(p, "undo")) /\ UNCHANGED excused
  <2>1. /\ pc'[p] \in {"record", "undo"} /\ loc' = loc
        /\ \A q \in Procs : q # p => pc'[q] = pc[q] /\ loc'[q] = loc[q]
    BY <1>4, <1>t DEF Go
  <2>2. KnownAt(p)'
    BY <1>0, <1>2, <1>4, <2>1 DEF KnownAt
  <2>3. KeptAt(p)'
    BY <1>0, <1>2, <1>4, <2>1, AliveStays DEF KeptAt, Between
  <2>4. Held(p)'
    BY <1>0, <1>2, <2>1 DEF Held, OneVM, IsDurable, Using, NoRow
  <2> QED
    BY <1>0, <1>3, <2>1, <2>2, <2>3, <2>4, Assemble
<1>5. CASE Aborts(p)
  <2>1. Done(p) /\ excused' = excused \cup {loc[p].ep}
    BY <1>5 DEF Aborts, Excuse
  <2> QED
    BY <1>0, <1>2, <1>3, <2>1, LeaveTidy DEF Outer
<1> QED
  BY <1>4, <1>5 DEF Preflight

\* The row is written, over a row that is given up if there was one.
LEMMA RecordTidy ==
  ASSUME Typed, Typed', Tidy, NEW p \in Procs, Record(p)
  PROVE  Tidy'
<1>0. Alone(p) /\ KnownAt(p) /\ KeptAt(p) /\ Held(p) /\ Outer /\ pc[p] = "record"
  BY Sole DEF Record
<1>t. pc \in [Procs -> Places] /\ \A e \in vms : e # 0
  BY TypedParts DEF Endpoints
<1>2. /\ vms' = vms /\ daemon' = daemon /\ imported' = imported
      /\ lease' = lease /\ worker' = worker
  BY DEF Record, outside
<1>3. /\ OneVM(loc[p].row) /\ loc[p].row.ep = loc[p].ep /\ loc[p].ep \in Endpoints
      /\ 0 \notin Endpoints /\ NoRow.ep = 0
  BY <1>0 DEF Held, Endpoints, NoRow
<1>4. CASE Go(p, "spawn") /\ IF IsDurable(p) THEN db' = loc[p].row /\ UNCHANGED <<json, excused>>
                           ELSE json' = loc[p].row /\ UNCHANGED db /\ Excuse(json.ep)
  <2>1. /\ pc'[p] = "spawn" /\ loc' = loc
        /\ \A q \in Procs : q # p => pc'[q] = pc[q] /\ loc'[q] = loc[q]
    BY <1>4, <1>t DEF Go
  <2>2. IF IsDurable(p) THEN db = NoRow /\ db' = loc[p].row /\ json' = json /\ excused' = excused
        ELSE json' = loc[p].row /\ db' = db /\ excused' = excused \cup {json.ep}
    BY <1>0, <1>4 DEF Held, Excuse
  <2>3. Outer'
    BY <1>0, <1>2, <1>3, <2>2 DEF Outer, WorkerAgrees, OneVM
  <2>4. KnownAt(p)'
    BY <1>0, <1>2, <1>3, <1>t, <2>1, <2>2 DEF KnownAt
  <2>5. KeptAt(p)'
    <3> SUFFICES ASSUME NEW e \in vms' \ excused', db'.ep = e \/ json'.ep = e, loc[p].ep # e
                 PROVE  Alive(e)'
      BY <2>1 DEF KeptAt, Between
    <3>1. e \in vms \ excused /\ (db.ep = e \/ json.ep = e)
      BY <1>2, <1>3, <2>2
    <3>2. Alive(e)
      BY <1>0, <3>1 DEF KeptAt
    <3>3. json.ep = e => json'.ep = e
      BY <2>2
    <3>4. db.ep = e => db'.ep = e
      BY <1>3, <1>t, <2>2, <3>1
    <3> QED
      BY <1>2, <3>2, <3>3, <3>4, AliveStays
  <2>6. Held(p)'
    BY <1>0, <1>2, <1>3, <2>1, <2>2 DEF Held, OneVM, IsDurable, Using
  <2> QED
    BY <1>0, <2>1, <2>3, <2>4, <2>5, <2>6, Assemble
<1>5. CASE IsDurable(p) /\ Go(p, "undo") /\ UNCHANGED <<json, db, excused>>
  <2>1. /\ pc'[p] = "undo" /\ loc' = loc
        /\ \A q \in Procs : q # p => pc'[q] = pc[q] /\ loc'[q] = loc[q]
    BY <1>5, <1>t DEF Go
  <2>2. Outer' /\ KnownAt(p)'
    BY <1>0, <1>2, <1>5, <2>1 DEF Outer, OneVM, WorkerAgrees, KnownAt
  <2>3. KeptAt(p)'
    BY <1>0, <1>2, <1>5, <2>1, AliveStays DEF KeptAt, Between
  <2>4. Held(p)'
    BY <1>0, <1>2, <1>3, <1>5, <2>1 DEF Held, OneVM, IsDurable, Using
  <2> QED
    BY <1>0, <2>1, <2>2, <2>3, <2>4, Assemble
<1>6. CASE Aborts(p) /\ UNCHANGED <<json, db>>
  <2>1. Done(p) /\ excused' = excused \cup {loc[p].ep}
    BY <1>6 DEF Aborts, Excuse
  <2>2. OneVM(json)' /\ OneVM(db)' /\ WorkerAgrees'
    BY <1>0, <1>2, <1>6 DEF Outer, OneVM, WorkerAgrees
  <2> QED
    BY <1>0, <1>2, <1>6, <2>1, <2>2, LeaveTidy
<1> QED
  BY <1>4, <1>5, <1>6 DEF Record

\* The daemon just started finds the row that was written before it.
LEMMA SpawnTidy ==
  ASSUME Typed, Typed', Tidy, NEW p \in Procs, Spawn(p)
  PROVE  Tidy'
<1>0. Alone(p) /\ KnownAt(p) /\ KeptAt(p) /\ Held(p) /\ Outer /\ pc[p] = "spawn"
  BY Sole DEF Spawn
<1>t. /\ pc \in [Procs -> Places] /\ loc \in [Procs -> Loc] /\ daemon \in [Endpoints -> Watch]
      /\ vms \subseteq Endpoints /\ 0 \notin Endpoints
  BY TypedParts DEF Endpoints
<1>1. /\ vms' = vms /\ json' = json /\ db' = db /\ imported' = imported
      /\ lease' = lease /\ worker' = worker
  BY DEF Spawn, rows
<1>2. /\ OneVM(loc[p].row) /\ loc[p].row.ep = loc[p].ep /\ loc[p].ep \in Endpoints
      /\ IF IsDurable(p) THEN db.ep = loc[p].ep ELSE json.ep = loc[p].ep
  BY <1>0 DEF Held
<1>3. Outer'
  BY <1>0, <1>1 DEF Outer, OneVM, WorkerAgrees
<1>4. CASE /\ daemon' = [daemon EXCEPT ![loc[p].ep] = Started(p)] /\ pc' = [pc EXCEPT ![p] = "pid"]
           /\ loc' = [loc EXCEPT ![p].row.pid = loc[p].ep] /\ UNCHANGED excused
  <2>1. /\ pc'[p] = "pid" /\ loc'[p].ep = loc[p].ep /\ loc'[p].cmd = loc[p].cmd
        /\ loc'[p].row = [loc[p].row EXCEPT !.pid = loc[p].ep]
        /\ \A q \in Procs : q # p => pc'[q] = pc[q] /\ loc'[q] = loc[q]
    <3>1. loc'[p] = [loc[p] EXCEPT !.row.pid = loc[p].ep]
      BY <1>4, <1>t
    <3>2. loc[p] \in Loc
      BY <1>t
    <3>3. /\ loc'[p].ep = loc[p].ep /\ loc'[p].cmd = loc[p].cmd
          /\ loc'[p].row = [loc[p].row EXCEPT !.pid = loc[p].ep]
      BY <3>1, <3>2 DEF Loc
    <3> QED
      BY <1>4, <1>t, <3>3
  <2>2. OneVM(loc'[p].row) /\ loc'[p].row.ep = loc'[p].ep
    <3>1. loc[p].row \in Row
      BY <1>t DEF Loc
    <3>2. /\ loc'[p].row.ep = loc[p].ep /\ loc'[p].row.pid = loc[p].ep
          /\ loc'[p].row.kernel = loc[p].row.kernel
      BY <2>1, <3>1, <1>2 DEF Row
    <3> QED
      BY <2>1, <3>2, <1>2, <1>t DEF OneVM
  <2>3. KnownAt(p)'
    BY <1>0, <1>1, <1>4, <2>1 DEF KnownAt
  <2>4. /\ daemon'[loc[p].ep].at = "check"
        /\ daemon'[loc[p].ep].store = IF IsDurable(p) THEN "db" ELSE "json"
    BY <1>4, <1>t, <1>2 DEF Started
  <2>6. KeptAt(p)'
    <3> SUFFICES ASSUME NEW e \in vms' \ excused', (db.ep = e \/ json.ep = e)
                 PROVE  Alive(e)'
      BY <1>1 DEF KeptAt
    <3>1. CASE e = loc[p].ep
      BY <1>1, <1>2, <2>4, <3>1 DEF Alive, Running, RowOf
    <3>2. CASE e # loc[p].ep
      BY <1>0, <1>1, <1>4, <1>t, <3>2, AliveStays DEF KeptAt
    <3> QED
      BY <3>1, <3>2
  <2>7. Held(p)'
    BY <1>0, <1>1, <2>1, <2>2 DEF Held, IsDurable, Using
  <2> QED
    BY <1>0, <1>3, <2>1, <2>3, <2>6, <2>7, Assemble
<1>5. CASE IsDurable(p) /\ Go(p, "undo") /\ UNCHANGED <<daemon, excused>>
  <2>1. /\ pc'[p] = "undo" /\ loc' = loc
        /\ \A q \in Procs : q # p => pc'[q] = pc[q] /\ loc'[q] = loc[q]
    BY <1>5, <1>t DEF Go
  <2>2. KnownAt(p)'
    BY <1>0, <1>1, <1>5, <2>1 DEF KnownAt
  <2>3. KeptAt(p)'
    BY <1>0, <1>1, <1>5, <2>1, AliveStays DEF KeptAt, Between
  <2>4. Held(p)'
    BY <1>0, <1>1, <2>1, <1>2, <1>5 DEF Held, OneVM, IsDurable, Using
  <2> QED
    BY <1>0, <1>3, <2>1, <2>2, <2>3, <2>4, Assemble
<1>6. CASE Aborts(p) /\ UNCHANGED daemon
  <2>1. Done(p) /\ excused' = excused \cup {loc[p].ep}
    BY <1>6 DEF Aborts, Excuse
  <2> QED
    BY <1>0, <1>1, <1>3, <1>6, <2>1, LeaveTidy DEF Outer
<1> QED
  BY <1>4, <1>5, <1>6 DEF Spawn

\* The pid is written into the command's own row, or not at all.
LEMMA SetPidTidy ==
  ASSUME Typed, Typed', Tidy, NEW p \in Procs, SetPid(p)
  PROVE  Tidy'
<1>0. Alone(p) /\ KnownAt(p) /\ KeptAt(p) /\ Held(p) /\ Outer /\ pc[p] = "pid"
  BY Sole DEF SetPid
<1>t. /\ pc \in [Procs -> Places] /\ loc \in [Procs -> Loc] /\ db \in Row
      /\ vms \subseteq Endpoints /\ 0 \notin Endpoints /\ NoRow.ep = 0
  BY TypedParts DEF Endpoints, NoRow
<1>1. /\ vms' = vms /\ daemon' = daemon /\ imported' = imported
      /\ lease' = lease /\ worker' = worker /\ excused' = excused
  BY DEF SetPid, outside, faults
<1>2. /\ OneVM(loc[p].row) /\ loc[p].row.ep = loc[p].ep /\ loc[p].ep \in Endpoints
      /\ IF IsDurable(p) THEN db.ep = loc[p].ep ELSE json.ep = loc[p].ep
  BY <1>0 DEF Held
<1>3. db # NoRow \/ ~IsDurable(p)
  BY <1>2, <1>t
<1>4. /\ db'.ep = db.ep /\ db'.kernel = db.kernel /\ db'.pid \in {db.pid, db.ep}
      /\ IsDurable(p) => json' = json
      /\ ~IsDurable(p) => db' = db /\ json' \in {json, loc[p].row}
  BY <1>2, <1>3, <1>t DEF SetPid, Row
<1>5. json'.ep = json.ep /\ OneVM(json)'
  BY <1>0, <1>2, <1>4 DEF OneVM, Outer
<1>6. OneVM(db)' /\ (db # NoRow => db' # NoRow)
  <2>1. CASE IsDurable(p)
    BY <1>0, <1>2, <1>4, <1>t, <2>1 DEF OneVM, Outer
  <2>2. CASE ~IsDurable(p)
    BY <1>0, <1>4, <2>2 DEF OneVM, Outer
  <2> QED
    BY <2>1, <2>2
<1>7. Outer'
  BY <1>0, <1>1, <1>4, <1>5, <1>6 DEF Outer, WorkerAgrees
<1>8. /\ \/ pc'[p] \in {"ready", "undo"} /\ loc'[p] = loc[p] /\ IsDurable(p)
         \/ pc'[p] = "work" /\ loc'[p] = loc[p] /\ ~IsDurable(p)
         \/ pc'[p] = "idle" /\ loc'[p] = NoLoc
      /\ \A q \in Procs : q # p => pc'[q] = pc[q] /\ loc'[q] = loc[q]
  BY <1>t DEF SetPid, Go, Done
<1>9. KnownAt(p)'
  BY <1>0, <1>1, <1>2, <1>4, <1>5 DEF KnownAt
<1>10. KeptAt(p)'
  BY <1>0, <1>1, <1>4, <1>5, <1>8, AliveStays DEF KeptAt, Between
<1>11. Held(p)'
  <2>1. CASE pc'[p] = "idle" /\ loc'[p] = NoLoc
    BY <2>1 DEF Held, OneVM, NoLoc, NoRow, Using
  <2>2. CASE pc'[p] # "idle"
    BY <2>2, <1>0, <1>1, <1>2, <1>4, <1>5, <1>8 DEF Held, OneVM, IsDurable, Using
  <2> QED
    BY <2>1, <2>2, <1>8
<1> QED
  BY <1>0, <1>7, <1>8, <1>9, <1>10, <1>11, Assemble

\* A VM given back is assigned no more.
LEMMA UndoTidy ==
  ASSUME Typed, Typed', Tidy, NEW p \in Procs, Undo(p)
  PROVE  Tidy'
<1>0. Alone(p) /\ KnownAt(p) /\ KeptAt(p) /\ Held(p) /\ Outer /\ pc[p] = "undo"
  BY Sole DEF Undo
<1>t. pc \in [Procs -> Places] /\ loc \in [Procs -> Loc]
  BY TypedParts
<1>1. /\ daemon' = daemon /\ json' = json /\ db' = db /\ imported' = imported
      /\ lease' = lease /\ worker' = worker
      /\ excused \subseteq excused' /\ vms' \ excused' = (vms \ excused) \ {loc[p].ep}
  BY DEF Undo, Excuse, rows
<1>2. /\ \/ pc'[p] = "undelete" /\ loc'[p] = loc[p] /\ IsDurable(p)
         \/ pc'[p] = "idle" /\ loc'[p] = NoLoc
      /\ \A q \in Procs : q # p => pc'[q] = pc[q] /\ loc'[q] = loc[q]
  BY <1>t DEF Undo, Go, Done
<1>3. Outer' /\ KnownAt(p)'
  BY <1>0, <1>1, <1>2 DEF Outer, OneVM, WorkerAgrees, KnownAt
<1>4. KeptAt(p)'
  BY <1>0, <1>1, <1>2, AliveStays DEF KeptAt
<1>5. Held(p)'
  <2>1. CASE pc'[p] = "idle" /\ loc'[p] = NoLoc
    BY <2>1 DEF Held, OneVM, NoLoc, NoRow, Using
  <2>2. CASE pc'[p] = "undelete"
    BY <2>2, <1>0, <1>1, <1>2 DEF Held, OneVM, IsDurable, Using
  <2> QED
    BY <2>1, <2>2, <1>2
<1> QED
  BY <1>0, <1>2, <1>3, <1>4, <1>5, Assemble

\* The row deleted with it was the command's own, or nobody's.
LEMMA UndoDeleteTidy ==
  ASSUME Typed, Typed', Tidy, NEW p \in Procs, UndoDelete(p), ~dirty'
  PROVE  Tidy'
<1>0. Alone(p) /\ KnownAt(p) /\ KeptAt(p) /\ Held(p) /\ Outer /\ pc[p] = "undelete"
  BY Sole DEF UndoDelete
<1>t. pc \in [Procs -> Places] /\ loc \in [Procs -> Loc] /\ \A e \in vms : e # 0
  BY TypedParts DEF Endpoints
<1>1. /\ vms' = vms /\ daemon' = daemon /\ json' = json /\ db' \in {NoRow, db}
      /\ lease' = lease /\ worker' = worker /\ worker = Quiet
      /\ excused' = excused
  BY DEF UndoDelete, outside
<1>2. /\ pc'[p] = "idle" /\ loc'[p] = NoLoc
      /\ \A q \in Procs : q # p => pc'[q] = pc[q] /\ loc'[q] = loc[q]
  BY <1>t DEF UndoDelete, Done
<1>3. loc[p].ep \notin vms \ excused /\ db.ep \in {0, loc[p].ep}
  BY <1>0 DEF Held
<1>4. Outer'
  BY <1>0, <1>1 DEF Outer, OneVM, WorkerAgrees, Quiet, NoRow
<1>5. KnownAt(p)'
  BY <1>0, <1>1, <1>3, <1>t DEF KnownAt
<1>6. KeptAt(p)'
  BY <1>0, <1>1, <1>3, <1>t, AliveStays DEF KeptAt, NoRow
<1>7. Held(p)'
  BY <1>2 DEF Held, OneVM, NoLoc, NoRow, Using
<1> QED
  BY <1>0, <1>2, <1>4, <1>5, <1>6, <1>7, Assemble

\* A command that goes on reads the row of its own session again.
LEMMA ReadyTidy ==
  ASSUME Typed, Typed', Tidy, NEW p \in Procs, Ready(p)
  PROVE  Tidy'
<1>0. Alone(p) /\ KnownAt(p) /\ KeptAt(p) /\ Held(p) /\ Outer /\ pc[p] = "ready"
  BY Sole DEF Ready
<1>t. pc \in [Procs -> Places] /\ loc \in [Procs -> Loc]
  BY TypedParts
<1>1. /\ vms' = vms /\ daemon' = daemon /\ json' = json /\ db' = db /\ imported' = imported
      /\ lease' = lease /\ worker' = worker /\ excused' = excused
  BY DEF Ready, outside, rows, faults
<1>2. IsDurable(p) /\ db.ep = loc[p].ep
  BY <1>0 DEF Held, Using
<1>3. \A q \in Procs : q # p => pc'[q] = pc[q] /\ loc'[q] = loc[q]
  BY <1>t DEF Ready, Done
<1>4. \/ /\ pc'[p] = "lease" /\ loc'[p].ep = loc[p].ep
         /\ loc'[p].row = db /\ loc'[p].cmd = loc[p].cmd
      \/ pc'[p] = "idle" /\ loc'[p] = NoLoc
  <2>1. CASE Done(p)
    BY <2>1, <1>t DEF Done
  <2>2. CASE /\ pc' = [pc EXCEPT ![p] = "lease"]
             /\ loc' = [loc EXCEPT ![p].row = db, ![p].ep = db.ep]
    <3>1. loc'[p] = [loc[p] EXCEPT !.row = db, !.ep = db.ep] /\ pc'[p] = "lease"
      BY <2>2, <1>t
    <3>2. loc[p] \in Loc
      BY <1>t
    <3> QED
      BY <3>1, <3>2, <1>2 DEF Loc
  <2> QED
    BY <2>1, <2>2 DEF Ready
<1>5. Outer'
  BY <1>0, <1>1 DEF Outer, OneVM, WorkerAgrees
<1>6. KnownAt(p)'
  BY <1>0, <1>1, <1>2 DEF KnownAt
<1>7. KeptAt(p)'
  BY <1>0, <1>1, AliveStays DEF KeptAt, Between
<1>8. Held(p)'
  <2>1. CASE pc'[p] = "idle" /\ loc'[p] = NoLoc
    BY <2>1 DEF Held, OneVM, NoLoc, NoRow, Using
  <2>2. CASE pc'[p] = "lease"
    BY <2>2, <1>0, <1>1, <1>2, <1>4 DEF Held, Outer, OneVM, IsDurable, Using
  <2> QED
    BY <2>1, <2>2, <1>4
<1> QED
  BY <1>0, <1>3, <1>5, <1>6, <1>7, <1>8, Assemble

-----------------------------------------------------------------------------
(***************************************************************************)
(* The steps of a release.                                                 *)
(***************************************************************************)
\* The lease is taken while no worker has read the row.
LEMMA LeaseTidy ==
  ASSUME Typed, Typed', Tidy, NEW p \in Procs, Lease(p)
  PROVE  Tidy'
<1>0. Alone(p) /\ KnownAt(p) /\ KeptAt(p) /\ Held(p) /\ Outer /\ pc[p] = "lease"
  BY Sole DEF Lease
<1>t. pc \in [Procs -> Places] /\ loc \in [Procs -> Loc]
  BY TypedParts
<1>1. /\ vms' = vms /\ daemon' = daemon /\ json' = json /\ db' = db /\ imported' = imported
      /\ worker' = worker /\ excused' = excused
  BY DEF Lease, outside, rows, faults
<1>2. IsDurable(p) /\ db.ep = loc[p].ep
  BY <1>0 DEF Held, Using
<1>3. /\ \/ /\ pc'[p] = "kill" /\ loc'[p] = loc[p] /\ lease' = p
            /\ worker.at \in {"idle", "checked"}
         \/ pc'[p] = "idle" /\ loc'[p] = NoLoc /\ lease' = lease
      /\ \A q \in Procs : q # p => pc'[q] = pc[q] /\ loc'[q] = loc[q]
  BY <1>t DEF Lease, Go, Done
<1>4. Outer' /\ KnownAt(p)'
  BY <1>0, <1>1, <1>2, <1>3 DEF Outer, OneVM, WorkerAgrees, KnownAt
<1>5. KeptAt(p)'
  BY <1>0, <1>1, AliveStays DEF KeptAt, Between
<1>6. Held(p)'
  <2>1. CASE pc'[p] = "idle" /\ loc'[p] = NoLoc
    BY <2>1 DEF Held, OneVM, NoLoc, NoRow, Using
  <2>2. CASE pc'[p] = "kill"
    BY <2>2, <1>0, <1>1, <1>2, <1>3 DEF Held, OneVM, IsDurable, Using
  <2> QED
    BY <2>1, <2>2, <1>3
<1> QED
  BY <1>0, <1>3, <1>4, <1>5, <1>6, Assemble

\* A daemon other than the killed one is left as it is.
LEMMA KilledOther ==
  ASSUME Typed, NEW e \in Endpoints, NEW x, e # x
  PROVE  Killed(x)[e] = daemon[e]
BY DEF Killed

\* The daemon killed is the one of the VM that is given back.
LEMMA KillTidy ==
  ASSUME Typed, Typed', Tidy, NEW p \in Procs, Kill(p)
  PROVE  Tidy'
<1>0. Alone(p) /\ KnownAt(p) /\ KeptAt(p) /\ Held(p) /\ Outer /\ pc[p] = "kill"
  BY Sole DEF Kill
<1>t. /\ pc \in [Procs -> Places] /\ vms \subseteq Endpoints /\ 0 \notin Endpoints
  BY TypedParts DEF Endpoints
<1>1. /\ vms' = vms /\ json' = json /\ db' = db /\ imported' = imported
      /\ lease' = lease /\ worker' = worker /\ excused' = excused
  BY DEF Kill, rows, faults
<1>2. loc[p].row.pid \in {0, loc[p].ep}
  BY <1>0 DEF Held, OneVM
<1>3. /\ pc'[p] = "unassign" /\ loc' = loc
      /\ \A q \in Procs : q # p => pc'[q] = pc[q] /\ loc'[q] = loc[q]
  BY <1>t DEF Kill, Go
<1>4. Outer' /\ KnownAt(p)'
  BY <1>0, <1>1, <1>3 DEF Outer, OneVM, WorkerAgrees, KnownAt
<1>5. KeptAt(p)'
  <2> SUFFICES ASSUME NEW e \in vms \ excused, (db.ep = e \/ json.ep = e), e # loc[p].ep
               PROVE  Alive(e)'
    BY <1>1, <1>3 DEF KeptAt, Between
  <2>1. daemon'[e] = daemon[e]
    BY <1>2, <1>t, KilledOther DEF Kill
  <2>2. Alive(e)
    BY <1>0 DEF KeptAt
  <2> QED
    BY <1>1, <2>1, <2>2, AliveStays
<1>6. Held(p)'
  BY <1>0, <1>1, <1>3 DEF Held, OneVM, IsDurable, Using
<1> QED
  BY <1>0, <1>3, <1>4, <1>5, <1>6, Assemble

\* A VM is given back, or was gone: in either case it is assigned no more.
LEMMA UnassignTidy ==
  ASSUME Typed, Typed', Tidy, NEW p \in Procs, Unassign(p) \/ TeardownUnassigns(p)
  PROVE  Tidy'
<1>0. Alone(p) /\ KnownAt(p) /\ KeptAt(p) /\ Held(p) /\ Outer /\ pc[p] = "unassign"
  BY Sole DEF Unassign, TeardownUnassigns
<1>t. pc \in [Procs -> Places] /\ loc \in [Procs -> Loc]
  BY TypedParts
<1>1. /\ daemon' = daemon /\ json' = json /\ db' = db /\ imported' = imported
      /\ worker' = worker
  BY DEF Unassign, TeardownUnassigns, rows
<1>2. excused \subseteq excused' /\ vms' \ excused' = (vms \ excused) \ {loc[p].ep}
  BY DEF Unassign, TeardownUnassigns, Excuse
<1>3. /\ \/ pc'[p] = "delete" /\ loc'[p] = loc[p] /\ lease' = lease
         \/ pc'[p] = "idle" /\ loc'[p] = NoLoc /\ lease' \in {lease, "free"}
      /\ \A q \in Procs : q # p => pc'[q] = pc[q] /\ loc'[q] = loc[q]
  BY <1>t DEF Unassign, TeardownUnassigns, Go, Done
<1>4. Outer' /\ KnownAt(p)'
  BY <1>0, <1>1, <1>2, <1>3 DEF Outer, OneVM, WorkerAgrees, KnownAt
<1>5. KeptAt(p)'
  BY <1>0, <1>1, <1>2, AliveStays DEF KeptAt
<1>6. Held(p)'
  <2>1. CASE pc'[p] = "idle" /\ loc'[p] = NoLoc
    BY <2>1 DEF Held, OneVM, NoLoc, NoRow, Using
  <2>2. CASE pc'[p] = "delete"
    BY <2>2, <1>0, <1>1, <1>2, <1>3 DEF Held, OneVM, IsDurable, Using
  <2> QED
    BY <2>1, <2>2, <1>3
<1> QED
  BY <1>0, <1>3, <1>4, <1>5, <1>6, Assemble

\* The row deleted is that of the VM given back, and no worker has read it.
LEMMA DeleteTidy ==
  ASSUME Typed, Typed', Tidy, NEW p \in Procs, Delete(p)
  PROVE  Tidy'
<1>0. Alone(p) /\ KnownAt(p) /\ KeptAt(p) /\ Held(p) /\ Outer /\ pc[p] = "delete"
  BY Sole DEF Delete
<1>t. /\ pc \in [Procs -> Places] /\ loc \in [Procs -> Loc] /\ \A e \in vms : e # 0
      /\ NoRow.ep = 0 /\ OneVM(NoRow)
  BY TypedParts DEF Endpoints, NoRow, OneVM
<1>1. /\ vms' = vms /\ daemon' = daemon /\ worker' = worker /\ lease' \in {lease, "free"}
      /\ excused' = excused
      /\ \/ IsDurable(p) /\ db' = NoRow /\ json' = json
         \/ ~IsDurable(p) /\ json' = NoRow /\ db' = db
         \/ json' = json /\ db' = db
  BY DEF Delete, outside, faults
<1>2. /\ loc[p].ep \notin vms \ excused
      /\ IF IsDurable(p) THEN db.ep = loc[p].ep /\ lease = p ELSE json.ep = loc[p].ep
  BY <1>0 DEF Held, Using
<1>3. /\ pc'[p] = "idle" /\ loc'[p] = NoLoc
      /\ \A q \in Procs : q # p => pc'[q] = pc[q] /\ loc'[q] = loc[q]
  BY <1>t DEF Delete, Done
<1>4. IsDurable(p) => worker.at \in {"idle", "checked"}
  BY <1>0, <1>2, RegistryAssumption DEF Outer, WorkerAgrees
<1>5. OneVM(json)' /\ OneVM(db)'
  BY <1>0, <1>1, <1>t DEF Outer, OneVM
<1>6. WorkerAgrees'
  BY <1>0, <1>1, <1>4 DEF Outer, WorkerAgrees
<1>7. KnownAt(p)'
  BY <1>0, <1>1, <1>2 DEF KnownAt
<1>8. KeptAt(p)'
  BY <1>0, <1>1, <1>2, <1>t, AliveStays DEF KeptAt
<1>9. Held(p)'
  BY <1>3 DEF Held, OneVM, NoLoc, NoRow, Using
<1> QED
  BY <1>0, <1>3, <1>5, <1>6, <1>7, <1>8, <1>9, Assemble DEF Outer

-----------------------------------------------------------------------------
(***************************************************************************)
(* The retained commands that use a session.                               *)
(***************************************************************************)
\* A snapshot written back is one of the VM the row is about already.
LEMMA WriteBackTidy ==
  ASSUME Typed, Typed', Tidy, NEW p \in Procs, WriteBack(p) \/ WriteFails(p)
  PROVE  Tidy'
<1>0. Alone(p) /\ KnownAt(p) /\ KeptAt(p) /\ Held(p) /\ Outer /\ pc[p] = "work"
  BY Sole DEF WriteBack, WriteFails
<1>t. pc \in [Procs -> Places] /\ loc \in [Procs -> Loc] /\ loc[p].row \in Row
  BY TypedParts DEF Loc
<1>1. /\ vms' = vms /\ daemon' = daemon /\ db' = db /\ imported' = imported
      /\ lease' = lease /\ worker' = worker /\ excused \subseteq excused'
  BY DEF WriteBack, WriteFails, Add, outside, rows, faults
<1>2. ~IsDurable(p) /\ json.ep = loc[p].ep /\ OneVM(loc[p].row) /\ loc[p].row.ep = loc[p].ep
      /\ loc[p].ep \in Endpoints /\ 0 \notin Endpoints
  BY <1>0 DEF Held, Using, Endpoints
<1>3. json'.ep = loc[p].ep /\ OneVM(json)'
  <2>1. CASE json' = loc[p].row
    BY <2>1, <1>2 DEF OneVM
  <2>2. CASE json' = [loc[p].row EXCEPT !.kernel = loc[p].ep]
    <3>1. /\ json'.ep = loc[p].ep /\ json'.pid = loc[p].row.pid
          /\ json'.kernel = loc[p].ep
      BY <2>2, <1>t, <1>2 DEF Row
    <3> QED
      BY <3>1, <1>2 DEF OneVM
  <2> QED
    BY <1>0, <1>2, <2>1, <2>2 DEF WriteBack, WriteFails, Add, Outer, OneVM, rows
<1>4. /\ \/ pc'[p] \in {"work", "kill"} /\ loc'[p] = loc[p]
         \/ pc'[p] = "idle" /\ loc'[p] = NoLoc
      /\ \A q \in Procs : q # p => pc'[q] = pc[q] /\ loc'[q] = loc[q]
  BY <1>t DEF WriteBack, WriteFails, Go, Done
<1>5. Outer' /\ KnownAt(p)'
  BY <1>0, <1>1, <1>2, <1>3, <1>4 DEF Outer, OneVM, WorkerAgrees, KnownAt
<1>6. KeptAt(p)'
  BY <1>0, <1>1, <1>2, <1>3, AliveStays DEF KeptAt, Between
<1>7. Held(p)'
  <2>1. CASE pc'[p] = "idle" /\ loc'[p] = NoLoc
    BY <2>1 DEF Held, OneVM, NoLoc, NoRow, Using
  <2>2. CASE pc'[p] \in {"work", "kill"} /\ loc'[p] = loc[p]
    BY <2>2, <1>0, <1>1, <1>2, <1>3 DEF Held, OneVM, IsDurable, Using
  <2> QED
    BY <2>1, <2>2, <1>4
<1> QED
  BY <1>0, <1>4, <1>5, <1>6, <1>7, Assemble

\* A lost session is pruned, or comes back as it was: its VM is gone.
LEMMA LostTidy ==
  ASSUME Typed, Typed', Tidy, NEW p \in Procs,
         LostExec(p) \/ LostRun(p) \/ LostConsole(p) \/ SyncPrunes(p)
  PROVE  Tidy'
<1>0. /\ Alone(p) /\ KnownAt(p) /\ KeptAt(p) /\ Held(p) /\ Outer
      /\ pc[p] \in {"work", "prune"}
  <2>1. pc[p] \in {"work", "prune"}
    BY DEF LostExec, LostRun, LostConsole, SyncPrunes
  <2> QED
    BY <2>1, Sole
<1>t. /\ pc \in [Procs -> Places] /\ loc \in [Procs -> Loc] /\ vms \subseteq Endpoints
      /\ 0 \notin Endpoints /\ NoRow.ep = 0 /\ OneVM(NoRow)
  BY TypedParts DEF Endpoints, NoRow, OneVM
<1>1. /\ vms' = vms /\ db' = db /\ imported' = imported
      /\ lease' = lease /\ worker' = worker /\ daemon' = Killed(json.pid)
  BY DEF LostExec, LostRun, LostConsole, SyncPrunes, PruneSession
<1>2. /\ ~IsDurable(p) /\ json.ep = loc[p].ep /\ OneVM(loc[p].row)
      /\ loc[p].row.ep = loc[p].ep
  BY <1>0 DEF Held, Using
<1>3. json.pid \in {0, loc[p].ep}
  BY <1>0, <1>2 DEF Outer, OneVM
<1>e. excused \subseteq excused' /\ loc[p].ep \notin vms' \ excused'
  <2>1. CASE LostExec(p) \/ LostRun(p) \/ LostConsole(p)
    BY <1>1, <1>2, <2>1 DEF LostExec, LostRun, LostConsole, Excuse
  <2>2. CASE SyncPrunes(p)
    <3>1. excused' = excused /\ pc[p] = "prune"
      BY <2>2 DEF SyncPrunes, faults
    <3> QED
      BY <1>0, <1>1, <3>1 DEF Held
  <2> QED
    BY <2>1, <2>2
<1>4. /\ \/ pc'[p] = "kill" /\ loc'[p] = loc[p] /\ json' = loc[p].row
         \/ pc'[p] = "idle" /\ loc'[p] = NoLoc /\ json' \in {NoRow, loc[p].row}
      /\ \A q \in Procs : q # p => pc'[q] = pc[q] /\ loc'[q] = loc[q]
  BY <1>t DEF LostExec, LostRun, LostConsole, SyncPrunes, PruneSession, Go, Done
<1>5. Outer' /\ KnownAt(p)'
  BY <1>0, <1>1, <1>2, <1>4, <1>e, <1>t DEF Outer, OneVM, WorkerAgrees, KnownAt
<1>6. KeptAt(p)'
  <2> SUFFICES ASSUME NEW e \in vms' \ excused', (db.ep = e \/ json'.ep = e)
               PROVE  Alive(e)'
    BY <1>1 DEF KeptAt
  <2>1. db.ep = e /\ e # loc[p].ep /\ e \in vms \ excused
    BY <1>1, <1>2, <1>4, <1>e, <1>t
  <2>2. daemon'[e] = daemon[e]
    BY <1>1, <1>3, <1>t, <2>1, KilledOther
  <2>3. Alive(e)
    BY <1>0, <2>1 DEF KeptAt
  <2> QED
    BY <1>1, <1>2, <2>1, <2>2, <2>3, AliveStays
<1>7. Held(p)'
  <2>1. CASE pc'[p] = "idle" /\ loc'[p] = NoLoc
    BY <2>1 DEF Held, OneVM, NoLoc, NoRow, Using
  <2>2. CASE pc'[p] = "kill" /\ loc'[p] = loc[p] /\ json' = loc[p].row
    BY <2>2, <1>0, <1>1, <1>2 DEF Held, OneVM, IsDurable, Using
  <2> QED
    BY <2>1, <2>2, <1>4
<1> QED
  BY <1>0, <1>4, <1>5, <1>6, <1>7, Assemble

\* A name that is not listed is about a VM that is gone.
LEMMA SyncListsTidy ==
  ASSUME Typed, Typed', Tidy, NEW p \in Procs, SyncLists(p)
  PROVE  Tidy'
<1>0. Alone(p) /\ KnownAt(p) /\ KeptAt(p) /\ Held(p) /\ Outer /\ pc[p] = "sync"
  BY Sole DEF SyncLists
<1>t. pc \in [Procs -> Places] /\ loc \in [Procs -> Loc]
  BY TypedParts
<1>1. /\ vms' = vms /\ daemon' = daemon /\ json' = json /\ db' = db /\ imported' = imported
      /\ lease' = lease /\ worker' = worker /\ excused' = excused
  BY DEF SyncLists, outside, rows, faults
<1>2. ~IsDurable(p) /\ json.ep = loc[p].ep
  BY <1>0 DEF Held, Using
<1>3. /\ \/ pc'[p] = "prune" /\ loc'[p] = loc[p] /\ loc[p].ep \notin vms
         \/ pc'[p] = "idle" /\ loc'[p] = NoLoc
      /\ \A q \in Procs : q # p => pc'[q] = pc[q] /\ loc'[q] = loc[q]
  BY <1>t DEF SyncLists, Go, Done
<1>4. Outer' /\ KnownAt(p)'
  BY <1>0, <1>1, <1>2, <1>3 DEF Outer, OneVM, WorkerAgrees, KnownAt
<1>5. KeptAt(p)'
  BY <1>0, <1>1, AliveStays DEF KeptAt, Between
<1>6. Held(p)'
  <2>1. CASE pc'[p] = "idle" /\ loc'[p] = NoLoc
    BY <2>1 DEF Held, OneVM, NoLoc, NoRow, Using
  <2>2. CASE pc'[p] = "prune"
    BY <2>2, <1>0, <1>1, <1>2, <1>3 DEF Held, OneVM, IsDurable, Using
  <2> QED
    BY <2>1, <2>2, <1>3
<1> QED
  BY <1>0, <1>3, <1>4, <1>5, <1>6, Assemble

\* A command that starts alone holds a row of one VM, or none.
LEMMA BeginTidy ==
  ASSUME Typed, Typed', Tidy, NEW p \in Procs, Begin(p), ~dirty'
  PROVE  Tidy'
<1>0. \A q \in Procs : pc[q] = "idle"
  BY DEF Begin
<1>1. Alone(p) /\ KnownAt(p) /\ KeptAt(p) /\ Held(p) /\ Outer
  BY <1>0, Sole
<1>2. PICK c \in Durable \cup Retained, place \in Places : BeginAs(p, c, place)
  BY BeginPlace
<1>t. /\ pc \in [Procs -> Places] /\ loc \in [Procs -> Loc] /\ vms \subseteq Endpoints
      /\ 0 \notin Endpoints /\ Durable \cap Retained = {}
  BY TypedParts DEF Endpoints, Durable, Retained
<1>3. /\ vms' = vms /\ daemon' = daemon /\ json' = json /\ db' = db /\ imported' = imported
      /\ lease' = lease /\ worker' = worker /\ excused' = excused
  BY DEF Begin, outside, rows
<1>4. /\ pc'[p] = place
      /\ place \in {"idle", "assign", "ready", "lease", "sync", "kill", "work"}
      /\ loc'[p] = IF place = "idle" THEN NoLoc
                   ELSE [cmd |-> c, row |-> Snapshot(c), ep |-> Snapshot(c).ep]
      /\ \A q \in Procs : q # p => pc'[q] = pc[q] /\ loc'[q] = loc[q]
  BY <1>2, <1>t DEF BeginAs
<1>5. loc[p].ep = 0
  BY <1>0, <1>1 DEF Held, NoLoc
<1>6. Outer'
  BY <1>1, <1>3 DEF Outer, OneVM, WorkerAgrees
<1>7. KnownAt(p)'
  BY <1>1, <1>3, <1>5, <1>t DEF KnownAt
<1>8. KeptAt(p)'
  BY <1>1, <1>3, <1>4, <1>5, <1>t, AliveStays DEF KeptAt
<1>9. Held(p)'
  <2>1. CASE place = "idle"
    BY <1>4, <2>1 DEF Held, OneVM, NoLoc, NoRow, Using
  <2>2. CASE place # "idle"
    <3>1. /\ loc'[p].row = Snapshot(c) /\ loc'[p].ep = Snapshot(c).ep
          /\ IsDurable(p)' = (c \in Durable)
      BY <1>4, <2>2 DEF IsDurable
    <3>2. OneVM(Snapshot(c)) /\ Snapshot(c) \in Row
      <4>1. OneVM(NoRow)
        BY DEF OneVM, NoRow
      <4>2. NoRow \in Row
        BY RegistryAssumption DEF Row, NoRow
      <4> QED
        BY <1>1, <4>1, <4>2, TypedParts DEF Outer, Snapshot
    <3>3. Snapshot(c) # NoRow => Snapshot(c).ep \in Endpoints
      <4>1. Snapshot(c).ep \in 0..MaxVMs
        BY <3>2 DEF Row
      <4>2. Snapshot(c) # NoRow => Snapshot(c).ep # 0
        BY <3>2 DEF OneVM
      <4> QED
        BY <4>1, <4>2, RegistryAssumption DEF Endpoints
    <3>4. place = "assign" => Snapshot(c).ep = 0
      BY <1>2 DEF BeginAs, NoRow
    <3>5. CASE c \in Durable
      <4>1. Snapshot(c) = db /\ place \in {"assign", "ready", "lease"}
        BY <1>2, <2>2, <3>5 DEF BeginAs, Snapshot
      <4>2. imported \/ json = NoRow
        BY <1>2, <3>5 DEF BeginAs
      <4>3. place = "assign" => db = NoRow
        BY <1>2, <4>1 DEF BeginAs
      <4>4. place # "assign" => db # NoRow
        BY <1>2, <2>2, <4>1 DEF BeginAs
      <4> QED
        BY <1>3, <1>4, <2>2, <3>1, <3>2, <3>3, <3>4, <3>5, <4>1, <4>2, <4>3, <4>4
           DEF Held, OneVM, Using
    <3>6. CASE c \notin Durable
      <4>1. place \in {"assign", "sync", "kill", "work"}
        BY <1>2, <2>2, <3>6 DEF BeginAs
      <4>2. place # "assign" => Snapshot(c) = json /\ json # NoRow
        BY <1>2, <3>6, <4>1 DEF BeginAs, Snapshot
      <4> QED
        BY <1>3, <1>4, <2>2, <3>1, <3>2, <3>3, <3>4, <3>6, <4>1, <4>2
           DEF Held, OneVM, Using
    <3> QED
      BY <3>5, <3>6
  <2> QED
    BY <2>1, <2>2
<1> QED
  BY <1>1, <1>4, <1>6, <1>7, <1>8, <1>9, Assemble
-----------------------------------------------------------------------------
(***************************************************************************)
(* The steps that are no command's.                                        *)
(***************************************************************************)
\* The import brings a row only where there is none; no durable command is
\* at work before it.
LEMMA ImportTidy ==
  ASSUME Typed, Typed', Tidy, Import
  PROVE  Tidy'
<1>1. /\ vms' = vms /\ daemon' = daemon /\ json' = json /\ json # NoRow /\ ~imported
      /\ lease' = lease /\ worker' = worker /\ pc' = pc /\ loc' = loc /\ excused' = excused
      /\ db' = IF db = NoRow THEN json ELSE db
  BY DEF Import, outside, faults
<1>2. NoRow.ep = 0 /\ \A e \in vms : e # 0
  BY TypedParts DEF NoRow, Endpoints
<1>3. Outer'
  BY <1>1 DEF Tidy, Outer, OneVM, WorkerAgrees
<1>4. Known'
  BY <1>1, <1>2 DEF Tidy, Known
<1>5. Kept'
  <2> SUFFICES ASSUME NEW e \in vms \ excused, (db'.ep = e \/ json.ep = e),
                      \A p \in Procs : loc[p].ep = e => pc[p] \notin Between
               PROVE  Alive(e)'
    BY <1>1 DEF Kept
  <2>1. Alive(e)
    BY <1>1 DEF Tidy, Kept
  <2> QED
    BY <1>1, <1>2, <2>1, AliveStays
<1>6. ASSUME NEW p \in Procs PROVE Held(p)'
  <2>1. Held(p)
    BY DEF Tidy
  <2>2. pc[p] # "idle" => ~IsDurable(p)
    BY <1>1, <2>1 DEF Held
  <2> QED
    BY <1>1, <2>1, <2>2 DEF Held, OneVM, IsDurable
<1> QED
  BY <1>1, <1>3, <1>4, <1>5, <1>6, AssembleQuiet

\* A daemon's step: one whose row is there goes on with its loop, or ends by
\* itself.
LEMMA DaemonTidy ==
  ASSUME Typed, Typed', Tidy, NEW e \in Endpoints,
         \/ DaemonChecks(e) \/ DaemonPings(e) \/ DaemonRefused(e)
         \/ DaemonMisses(e) \/ DaemonEnds(e)
  PROVE  Tidy'
<1>t. daemon \in [Endpoints -> Watch] /\ vms \subseteq Endpoints /\ daemon[e] \in Watch
  BY TypedParts
<1>1. /\ vms' = vms /\ json' = json /\ db' = db /\ imported' = imported
      /\ lease' = lease /\ worker' = worker /\ pc' = pc /\ loc' = loc /\ excused' = excused
  BY DEF DaemonChecks, DaemonPings, DaemonRefused, DaemonMisses, DaemonEnds, rows, faults
<1>2. /\ \A x \in Endpoints : x # e => daemon'[x] = daemon[x]
      /\ Alive(e) => Alive(e)'
  <2>1. CASE Ends(e, "ended")
    BY <1>t, <2>1 DEF Ends, Ended, NoDaemon, Alive
  <2>2. CASE DaemonChecks(e)
    <3>1. daemon[e].at = "check"
      BY <2>2 DEF DaemonChecks
    <3>2. CASE RowOf(e).ep = e
      <4>1. daemon' = [daemon EXCEPT ![e] = [daemon[e] EXCEPT !.at = "ping"]]
        BY <2>2, <3>2 DEF DaemonChecks, Goes
      <4>2. daemon'[e].at = "ping" /\ daemon'[e].store = daemon[e].store
        BY <1>t, <4>1 DEF Watch
      <4> QED
        BY <1>1, <1>t, <3>2, <4>1, <4>2 DEF Alive, Running, RowOf
    <3>3. CASE RowOf(e).ep # e
      BY <1>t, <2>2, <3>1, <3>3 DEF DaemonChecks, Ends, Alive
    <3> QED
      BY <3>2, <3>3
  <2>3. CASE daemon[e].at = "ping" /\ \E d \in Watch : /\ daemon' = [daemon EXCEPT ![e] = d]
                                                   /\ d.at = "check" /\ d.store = daemon[e].store
    BY <1>1, <1>t, <2>3 DEF Alive, Running, RowOf
  <2>4. /\ Counts(e, 0) => \E d \in Watch : /\ daemon' = [daemon EXCEPT ![e] = d]
                                           /\ d.at = "check" /\ d.store = daemon[e].store
        /\ Counts(e, 1) => \E d \in Watch : /\ daemon' = [daemon EXCEPT ![e] = d]
                                           /\ d.at = "check" /\ d.store = daemon[e].store
    BY CountSet
  <2>5. LET d == [daemon[e] EXCEPT !.at = "check"] IN
        d \in Watch /\ d.at = "check" /\ d.store = daemon[e].store
    BY <1>t DEF Watch
  <2>6. CASE DaemonPings(e)
    BY <2>3, <2>4, <2>6 DEF DaemonPings
  <2>7. CASE DaemonRefused(e)
    BY <2>1, <2>3, <2>4, <2>7 DEF DaemonRefused
  <2>8. CASE DaemonMisses(e)
    BY <2>3, <2>5, <2>8 DEF DaemonMisses, Goes
  <2>9. CASE DaemonEnds(e)
    BY <2>1, <2>9 DEF DaemonEnds
  <2> QED
    BY <2>2, <2>6, <2>7, <2>8, <2>9
<1>3. \A x \in vms : Alive(x) => Alive(x)'
  BY <1>1, <1>2, <1>t, AliveStays
<1>4. Outer' /\ Known'
  BY <1>1 DEF Tidy, Outer, OneVM, WorkerAgrees, Known
<1>5. Kept'
  BY <1>1, <1>3 DEF Tidy, Kept
<1>6. ASSUME NEW p \in Procs PROVE Held(p)'
  BY <1>1 DEF Tidy, Held, OneVM, IsDurable
<1> QED
  BY <1>1, <1>4, <1>5, <1>6, AssembleQuiet

\* A command that is killed leaves the rest as it is.
LEMMA CrashTidy ==
  ASSUME Typed, Typed', Tidy, NEW p \in Procs, Crash(p)
  PROVE  Tidy'
<1>0. Alone(p) /\ KnownAt(p) /\ KeptAt(p) /\ Outer /\ Done(p)
  BY Sole DEF Crash
<1>1. /\ vms' = vms /\ daemon' = daemon /\ json' = json /\ db' = db
      /\ lease' = lease /\ worker' = worker /\ excused' = excused \cup {loc[p].ep}
  BY DEF Crash, outside, rows, Excuse
<1> QED
  BY <1>0, <1>1, LeaveTidy DEF Outer, OneVM, WorkerAgrees

\* The backend takes a VM away, and with it what was claimed of it.
LEMMA ReclaimTidy ==
  ASSUME Typed, Typed', Tidy, NEW x \in Endpoints, Reclaim(x)
  PROVE  Tidy'
<1>1. /\ vms' = vms \ {x} /\ json' = json /\ db' = db /\ imported' = imported
      /\ lease' = lease /\ worker' = worker /\ pc' = pc /\ loc' = loc /\ daemon' = daemon
      /\ excused' = excused
  BY DEF Reclaim, rows, faults
<1>2. Outer' /\ Known'
  BY <1>1 DEF Tidy, Outer, OneVM, WorkerAgrees, Known
<1>3. Kept'
  BY <1>1, AliveStays DEF Tidy, Kept
<1>4. ASSUME NEW p \in Procs PROVE Held(p)'
  BY <1>1 DEF Tidy, Held, OneVM, IsDurable
<1> QED
  BY <1>1, <1>2, <1>3, <1>4, AssembleQuiet

\* The worker keeps to the row it read, which stays while no lease is held.
LEMMA WorkerTidy ==
  ASSUME Typed, Typed', Tidy, WorkerChecks \/ WorkerReads \/ WorkerConnects \/ WorkerWrites,
         ~dirty'
  PROVE  Tidy'
<1>t. db \in Row /\ worker \in [at : {"idle", "checked", "read", "connected"}, ep : 0..MaxVMs]
  BY TypedParts
<1>1. /\ vms' = vms /\ json' = json /\ imported' = imported
      /\ lease' = lease /\ pc' = pc /\ loc' = loc /\ daemon' = daemon
      /\ excused' = excused
  BY DEF WorkerChecks, WorkerReads, WorkerConnects, WorkerWrites, outside, rows, faults
<1>2. db'.ep = db.ep /\ (db = NoRow <=> db' = NoRow) /\ OneVM(db)'
  <2>0. OneVM(db)
    BY DEF Tidy
  <2>1. CASE db' = db
    BY <2>0, <2>1 DEF OneVM
  <2>2. CASE WorkerWrites
    <3>1. worker.ep = db.ep /\ db # NoRow
      BY <2>2 DEF WorkerWrites, Tidy, WorkerAgrees
    <3>2. db' = [db EXCEPT !.kernel = worker.ep]
      BY <2>2, <3>1 DEF WorkerWrites
    <3>3. db'.ep = db.ep /\ db'.pid = db.pid /\ db'.kernel = db.ep
      BY <3>1, <3>2, <1>t DEF Row
    <3>4. db.ep # 0 /\ NoRow.ep = 0
      BY <2>0, <3>1 DEF OneVM, NoRow
    <3> QED
      BY <2>0, <3>1, <3>3, <3>4 DEF OneVM
  <2> QED
    BY <2>1, <2>2 DEF WorkerChecks, WorkerReads, WorkerConnects, rows
<1>3. WorkerAgrees'
  <2>1. CASE WorkerChecks
    BY <2>1, <1>1, <1>2 DEF WorkerChecks, WorkerAgrees
  <2>2. CASE WorkerReads
    BY <2>2, <1>1, <1>2 DEF WorkerReads, WorkerAgrees, Quiet
  <2>3. CASE WorkerConnects
    BY <2>3, <1>1, <1>2, <1>t DEF WorkerConnects, Tidy, WorkerAgrees, Quiet
  <2>4. CASE WorkerWrites
    BY <2>4, <1>1, <1>2 DEF WorkerWrites, WorkerAgrees, Quiet
  <2> QED
    BY <2>1, <2>2, <2>3, <2>4
<1>4. Outer' /\ Known'
  BY <1>1, <1>2, <1>3 DEF Tidy, Outer, OneVM, Known
<1>5. Kept'
  BY <1>1, <1>2, AliveStays DEF Tidy, Kept
<1>6. ASSUME NEW p \in Procs PROVE Held(p)'
  BY <1>1, <1>2 DEF Tidy, Held, OneVM, IsDurable
<1> QED
  BY <1>1, <1>4, <1>5, <1>6, AssembleQuiet
-----------------------------------------------------------------------------
(***************************************************************************)
(* The invariant and what follows from it.                                 *)
(***************************************************************************)
\* A command's step leads from a tidy state to a tidy state, or a dirty one.
LEMMA CommandTidy ==
  ASSUME Typed, Typed', Tidy, NEW p \in Procs, Command(p), ~dirty'
  PROVE  Tidy'
<1>1. CASE Assign(p) \/ Preflight(p) \/ Record(p) \/ Spawn(p)
  BY <1>1, AssignTidy, PreflightTidy, RecordTidy, SpawnTidy
<1>2. CASE SetPid(p) \/ Undo(p) \/ UndoDelete(p) \/ Ready(p)
  BY <1>2, SetPidTidy, UndoTidy, UndoDeleteTidy, ReadyTidy
<1>3. CASE Lease(p) \/ Kill(p) \/ Unassign(p) \/ TeardownUnassigns(p) \/ Delete(p)
  BY <1>3, LeaseTidy, KillTidy, UnassignTidy, DeleteTidy
<1>4. CASE \/ WriteBack(p) \/ WriteFails(p) \/ LostExec(p) \/ LostRun(p) \/ LostConsole(p)
           \/ SyncLists(p) \/ SyncPrunes(p)
  BY <1>4, WriteBackTidy, LostTidy, SyncListsTidy
<1> QED
  BY <1>1, <1>2, <1>3, <1>4 DEF Command

\* What has gone wrong once stays on the record.
LEMMA DirtyStays == ASSUME Next PROVE dirty => dirty'
<1>1. ASSUME NEW p \in Procs, Command(p) PROVE dirty => dirty'
  BY <1>1 DEF Command, Assign, Preflight, Record, Spawn, SetPid, Undo, UndoDelete, Ready, Lease,
              Kill, Unassign, TeardownUnassigns, Delete, WriteBack, WriteFails, LostExec, LostRun,
              LostConsole, SyncLists, SyncPrunes, faults
<1>2. ASSUME NEW p \in Procs, Begin(p) \/ Crash(p) PROVE dirty => dirty'
  BY <1>2 DEF Begin, Crash, faults
<1>3. ASSUME NEW e \in Endpoints,
             \/ DaemonChecks(e) \/ DaemonPings(e) \/ DaemonRefused(e)
             \/ DaemonMisses(e) \/ DaemonEnds(e) \/ Reclaim(e)
      PROVE  dirty => dirty'
  BY <1>3 DEF DaemonChecks, DaemonPings, DaemonRefused, DaemonMisses, DaemonEnds, Reclaim, faults
<1>4. CASE Import \/ WorkerChecks \/ WorkerReads \/ WorkerConnects \/ WorkerWrites
  BY <1>4 DEF Import, WorkerChecks, WorkerReads, WorkerConnects, WorkerWrites, faults
<1> QED
  BY <1>1, <1>2, <1>3, <1>4 DEF Next

\* Every step keeps the invariant.
LEMMA RegistryStep == RegistryProof /\ [Next]_vars => RegistryProof'
<1> SUFFICES ASSUME RegistryProof, [Next]_vars PROVE RegistryProof'
  OBVIOUS
<1>1. CASE UNCHANGED vars
  BY <1>1 DEF vars, faults, RegistryProof, Typed, TypeOK, Running, Tidy, OneCommand, OneVM, Held,
              IsDurable, Known, Kept, Alive, RowOf, WorkerAgrees
<1>2. CASE Next
  <2> USE DEF RegistryProof
  <2>1. Typed'
    <3>1. ASSUME NEW p \in Procs, Command(p) \/ Crash(p) PROVE Typed'
      BY <3>1, AllocateTyped, UseTyped DEF Command
    <3> QED
      BY <1>2, <3>1, BeginTyped, OthersTyped DEF Next
  <2>2. ASSUME ~dirty' PROVE Tidy'
    <3>0. Tidy
      BY <1>2, <2>2, DirtyStays
    <3>1. ASSUME NEW p \in Procs, Begin(p) \/ Command(p) \/ Crash(p) PROVE Tidy'
      BY <2>1, <2>2, <3>0, <3>1, BeginTidy, CommandTidy, CrashTidy
    <3>2. ASSUME NEW e \in Endpoints,
                 \/ DaemonChecks(e) \/ DaemonPings(e) \/ DaemonRefused(e)
                 \/ DaemonMisses(e) \/ DaemonEnds(e) \/ Reclaim(e)
          PROVE  Tidy'
      BY <2>1, <3>0, <3>2, DaemonTidy, ReclaimTidy
    <3>3. CASE Import \/ WorkerChecks \/ WorkerReads \/ WorkerConnects \/ WorkerWrites
      BY <2>1, <2>2, <3>0, <3>3, ImportTidy, WorkerTidy
    <3> QED
      BY <1>2, <3>1, <3>2, <3>3 DEF Next
  <2> QED
    BY <2>1, <2>2
<1> QED
  BY <1>1, <1>2

\* Every reachable state is well formed and, as long as commands did not
\* overlap, tidy.
LEMMA RegistryAlways == Spec => []RegistryProof
<1>1. Init => RegistryProof
  BY RegistryInit
<1>2. RegistryProof /\ [Next]_vars => RegistryProof'
  BY RegistryStep
<1> QED
  BY <1>1, <1>2, PTL DEF Spec

\* No VM is forgotten: but for those an error took away, each is in one of the
\* two registries or in the hands of the command that allocates or releases it.
THEOREM NothingLeaks == Spec => []RegistryInv
<1>1. RegistryProof => RegistryInv
  BY DEF RegistryProof, Typed, RegistryInv, NoLeak, Tidy, Known
<1> QED
  BY <1>1, RegistryAlways, PTL

\* A session at rest whose VM lives has its keep-alive daemon, unless an error
\* took it or it ended by itself: it never misses the row written before it.
THEOREM SessionsKept == Spec => []RowKept
<1>1. RegistryProof => RowKept
  <2> SUFFICES ASSUME RegistryProof, ~dirty, \A p \in Procs : pc[p] = "idle",
                      NEW e \in vms \ excused, db.ep = e \/ json.ep = e
               PROVE  Running(e) \/ daemon[e].at = "ended"
    BY DEF RowKept
  <2>1. \A p \in Procs : loc[p].ep = e => pc[p] \notin Between
    BY DEF Between
  <2> QED
    BY <2>1 DEF RegistryProof, Tidy, Kept, Alive
<1> QED
  BY <1>1, RegistryAlways, PTL

\* The kernel written by name into a durable row is one of the row's own VM,
\* however long the worker took to connect to it.
THEOREM KernelIsOwn == Spec => []KernelMatches
<1>1. RegistryProof => KernelMatches
  BY DEF RegistryProof, Tidy, OneVM, KernelMatches
<1> QED
  BY <1>1, RegistryAlways, PTL
=============================================================================
