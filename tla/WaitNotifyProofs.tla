--------------------------- MODULE WaitNotifyProofs ---------------------------
(***************************************************************************)
(* No wake-up is lost, and topics end up showing their rows, for any       *)
(* clients, rows, batches and topics.  Every action keeps the types, what  *)
(* is promised to a handler that has read a row, and what is promised to   *)
(* one that is blocked on it.                                              *)
(***************************************************************************)
EXTENDS WaitNotify, TLAPS

\* Somebody will hear of row i: a publication is posted or owed.
Heard(i) == posted[i] > 0 \/ i \in owed

\* A request that waits for a row names a row.
LEMMA RowRequest ==
  ASSUME TypeOK, NEW c \in Clients, req[c].kind = "row"
  PROVE  req[c].on \in Rows
<1>1. req[c] \in Waits \cup Changes \cup {NoReq} BY DEF TypeOK
<1>2. CASE req[c] \in Waits BY <1>2 DEF Waits
<1>3. CASE req[c] \in Changes BY <1>3 DEF Changes
<1>4. CASE req[c] = NoReq BY <1>4 DEF NoReq, None
<1> QED BY <1>1, <1>2, <1>3, <1>4

\* Names: clients, rows and the idle loop are told apart.
LEMMA Apart ==
  ASSUME NEW c \in Clients, NEW i \in Rows
  PROVE  c # i /\ c # None /\ i # None /\ i \in Topics
BY WaitAssumption DEF Clients, Rows, Topics, None

\* Every step keeps the state well formed.
LEMMA TypeStep ==
  ASSUME TypeOK, Next
  PROVE  TypeOK'
<1> USE DEF TypeOK, States, Rows, Topics, Clients
<1>1. ASSUME NEW c \in Clients, Start(c) PROVE TypeOK'
  <2>1. row' \in [Rows -> States] BY <1>1 DEF Start
  <2> QED BY <1>1, <2>1 DEF Start, Answer
<1>2. ASSUME NEW c \in Clients, Cancel(c) PROVE TypeOK'
  <2>1. row' \in [Rows -> States] BY <1>2 DEF Cancel
  <2>2. posted' \in [Topics -> Nat] BY <1>2 DEF Cancel, Post
  <2> QED BY <1>2, <2>1, <2>2 DEF Cancel, Answer
<1>3. ASSUME Uncertain PROVE row' \in [Rows -> States] /\ forced' \in BOOLEAN
  BY <1>3 DEF Uncertain
<1>4. ASSUME NEW c \in Clients, Stop(c) PROVE TypeOK'
  <2>1. row' \in [Rows -> States] /\ forced' \in BOOLEAN
    BY <1>3, <1>4 DEF Stop
  <2> QED BY <1>4, <2>1 DEF Stop, Answer
<1>5. ASSUME NEW c \in Clients, NotifyCondition(c) PROVE TypeOK'
  BY <1>5 DEF NotifyCondition
<1>6. ASSUME NEW c \in Clients, WaitReads(c) PROVE TypeOK'
  <2>1. req[c].on \in Rows BY <1>6, RowRequest DEF WaitReads
  <2> QED BY <1>6, <2>1 DEF WaitReads, Answer
<1>7. ASSUME NEW c \in Clients, WaitBlocks(c) PROVE TypeOK'
  BY <1>7 DEF WaitBlocks, Idle
<1>8. ASSUME NEW c \in Clients, RevisionWait(c) PROVE TypeOK'
  BY <1>8 DEF RevisionWait
<1>9. ASSUME NEW c \in Clients, Timeout(c) PROVE TypeOK'
  BY <1>9 DEF Timeout, Answer
<1>10. ASSUME NEW c \in Clients, Disconnect(c) PROVE TypeOK'
  BY <1>10 DEF Disconnect
<1>11. ASSUME NEW i \in Rows, PublishReads(i) PROVE TypeOK'
  BY <1>11 DEF PublishReads
<1>12. ASSUME NEW i \in Rows, PublishWakes(i) PROVE TypeOK'
  BY <1>12 DEF PublishWakes, Wake, Idle
<1>13. ASSUME Close PROVE TypeOK'
  BY <1>13 DEF Close, loop
<1>14. ASSUME NEW i \in Rows, Notify(i) PROVE TypeOK'
  BY <1>14 DEF Notify, Post
<1>15. ASSUME Signal PROVE TypeOK'
  BY <1>3, <1>15 DEF Signal, loop
<1>16. ASSUME NEW c \in Clients, Call(c) PROVE TypeOK'
  BY <1>16 DEF Call
<1>17. ASSUME NEW e \in Execs, Commit(e) PROVE TypeOK'
  BY <1>17 DEF Commit
<1>18. ASSUME NEW e \in Execs, Prune(e) PROVE TypeOK'
  BY <1>18 DEF Prune, loop
<1>19. ASSUME NEW b \in Batches, CommitBatch(b) PROVE TypeOK'
  BY <1>19 DEF CommitBatch
<1> QED
  BY <1>1, <1>2, <1>4, <1>5, <1>6, <1>7, <1>8, <1>9, <1>10, <1>11, <1>12, <1>13,
     <1>14, <1>15, <1>16, <1>17, <1>18, <1>19 DEF Next, Loop, Serve, Notifies

\* What a step does to the promise about a row: a row that is not settled
\* silently (by a forced stop) stays active, or somebody will hear of it; and
\* only a publication takes a promise away.
LEMMA RowStep ==
  ASSUME TypeOK, Next, NEW i \in Rows, ~Active(i)', ~forced', Active(i) \/ Heard(i)
  PROVE  Heard(i)' \/ PublishReads(i)
<1> USE DEF TypeOK, Heard, Active
<1>0. i \in Topics /\ posted[i] \in Nat BY DEF Topics
<1>1. ASSUME NEW c \in Clients, Start(c) PROVE Heard(i)'
  BY <1>1 DEF Start
<1>2. ASSUME NEW c \in Clients, Cancel(c) PROVE Heard(i)'
  <2>1. CASE Heard(i) BY <1>0, <1>2, <2>1 DEF Cancel, Post
  <2>2. CASE Active(i) BY <1>0, <1>2, <2>2 DEF Cancel, Post
  <2> QED BY <2>1, <2>2
<1>3. ASSUME Uncertain PROVE row'[i] = row[i] /\ ~forced
  BY <1>3 DEF Uncertain
<1>4. ASSUME NEW c \in Clients, Stop(c) PROVE Heard(i)'
  BY <1>3, <1>4 DEF Stop
<1>5. ASSUME NEW c \in Clients, WaitReads(c) \/ WaitBlocks(c) \/ RevisionWait(c)
               \/ Timeout(c) \/ Disconnect(c) \/ NotifyCondition(c) \/ Call(c)
      PROVE  Heard(i)'
  BY <1>5 DEF WaitReads, WaitBlocks, RevisionWait, Timeout, Disconnect, NotifyCondition, Call
<1>6. ASSUME NEW j \in Rows, PublishReads(j) PROVE Heard(i)' \/ PublishReads(i)
  BY <1>0, <1>6 DEF PublishReads
<1>7. ASSUME NEW j \in Rows, PublishWakes(j) PROVE Heard(i)'
  BY <1>7 DEF PublishWakes
<1>8. ASSUME Close PROVE Heard(i)'
  BY <1>8 DEF Close
<1>9. ASSUME NEW j \in Rows, Notify(j) PROVE Heard(i)'
  BY <1>0, <1>9 DEF Notify, Post
<1>10. ASSUME Signal PROVE Heard(i)'
  BY <1>3, <1>10 DEF Signal
<1>11. ASSUME NEW e \in Execs, Commit(e) PROVE Heard(i)'
  BY <1>11 DEF Commit, Rows
<1>12. ASSUME NEW e \in Execs, Prune(e) PROVE Heard(i)'
  BY <1>12 DEF Prune, Rows
<1>13. ASSUME NEW b \in Batches, CommitBatch(b) PROVE Heard(i)'
  BY <1>13 DEF CommitBatch, Rows
<1> QED
  BY <1>1, <1>2, <1>4, <1>5, <1>6, <1>7, <1>8, <1>9, <1>10, <1>11, <1>12, <1>13
  DEF Next, Loop, Serve, Notifies

\* Forced stops are not undone.
LEMMA ForcedStep ==
  ASSUME TypeOK, Next, forced
  PROVE  forced'
BY DEF TypeOK, Next, Loop, Serve, Notifies, Start, Cancel, Stop, NotifyCondition, WaitReads,
       WaitBlocks, RevisionWait, Timeout, Disconnect, PublishReads, PublishWakes, Close,
       Notify, Signal, Uncertain, Call, Commit, Prune, CommitBatch

\* While a segment holds the loop, no other one runs: it ends, or nothing of
\* what it and its handler hold changes.
LEMMA BusyStep ==
  ASSUME TypeOK, Next, busy.who # None
  PROVE  \/ \E c \in Clients : WaitBlocks(c)
         \/ \E i \in Rows : PublishWakes(i)
         \/ /\ busy' = busy
            /\ \A i \in Rows : ~PublishReads(i)
            /\ \A c \in Clients : pc[c] # "idle" => pc'[c] = pc[c] /\ req'[c] = req[c]
<1>1. ~LoopFree BY DEF LoopFree, Idle
<1>2. ASSUME NEW d \in Clients, Call(d), NEW c \in Clients, pc[c] # "idle"
      PROVE  pc'[c] = pc[c] /\ req'[c] = req[c]
  BY <1>2 DEF Call, TypeOK
<1>3. \A i \in Rows : ~PublishReads(i) BY <1>1 DEF PublishReads
<1>4. CASE \E d \in Clients : Call(d) BY <1>2, <1>3, <1>4 DEF Call
<1>5. CASE Notifies BY <1>3, <1>5 DEF Notifies, Notify
<1>6. CASE \E e \in Execs : Commit(e) \/ Prune(e) BY <1>3, <1>6 DEF Commit, Prune, loop
<1>7. CASE \E b \in Batches : CommitBatch(b) BY <1>3, <1>7 DEF CommitBatch
<1>8. CASE Loop
  BY <1>1, <1>8 DEF Loop, Serve, Start, Cancel, Stop, NotifyCondition, WaitReads, RevisionWait,
       Timeout, Disconnect, PublishReads, Close
<1>9. CASE Signal BY <1>1, <1>9 DEF Signal
<1> QED BY <1>4, <1>5, <1>6, <1>7, <1>8, <1>9 DEF Next

\* A handler comes to hold the loop only by reading an active row.
LEMMA ReadStep ==
  ASSUME WaitInv, Next
  PROVE  ReadHeard'
<1> SUFFICES ASSUME NEW c \in Clients, busy'.who = c
    PROVE  /\ Reads(c)' /\ req'[c].kind = "row"
           /\ ~ (Active(req[c].on))' /\ ~forced' => (Heard(req[c].on))'
  BY DEF ReadHeard, Heard
<1>0. TypeOK /\ ReadHeard BY DEF WaitInv
<1>1. c # None /\ \A i \in Rows : c # i BY Apart, WaitAssumption DEF Clients, None
<1>2. CASE busy.who # None
  <2>1. /\ busy' = busy /\ \A i \in Rows : ~PublishReads(i)
        /\ \A d \in Clients : pc[d] # "idle" => pc'[d] = pc[d] /\ req'[d] = req[d]
    BY <1>0, <1>1, <1>2, BusyStep DEF WaitBlocks, PublishWakes, Idle
  <2>2. Reads(c) /\ req[c].kind = "row" BY <1>0, <2>1 DEF ReadHeard
  <2>3. pc'[c] = pc[c] /\ req'[c] = req[c] BY <2>1, <2>2 DEF Reads
  <2>4. PICK i \in Rows : i = req[c].on BY <1>0, <2>2, RowRequest
  <2>5. ASSUME ~Active(i)', ~forced' PROVE Heard(i)'
    <3>1. ~forced BY <1>0, <2>5, ForcedStep
    <3>2. Active(i) \/ Heard(i) BY <1>0, <2>1, <2>4, <3>1 DEF ReadHeard, Heard
    <3> QED BY <1>0, <2>1, <2>5, <3>2, RowStep
  <2> QED BY <2>2, <2>3, <2>4, <2>5 DEF Reads, Active, Heard
<1>3. CASE busy.who = None
  <2>1. busy' # busy BY <1>1, <1>3
  <2>2. ~ \E d \in Clients : Call(d) BY <2>1 DEF Call
  <2>3. ~ Notifies BY <2>1 DEF Notifies, Notify
  <2>4. ~ \E e \in Execs : Commit(e) \/ Prune(e) BY <2>1 DEF Commit, Prune, loop
  <2>5. ~ \E b \in Batches : CommitBatch(b) BY <2>1 DEF CommitBatch
  <2>6. ~ Signal BY <2>1 DEF Signal, loop
  <2>7. Loop BY <2>2, <2>3, <2>4, <2>5, <2>6 DEF Next
  <2>8. ~ Close BY <2>1 DEF Close, loop
  <2>9. ASSUME NEW i \in Rows PROVE ~ PublishReads(i) /\ ~ PublishWakes(i)
    BY <1>1 DEF PublishReads, PublishWakes, Idle
  <2>10. PICK d \in Clients : Serve(d) BY <2>7, <2>8, <2>9 DEF Loop
  <2>11. ~ WaitBlocks(d) BY <1>1 DEF WaitBlocks, Idle
  <2>12. WaitReads(d)
    BY <2>1, <2>10, <2>11 DEF Serve, Start, Cancel, Stop, NotifyCondition, RevisionWait,
       Timeout, Disconnect, Answer
  <2>13. d = c /\ Active(req[c].on) /\ UNCHANGED <<pc, req, row>>
    BY <2>1, <2>12 DEF WaitReads, Answer
  <2> QED BY <2>12, <2>13 DEF WaitReads, Reads, Active
<1> QED BY <1>2, <1>3

\* A handler blocks on a row only from the loop, holding what it read.
LEMMA BlockStep ==
  ASSUME TypeOK, Next, NEW c \in Clients, pc'[c] = "blocked", req'[c].kind = "row"
  PROVE  /\ req'[c] = req[c]
         /\ pc[c] = "blocked" \/ (WaitBlocks(c) /\ busy.who = c)
<1> USE DEF TypeOK
<1>1. ASSUME NEW d \in Clients, Serve(d) \/ Call(d)
      PROVE  /\ req'[c] = req[c]
             /\ pc[c] = "blocked" \/ (WaitBlocks(c) /\ busy.who = c)
  <2>1. CASE Start(d) \/ Cancel(d) \/ Stop(d) \/ Timeout(d)
    BY <2>1 DEF Start, Cancel, Stop, Timeout, Answer
  <2>2. CASE NotifyCondition(d) BY <2>2 DEF NotifyCondition
  <2>3. CASE WaitReads(d) BY <2>3 DEF WaitReads, Answer
  <2>4. CASE WaitBlocks(d) BY <2>4 DEF WaitBlocks
  <2>5. CASE RevisionWait(d) BY <2>5 DEF RevisionWait
  <2>6. CASE Disconnect(d) BY <2>6 DEF Disconnect
  <2>7. CASE Call(d) BY <2>7 DEF Call
  <2> QED BY <1>1, <2>1, <2>2, <2>3, <2>4, <2>5, <2>6, <2>7 DEF Serve
<1>2. CASE \E i \in Rows : PublishReads(i) \/ PublishWakes(i) \/ Notify(i)
  BY <1>2 DEF PublishReads, PublishWakes, Wake, Notify
<1>3. CASE Close \/ Signal BY <1>3 DEF Close, Signal, loop
<1>4. CASE \E e \in Execs : Commit(e) \/ Prune(e) BY <1>4 DEF Commit, Prune, loop
<1>5. CASE \E b \in Batches : CommitBatch(b) BY <1>5 DEF CommitBatch
<1> QED BY <1>1, <1>2, <1>3, <1>4, <1>5 DEF Next, Loop, Notifies

\* Every step keeps the promise to the handlers that are blocked.
LEMMA WakeStep ==
  ASSUME WaitInv, Next
  PROVE  NoLostWakeup'
<1>0. TypeOK /\ NoLostWakeup /\ ReadHeard BY DEF WaitInv
<1> SUFFICES ASSUME NEW c \in Clients, pc'[c] = "blocked", req'[c].kind = "row", ~forced',
                    row'[req'[c].on] \notin {"queued", "running"}
    PROVE  \/ posted'[req'[c].on] > 0 \/ req'[c].on \in owed'
           \/ busy'.who = req'[c].on
  BY DEF NoLostWakeup, Active
<1>a. req'[c] = req[c] BY <1>0, BlockStep
<1>b. PICK i \in Rows : i = req[c].on BY <1>0, <1>a, RowRequest
<1>c. ~Active(i)' BY <1>a, <1>b DEF Active
<1> SUFFICES Heard(i)' \/ busy'.who = i BY <1>a, <1>b DEF Heard
<1>1. pc[c] = "blocked" \/ (WaitBlocks(c) /\ busy.who = c) BY <1>0, BlockStep
<1>2. ~forced BY <1>0, ForcedStep
<1>3. CASE Active(i) \/ Heard(i)
  BY <1>0, <1>c, <1>3, RowStep DEF PublishReads
<1>4. CASE ~Active(i) /\ ~Heard(i)
  <2>0. ~ (WaitBlocks(c) /\ busy.who = c) BY <1>0, <1>b, <1>2, <1>4 DEF ReadHeard, Heard
  <2>1. pc[c] = "blocked" /\ busy.who = i
    BY <1>0, <1>a, <1>b, <1>1, <1>2, <1>4, <2>0 DEF NoLostWakeup, Heard
  <2>2. i # None /\ \A d \in Clients : d # i BY Apart, WaitAssumption DEF Rows, None
  <2>3. ~ PublishWakes(i) BY <1>0, <1>b, <2>1 DEF PublishWakes, Wake, TypeOK
  <2>4. busy' = busy
    BY <1>0, <2>1, <2>2, <2>3, BusyStep DEF WaitBlocks, PublishWakes
  <2> QED BY <2>1, <2>4
<1> QED BY <1>3, <1>4

\* No wake-up is lost: whoever blocks on a row in execution.wait or batch.wait
\* hears of its end, however the worker's commits fall between the handler's
\* subscription, its read and its wait (_wait_execution, _wait_batch and
\* _notify_from_worker in controller.py), for any number of clients, rows and topics.
THEOREM NoWakeupLost == Spec => []WaitInv
<1>1. Init => WaitInv
  <2> SUFFICES ASSUME Init PROVE WaitInv OBVIOUS
  <2>1. TypeOK BY DEF Init, TypeOK, Idle, NoReq, None, States
  <2>2. NoLostWakeup BY DEF Init, NoLostWakeup
  <2>3. ReadHeard BY WaitAssumption DEF Init, ReadHeard, Idle, None, Clients
  <2> QED BY <2>1, <2>2, <2>3 DEF WaitInv
<1>2. WaitInv /\ [Next]_vars => WaitInv'
  <2>1. CASE Next BY <2>1, TypeStep, WakeStep, ReadStep DEF WaitInv
  <2>2. CASE UNCHANGED vars
    BY <2>2 DEF vars, WaitInv, TypeOK, NoLostWakeup, ReadHeard, Active, Reads
  <2> QED BY <2>1, <2>2
<1> QED BY <1>1, <1>2, PTL DEF Spec

-----------------------------------------------------------------------------
(***************************************************************************)
(* The second result: topics end up showing their rows.  A publication     *)
(* reads the row when it runs, so the last one to run shows the last       *)
(* state, provided that every change posts or owes another one; a row      *)
(* comes into being without one, before anything was published about it.   *)
(***************************************************************************)
\* The rows of a batch exist together.
Linked == \A b \in Batches : \A e \in Members[b] : row[b] = None <=> row[e] = None

\* Nothing is published about a row that does not exist.
Unpublished ==
  \A i \in Rows : row[i] = None =>
    topic[i] = "unset" /\ posted[i] = 0 /\ i \notin owed /\ busy.who # i

\* What a publication has read is the row, or another one follows.
ReadCurrent ==
  \A i \in Rows :
    busy.who = i /\ posted[i] = 0 /\ i \notin owed /\ row[i] # "gone" /\ ~forced
      => busy.read = row[i]

PublishInv == Linked /\ Unpublished /\ ReadCurrent /\ PayloadSettles

\* Requests name what they are about.
LEMMA ChangeRequest ==
  ASSUME TypeOK, NEW c \in Clients
  PROVE  /\ req[c].kind = "start" =>
              req[c].on \in Rows /\ \A b \in Batches : req[c].on \notin Members[b]
         /\ req[c].kind = "cancel" => req[c].on \in Rows
         /\ req[c].kind = "notify" => req[c].on \in Others
<1>1. req[c] \in Waits \cup Changes \cup {NoReq} BY DEF TypeOK
<1>2. CASE req[c] \in Waits BY <1>2 DEF Waits
<1>3. CASE req[c] \in Changes BY <1>3 DEF Changes
<1>4. CASE req[c] = NoReq BY <1>4 DEF NoReq, None
<1> QED BY <1>1, <1>2, <1>3, <1>4

\* A step that changes no row, topic, publication or segment.
LEMMA PublishUntouched ==
  ASSUME PublishInv, UNCHANGED <<row, owed, posted, topic, busy, forced>>
  PROVE  PublishInv'
BY DEF PublishInv, Linked, Unpublished, ReadCurrent, PayloadSettles

\* execution.start and execution.batch.start.
LEMMA PublishStart ==
  ASSUME WaitInv, PublishInv, NEW c \in Clients, Start(c)
  PROVE  PublishInv'
<1> USE DEF Start, Asks, Answer, LoopFree
<1>0. TypeOK BY DEF WaitInv
<1>1. CASE row[req[c].on] # None
  BY <1>1, PublishUntouched
<1>2. CASE row[req[c].on] = None
  <2> DEFINE i == req[c].on
             new == {i} \cup (IF i \in Batches THEN Members[i] ELSE {})
  <2>1. i \in Rows /\ \A b \in Batches : i \notin Members[b]
    BY <1>0, ChangeRequest
  <2>2. new \subseteq Rows /\ \A j \in new : row[j] = None
    BY <1>2, <2>1, WaitAssumption DEF PublishInv, Linked, Rows
  <2>3. row' = [j \in Rows |-> IF j \in new THEN "queued" ELSE row[j]]
    BY <1>2
  <2>4. UNCHANGED <<owed, posted, topic, busy, forced>> OBVIOUS
  <2> HIDE DEF new
  <2>5. \A j \in Rows : row'[j] = None => row[j] = None /\ j \notin new
    BY <2>3 DEF None
  <2>6. Linked'
    <3> SUFFICES ASSUME NEW b \in Batches, NEW e \in Members[b]
        PROVE row'[b] = None <=> row'[e] = None
      BY DEF Linked
    <3>1. b \in Rows /\ e \in Rows BY WaitAssumption DEF Rows
    <3>2. b \in new <=> e \in new
      BY <2>1, WaitAssumption DEF new, Rows
    <3> QED BY <2>3, <3>1, <3>2 DEF PublishInv, Linked, None
  <2>7. Unpublished' BY <2>4, <2>5 DEF PublishInv, Unpublished
  <2>8. ReadCurrent' /\ PayloadSettles'
    BY <2>2, <2>3, <2>4 DEF PublishInv, Unpublished, ReadCurrent, PayloadSettles
  <2> QED BY <2>6, <2>7, <2>8 DEF PublishInv
<1> QED BY <1>1, <1>2

\* execution.cancel and batch.cancel announce every row they change.
LEMMA PublishCancel ==
  ASSUME WaitInv, PublishInv, NEW c \in Clients, Cancel(c)
  PROVE  PublishInv'
<1> USE DEF Cancel, Asks, Answer, LoopFree
<1>0. TypeOK BY DEF WaitInv
<1>1. CASE row[req[c].on] \in {None, "gone"}
  BY <1>1, PublishUntouched
<1>2. CASE row[req[c].on] \notin {None, "gone"}
  <2> DEFINE i == req[c].on
             all == {i} \cup (IF i \in Batches THEN Members[i] ELSE {})
  <2>1. i \in Rows BY <1>0, ChangeRequest
  <2>2. all \subseteq Rows /\ \A j \in all : row[j] # None
    BY <1>2, <2>1, WaitAssumption DEF PublishInv, Linked, Rows
  <2>3. posted' = [t \in Topics |-> posted[t] + (IF t \in all THEN 1 ELSE 0)]
    BY <1>2 DEF Post
  <2>4. \A j \in Rows : /\ row'[j] = row[j] \/ (j \in all /\ row[j] = "queued" /\ row'[j] = "done")
    BY <1>2
  <2>5. UNCHANGED <<owed, topic, busy, forced>> OBVIOUS
  <2> HIDE DEF all
  <2>6. \A j \in Rows : /\ posted[j] \in Nat
                        /\ posted'[j] = IF j \in all THEN posted[j] + 1 ELSE posted[j]
    BY <1>0, <2>3 DEF TypeOK, Topics
  <2>7. \A j \in Rows : row'[j] = None <=> row[j] = None
    BY <2>4 DEF None
  <2>8. Linked' BY <2>7, WaitAssumption DEF PublishInv, Linked, Rows
  <2>9. Unpublished' BY <2>2, <2>5, <2>6, <2>7 DEF PublishInv, Unpublished
  <2>10. ReadCurrent' /\ PayloadSettles'
    BY <2>4, <2>5, <2>6 DEF PublishInv, ReadCurrent, PayloadSettles
  <2> QED BY <2>8, <2>9, <2>10 DEF PublishInv
<1> QED BY <1>1, <1>2

\* Requests that touch neither rows nor publications, and forced stops.
LEMMA PublishServe ==
  ASSUME WaitInv, PublishInv, NEW c \in Clients, Serve(c)
  PROVE  PublishInv'
<1>0. TypeOK BY DEF WaitInv
<1>1. CASE Start(c) BY <1>1, PublishStart
<1>2. CASE Cancel(c) BY <1>2, PublishCancel
<1>3. CASE Stop(c)
  <2>1. CASE UNCHANGED <<row, forced>> BY <1>3, <2>1, PublishUntouched DEF Stop, Answer
  <2>2. CASE Uncertain
    <3>1. CASE Begun # {}
      <4>1. forced' BY <2>2, <3>1 DEF Uncertain, Begun
      <4>2. \A i \in Rows : row'[i] = None <=> row[i] = None
        BY <2>2 DEF Uncertain, Begun, Active, None
      <4> QED BY <1>3, <4>1, <4>2, WaitAssumption
            DEF Stop, Answer, PublishInv, Linked, Unpublished, ReadCurrent, PayloadSettles, Rows
    <3>2. CASE Begun = {}
      <4>0. row' = [i \in Rows |-> row[i]] /\ forced' = forced
        BY <1>0, <2>2, <3>2 DEF Uncertain, TypeOK
      <4>1. row' = row /\ forced' = forced BY <1>0, <4>0 DEF TypeOK
      <4> QED BY <1>3, <4>1, PublishUntouched DEF Stop, Answer
    <3> QED BY <3>1, <3>2
  <2> QED BY <1>3, <2>1, <2>2 DEF Stop
<1>4. CASE NotifyCondition(c)
  <2>1. req[c].on \in Others /\ req[c].on \notin Rows
    BY <1>0, <1>4, ChangeRequest, WaitAssumption DEF NotifyCondition, Asks, Rows
  <2>2. \A i \in Rows : topic'[i] = topic[i]
    BY <1>0, <1>4, <2>1 DEF NotifyCondition, TypeOK, Topics
  <2> QED BY <1>4, <2>2 DEF NotifyCondition, PublishInv, Linked, Unpublished, ReadCurrent,
                            PayloadSettles
<1>5. CASE WaitReads(c)
  <2>1. \A i \in Rows : busy.who # i /\ busy'.who # i
    BY <1>5, Apart, WaitAssumption DEF WaitReads, LoopFree, Idle, Answer, None, Rows
  <2> QED BY <1>5, <2>1 DEF WaitReads, PublishInv, Linked, Unpublished, ReadCurrent, PayloadSettles
<1>6. CASE WaitBlocks(c)
  <2>1. \A i \in Rows : busy.who # i /\ busy'.who # i
    BY <1>6, Apart, WaitAssumption DEF WaitBlocks, Idle, None, Rows
  <2> QED BY <1>6, <2>1 DEF WaitBlocks, PublishInv, Linked, Unpublished, ReadCurrent, PayloadSettles
<1>7. CASE RevisionWait(c) \/ Timeout(c) \/ Disconnect(c)
  BY <1>7, PublishUntouched DEF RevisionWait, Timeout, Disconnect, Answer
<1> QED BY <1>1, <1>2, <1>3, <1>4, <1>5, <1>6, <1>7 DEF Serve

\* Publications and the commits of workers.
LEMMA PublishStep ==
  ASSUME WaitInv, PublishInv, Next
  PROVE  PublishInv'
<1>0. TypeOK BY DEF WaitInv
<1>t. \A i \in Rows : i \in Topics /\ posted[i] \in Nat /\ row[i] \in States
  BY <1>0 DEF TypeOK, Topics
<1> USE DEF PublishInv
<1>1. ASSUME NEW c \in Clients, Serve(c) PROVE PublishInv'
  BY <1>1, PublishServe
<1>2. ASSUME NEW i \in Rows, PublishReads(i) PROVE PublishInv'
  <2>1. \A j \in Rows : posted'[j] = IF j = i THEN posted[j] - 1 ELSE posted[j]
    BY <1>0, <1>2, <1>t DEF PublishReads, TypeOK
  <2>2. /\ \A j \in Rows : busy.who # j
        /\ busy'.who = i /\ busy'.read = row[i] /\ posted[i] > 0
        /\ UNCHANGED <<row, owed, topic, forced>>
    BY <1>2, WaitAssumption DEF PublishReads, LoopFree, Idle, None, Rows
  <2> QED BY <1>t, <2>1, <2>2 DEF Linked, Unpublished, ReadCurrent, PayloadSettles
<1>3. ASSUME NEW i \in Rows, PublishWakes(i) PROVE PublishInv'
  <2>1. \A j \in Rows : topic'[j] = IF j = i THEN busy.read ELSE topic[j]
    BY <1>0, <1>3, <1>t DEF PublishWakes, TypeOK
  <2>2. /\ busy.who = i /\ \A j \in Rows : busy'.who # j
        /\ UNCHANGED <<row, owed, posted, forced>>
    BY <1>3, WaitAssumption DEF PublishWakes, Idle, None, Rows
  <2> QED BY <2>1, <2>2 DEF Linked, Unpublished, ReadCurrent, PayloadSettles
<1>4. ASSUME NEW i \in Rows, Notify(i) PROVE PublishInv'
  <2>1. \A j \in Rows : posted'[j] = IF j = i THEN posted[j] + 1 ELSE posted[j]
    BY <1>4, <1>t DEF Notify, Post
  <2> QED BY <1>4, <1>t, <2>1 DEF Notify, Linked, Unpublished, ReadCurrent, PayloadSettles
<1>5. ASSUME NEW i \in Rows, Active(i), owed' = owed \cup {i}, UNCHANGED <<posted, topic, busy, forced>>,
             NEW s \in {"running", "done"}, row' = [row EXCEPT ![i] = s]
      PROVE  PublishInv'
  <2>1. \A j \in Rows : row'[j] = IF j = i THEN s ELSE row[j] BY <1>0, <1>5 DEF TypeOK
  <2>2. \A j \in Rows : row'[j] = None <=> row[j] = None BY <1>5, <2>1 DEF Active, None
  <2>3. Linked' BY <2>2, WaitAssumption DEF Linked, Rows
  <2>4. row[i] # None BY <1>5 DEF Active, None
  <2>5. Unpublished' BY <1>5, <2>2, <2>4 DEF Unpublished
  <2>6. ReadCurrent' /\ PayloadSettles' BY <1>5, <2>1 DEF ReadCurrent, PayloadSettles
  <2> QED BY <2>3, <2>5, <2>6
<1>6. ASSUME NEW e \in Execs, Commit(e) PROVE PublishInv'
  BY <1>5, <1>6 DEF Commit, Rows
<1>7. ASSUME NEW b \in Batches, CommitBatch(b) PROVE PublishInv'
  BY <1>5, <1>7 DEF CommitBatch, Rows
<1>8. ASSUME NEW e \in Execs, Prune(e) PROVE PublishInv'
  <2>1. \A j \in Rows : row'[j] = IF j = e THEN "gone" ELSE row[j] BY <1>0, <1>8 DEF Prune, TypeOK
  <2>2. \A j \in Rows : row'[j] = None <=> row[j] = None BY <1>8, <2>1 DEF Prune, None
  <2>3. Linked' BY <2>2, WaitAssumption DEF Linked, Rows
  <2> QED BY <1>8, <2>1, <2>2, <2>3 DEF Prune, loop, Unpublished, ReadCurrent, PayloadSettles
<1>9. ASSUME Signal PROVE PublishInv'
  <2>1. CASE Begun # {}
    <3>1. forced' BY <1>9, <2>1 DEF Signal, Uncertain, Begun
    <3>2. \A i \in Rows : row'[i] = None <=> row[i] = None
      BY <1>9 DEF Signal, Uncertain, Begun, Active, None
    <3>3. Linked' BY <3>2, WaitAssumption DEF Linked, Rows
    <3> QED BY <1>9, <3>1, <3>2, <3>3 DEF Signal, loop, Unpublished, ReadCurrent, PayloadSettles
  <2>2. CASE Begun = {}
    <3>0. row' = [i \in Rows |-> row[i]] /\ forced' = forced
      BY <1>0, <1>9, <2>2 DEF Signal, Uncertain, TypeOK
    <3>1. row' = row /\ forced' = forced BY <1>0, <3>0 DEF TypeOK
    <3> QED BY <1>9, <3>1, PublishUntouched DEF Signal, loop
  <2> QED BY <2>1, <2>2
<1>10. ASSUME Close \/ \E c \in Clients : Call(c) PROVE PublishInv'
  BY <1>10, PublishUntouched DEF Close, Call, loop
<1> QED
  BY <1>1, <1>2, <1>3, <1>4, <1>6, <1>7, <1>8, <1>9, <1>10 DEF Next, Loop, Notifies

\* _publish_execution, _publish_batch: once everything owed and posted has
\* run, a topic shows its row as it is, in whatever order the publications of
\* worker threads and cancel requests reached the loop.
THEOREM TopicsSettle == Spec => []PayloadSettles
<1>1. Init => PublishInv
  BY WaitAssumption DEF Init, PublishInv, Linked, Unpublished, ReadCurrent, PayloadSettles,
     Idle, None, Rows, Topics
<1>2. WaitInv /\ PublishInv /\ [Next]_vars => PublishInv'
  <2>1. CASE UNCHANGED vars BY <2>1, PublishUntouched DEF vars
  <2> QED BY <2>1, PublishStep
<1>3. PublishInv => PayloadSettles
  BY DEF PublishInv
<1> QED BY <1>1, <1>2, <1>3, NoWakeupLost, PTL DEF Spec
==============================================================================
