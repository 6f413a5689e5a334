----------------------------- MODULE OutputSpool -----------------------------
(***************************************************************************)
(* The output of one execution: the text spool (a file), the output index  *)
(* and the artifact rows (SQLite), and the artifact files.  The file and   *)
(* the database are written one after the other and a crash may fall       *)
(* between any two writes.  Four actors share them:                        *)
(*   worker   the kernel worker: appends output, finalizes, commits the    *)
(*            terminal state; after a restart, its successor               *)
(*   force    the forced stop of the controller, which finalizes the same  *)
(*            execution while the worker is still alive                    *)
(*   reader   a client that pages through the index                        *)
(*   prune    another process that deletes old terminal executions         *)
(* A byte is <<n, pos, width>>: byte pos of a UTF-8 character of width     *)
(* bytes that append number n wrote.                                       *)
(***************************************************************************)
EXTENDS Integers, Sequences, FiniteSets

CONSTANTS
  Texts,            \* texts an append may write: bytes <<pos, width>>
  ChunkBytes,       \* OUTPUT_CHUNK_BYTES
  ArtifactBytes,    \* OUTPUT_ARTIFACT_THRESHOLD_BYTES
  Budgets,          \* page budgets a reader may ask for
  Overhead,         \* bytes of an event on the wire beside its text
  MaxAppends, MaxRich, MaxFaults   \* bounds on texts, rich events, faults

\* UTF-8: every byte of a text belongs to a whole character.
WholeCharacters(text) ==
  \A i \in 1..Len(text) :
    LET start == i - text[i][1]
        width == text[i][2]
    IN  /\ text[i][1] <= width /\ start \in 0..(Len(text) - width)
        /\ \A p \in 1..width : text[start + p] = <<p, width>>

\* No character is wider than a chunk.
ASSUME SpoolAssumption ==
  /\ ChunkBytes \in Nat \ {0}
  /\ \A text \in Texts : text \in Seq((1..ChunkBytes) \X (1..ChunkBytes)) /\ WholeCharacters(text)
  /\ ArtifactBytes \in Nat /\ Budgets \subseteq Nat /\ Overhead \in Nat \ {0}
  /\ {MaxAppends, MaxRich, MaxFaults} \subseteq Nat

VARIABLES
  row,       \* the execution's row, and whether it exists
  index,     \* output_chunks: ranges of the spool, or artifact references
  file,      \* the bytes of the text spool
  arts,      \* rows of the artifacts table
  disk,      \* files of the artifacts directory
  pc, loc,   \* where each finalizing actor is, and what it has read
  writer,    \* the append whose transaction is open
  page,      \* the reader
  prune,     \* the pruning process
  appends, rich, faults   \* counters of the bounds

vars == <<row, index, file, arts, disk, pc, loc, writer, page, prune,
          appends, rich, faults>>
store == <<row, index, arts>>
counters == <<appends, rich, faults>>

Actors == {"worker", "force"}

Byte == (1..MaxAppends) \X (1..ChunkBytes) \X (1..ChunkBytes)
Rows == [off : Int, len : Nat, art : Nat]
Execution == [exists : BOOLEAN, size : Nat, spooled : BOOLEAN, sealed : BOOLEAN,
              sha : Seq(Byte), complete : BOOLEAN, proved : BOOLEAN, terminal : BOOLEAN]
Artifact == [id : Nat \ {0}, data : Seq(Byte), whole : BOOLEAN]
ArtifactFile == [id : Nat \ {0}, data : Seq(Byte)]

-----------------------------------------------------------------------------
(***************************************************************************)
(* Splitting a text into chunks.                                           *)
(***************************************************************************)
Lead(b) == b[2] = 1
Last(b) == b[2] = b[3]

\* The bytes of a text.
Encode(n, text) == [i \in 1..Len(text) |-> <<n, text[i][1], text[i][2]>>]

\* Mutant: the cut is not moved back to a character boundary.
CutAnywhere(data, s) ==
  IF s + ChunkBytes < Len(data) THEN s + ChunkBytes ELSE Len(data)

\* The end of the chunk that starts after s bytes: as far as the limit, moved
\* back while the next byte continues a character.
Cut(data, s) ==
  LET limit == s + ChunkBytes
      starts == {e \in (s + 1)..limit : Lead(data[e + 1])}
  IN  IF limit >= Len(data) THEN Len(data)
      ELSE IF starts = {} THEN limit
      ELSE CHOOSE e \in starts : \A o \in starts : o <= e

\* An index row: a range of the spool, or an artifact or event.
Span(start, end) == [off |-> start, len |-> end - start, art |-> 0]
IndexRow(art) == [off |-> -1, len |-> 0, art |-> art]

-----------------------------------------------------------------------------
NoLoc == [size |-> 0, spooled |-> FALSE, digest |-> <<>>, existing |-> {},
          art |-> 0, again |-> FALSE]
Idle == [off |-> 0, data |-> <<>>, left |-> <<>>, rows |-> <<>>, cut |-> 0, stage |-> "none"]
NoPage == [at |-> "idle", cursor |-> 0, from |-> 0, got |-> <<>>, spooled |-> FALSE]
NoPrune == [at |-> "idle", files |-> {}, spool |-> FALSE]

Init ==
  /\ row = [exists |-> TRUE, size |-> 0, spooled |-> FALSE, sealed |-> FALSE,
            sha |-> <<>>, complete |-> TRUE, proved |-> FALSE, terminal |-> FALSE]
  /\ index = <<>> /\ file = <<>> /\ arts = {} /\ disk = {}
  /\ pc = [a \in Actors |-> "idle"]
  /\ loc = [a \in Actors |-> NoLoc]
  /\ writer = Idle /\ page = NoPage /\ prune = NoPrune
  /\ appends = 0 /\ rich = 0 /\ faults = 0

Go(a, place) == pc' = [pc EXCEPT ![a] = place]
\* BEGIN IMMEDIATE: one write transaction at a time.
Free == writer.stage \notin {"open", "write"}
Truncate(bytes, n) == IF Len(bytes) > n THEN SubSeq(bytes, 1, n) ELSE bytes

\* An exception in the worker: mark_output_incomplete and finalize once more
\* (_internal_failure); an exception there ends the worker thread.
\* The forced stop answers with the error.
Raise(a) ==
  IF a = "force" THEN Go(a, "idle")
  ELSE Go(a, IF loc[a].again THEN "dead" ELSE "failing")

\* A new artifact name (a UUID).
Fresh ==
  LET taken == {d.id : d \in disk} \cup {t.id : t \in arts} \cup prune.files
               \cup {loc[a].art : a \in Actors}
  IN  CHOOSE i \in 1..(Cardinality(taken) + 1) : i \notin taken

-----------------------------------------------------------------------------
(***************************************************************************)
(* The worker appends text: one transaction around the file's writes.      *)
(***************************************************************************)
\* Mutant: the append does not look whether the output was finalized.
AppendAfterSeal ==
  /\ pc["worker"] = "idle" /\ ~row.terminal /\ Free /\ appends < MaxAppends
  /\ \E text \in Texts :
       /\ appends' = appends + 1
       /\ LET data == Encode(appends + 1, text)
          IN  writer' = [Idle EXCEPT !.off = row.size, !.data = data, !.left = data,
                                     !.stage = "open"]
       /\ Go("worker", "append")
  /\ UNCHANGED <<store, file, disk, loc, page, prune, rich, faults>>

BeginAppend ==
  /\ pc["worker"] = "idle" /\ ~row.terminal /\ Free /\ appends < MaxAppends
  /\ \E text \in Texts :
       /\ appends' = appends + 1
       /\ IF row.exists /\ ~row.sealed
          THEN LET data == Encode(appends + 1, text)
               IN  /\ writer' = [Idle EXCEPT !.off = row.size, !.data = data, !.left = data,
                                             !.stage = "open"]
                   /\ Go("worker", "append")
          ELSE Raise("worker") /\ writer' = writer
  /\ UNCHANGED <<store, file, disk, loc, page, prune, rich, faults>>

\* The spool is opened, created at need, and cut to the committed length.
OpenSpool ==
  /\ writer.stage = "open"
  /\ file' = Truncate(file, writer.off)
  /\ writer' = [writer EXCEPT !.stage = "write"]
  /\ UNCHANGED <<store, disk, pc, loc, page, prune, counters>>

\* os.write may write fewer bytes than it was given: one, or all.
WriteBytes ==
  /\ writer.stage = "write" /\ writer.left # <<>>
  /\ \E n \in {1, Len(writer.left)} :
       /\ file' = file \o SubSeq(writer.left, 1, n)
       /\ writer' = [writer EXCEPT !.left = SubSeq(writer.left, n + 1, Len(writer.left))]
  /\ UNCHANGED <<store, disk, pc, loc, page, prune, counters>>

\* After the fsync the chunks are indexed, an INSERT each; an empty text is
\* one empty chunk, ...
IndexChunk ==
  /\ writer.stage = "write" /\ writer.left = <<>>
  /\ writer.rows = <<>> \/ writer.cut < Len(writer.data)
  /\ LET end == Cut(writer.data, writer.cut)
     IN  writer' = [writer EXCEPT
           !.rows = Append(@, Span(writer.off + writer.cut, writer.off + end)),
           !.cut = end]
  /\ UNCHANGED <<store, file, disk, pc, loc, page, prune, counters>>

\* ... and with the commit they are seen and the committed length moves.
CommitAppend ==
  /\ writer.stage = "write" /\ writer.left = <<>>
  /\ writer.rows # <<>> /\ writer.cut = Len(writer.data)
  /\ index' = index \o writer.rows
  /\ row' = [row EXCEPT !.spooled = TRUE, !.size = writer.off + Len(writer.data)]
  /\ writer' = Idle
  /\ Go("worker", "idle")
  /\ UNCHANGED <<file, arts, disk, loc, page, prune, counters>>

\* The write or the commit fails: the transaction is rolled back.
AppendFails ==
  /\ writer.stage \in {"open", "write"} /\ faults < MaxFaults
  /\ faults' = faults + 1
  /\ writer' = [writer EXCEPT !.stage = "undo"]
  /\ UNCHANGED <<store, file, disk, pc, loc, page, prune, appends, rich>>

\* Outside the transaction: the file is cut back; an OSError is ignored.
UndoAppend ==
  /\ writer.stage = "undo"
  /\ \/ file' = Truncate(file, writer.off) /\ faults' = faults
     \/ UNCHANGED file /\ faults < MaxFaults /\ faults' = faults + 1
  /\ writer' = Idle /\ Raise("worker")
  /\ UNCHANGED <<store, disk, loc, page, prune, appends, rich>>

(***************************************************************************)
(* Rich output: an artifact file, its row, its index entry, each on its    *)
(* own.  A representation kept as text is an append, other events are an   *)
(* index entry alone.                                                      *)
(***************************************************************************)
WriteRich ==
  /\ pc["worker"] = "idle" /\ ~row.terminal /\ rich < MaxRich
  /\ rich' = rich + 1
  /\ disk' = disk \cup {[id |-> Fresh, data |-> <<>>]}
  /\ loc' = [loc EXCEPT !["worker"].art = Fresh]
  /\ Go("worker", "richrow")
  /\ UNCHANGED <<store, file, writer, page, prune, appends, faults>>

InsertRich ==
  /\ pc["worker"] = "richrow" /\ Free
  /\ LET art == [id |-> loc["worker"].art, data |-> <<>>, whole |-> FALSE]
     IN  \/ /\ row.exists
            /\ arts' = arts \cup {art}
            /\ Go("worker", "richindex")
            /\ UNCHANGED <<disk, faults>>
         \/ /\ \/ ~row.exists /\ faults' = faults
               \/ row.exists /\ faults < MaxFaults /\ faults' = faults + 1
            /\ disk' = {d \in disk : d.id # art.id}
            /\ Raise("worker")
            /\ UNCHANGED arts
  /\ UNCHANGED <<row, index, file, loc, writer, page, prune, appends, rich>>

IndexRich ==
  /\ pc["worker"] = "richindex" /\ Free
  /\ IF row.exists /\ ~row.sealed
     THEN index' = Append(index, IndexRow(loc["worker"].art)) /\ Go("worker", "idle")
     ELSE UNCHANGED index /\ Raise("worker")
  /\ UNCHANGED <<row, arts, file, disk, loc, writer, page, prune, counters>>

IndexEvent ==
  /\ pc["worker"] = "idle" /\ ~row.terminal /\ Free /\ rich < MaxRich
  /\ rich' = rich + 1
  /\ IF row.exists /\ ~row.sealed
     THEN index' = Append(index, IndexRow(0)) /\ UNCHANGED pc
     ELSE UNCHANGED index /\ Raise("worker")
  /\ UNCHANGED <<row, arts, file, disk, loc, writer, page, prune, appends, faults>>

-----------------------------------------------------------------------------
(***************************************************************************)
(* Finalization, by the worker or by the forced stop.                      *)
(***************************************************************************)
\* The last proof is recorded: no output follows.
Settle ==
  /\ pc["worker"] = "idle" /\ ~row.terminal /\ row.exists /\ Free
  /\ row' = [row EXCEPT !.proved = TRUE]
  /\ Go("worker", "read")
  /\ UNCHANGED <<index, arts, file, disk, loc, writer, page, prune, counters>>

\* _internal_failure: nothing is left to do for a terminal execution.
Fail ==
  /\ pc["worker"] = "failing" /\ Free
  /\ IF row.exists /\ ~row.terminal
     THEN /\ row' = [row EXCEPT !.complete = FALSE]
          /\ loc' = [loc EXCEPT !["worker"] = [NoLoc EXCEPT !.again = TRUE]]
          /\ Go("worker", "read")
     ELSE Go("worker", "done") /\ UNCHANGED <<row, loc>>
  /\ UNCHANGED <<index, arts, file, disk, writer, page, prune, counters>>

\* Mutant: the forced stop does not mark the output incomplete.
ForceUnmarked ==
  /\ pc["force"] = "idle" /\ pc["worker"] # "down"
  /\ row.exists /\ ~row.terminal /\ Free /\ faults < MaxFaults
  /\ faults' = faults + 1
  /\ loc' = [loc EXCEPT !["force"] = NoLoc]
  /\ Go("force", "read")
  /\ UNCHANGED <<store, file, disk, writer, page, prune, appends, rich>>

\* force_uncertain_active marks the output incomplete before it finalizes.
ForcedStop ==
  /\ pc["force"] = "idle" /\ pc["worker"] # "down"
  /\ row.exists /\ ~row.terminal /\ Free /\ faults < MaxFaults
  /\ faults' = faults + 1
  /\ row' = [row EXCEPT !.complete = FALSE]
  /\ loc' = [loc EXCEPT !["force"] = NoLoc]
  /\ Go("force", "read")
  /\ UNCHANGED <<index, arts, file, disk, writer, page, prune, appends, rich>>

\* The row and the whole-text artifacts are read once, before anything else;
\* the forced stop leaves an execution that became terminal alone.
FinalizeReads(a) ==
  /\ pc[a] = "read"
  /\ loc' = [loc EXCEPT ![a].size = row.size, ![a].spooled = row.spooled,
                        ![a].digest = <<>>,
                        ![a].existing = {t.id : t \in {t \in arts : t.whole}}]
  /\ IF ~row.exists THEN Raise(a)
     ELSE IF a = "force" /\ row.terminal THEN Go(a, "idle")
     ELSE Go(a, IF row.sealed THEN "indexonly" ELSE IF row.spooled THEN "hash" ELSE "index")
  /\ UNCHANGED <<store, file, disk, writer, page, prune, counters>>

FinalizeHashes(a) ==
  /\ pc[a] = "hash"
  /\ loc' = [loc EXCEPT ![a].digest = file]
  /\ Go(a, "stat")
  /\ UNCHANGED <<store, file, disk, writer, page, prune, counters>>

FinalizeStats(a) ==
  /\ pc[a] = "stat"
  /\ IF Len(file) # loc[a].size THEN Raise(a)
     ELSE Go(a, IF loc[a].size > ArtifactBytes /\ loc[a].existing = {} THEN "copy" ELSE "index")
  /\ UNCHANGED <<store, file, disk, loc, writer, page, prune, counters>>

\* create_artifact_from_file: a copy under a new name, then its row.
FinalizeCopies(a) ==
  /\ pc[a] = "copy"
  /\ IF row.exists
     THEN /\ disk' = disk \cup {[id |-> Fresh, data |-> file]}
          /\ loc' = [loc EXCEPT ![a].art = Fresh]
          /\ Go(a, "insert")
     ELSE Raise(a) /\ UNCHANGED <<disk, loc>>
  /\ UNCHANGED <<store, file, writer, page, prune, counters>>

FinalizeInserts(a) ==
  /\ pc[a] = "insert" /\ Free
  /\ \/ /\ row.exists
        /\ \E d \in disk :
             /\ d.id = loc[a].art
             /\ arts' = arts \cup {[id |-> d.id, data |-> d.data, whole |-> TRUE]}
        /\ loc' = [loc EXCEPT ![a].existing = {loc[a].art}]
        /\ Go(a, "index")
        /\ UNCHANGED <<disk, faults>>
     \/ /\ \/ ~row.exists /\ faults' = faults
           \/ row.exists /\ faults < MaxFaults /\ faults' = faults + 1
        /\ disk' = {d \in disk : d.id # loc[a].art}
        /\ Raise(a)
        /\ UNCHANGED <<arts, loc>>
  /\ UNCHANGED <<row, index, file, writer, page, prune, appends, rich>>

Indexed(art) == \E i \in 1..Len(index) : index[i].art = art

\* _ensure_artifact_output_index, one artifact at a time.
FinalizeIndexes(a) ==
  /\ pc[a] \in {"index", "indexonly"} /\ loc[a].existing # {} /\ Free
  /\ LET art == CHOOSE x \in loc[a].existing : TRUE
     IN  IF row.exists /\ (\E t \in arts : t.id = art)
         THEN /\ index' = IF Indexed(art) THEN index ELSE Append(index, IndexRow(art))
              /\ loc' = [loc EXCEPT ![a].existing = @ \ {art}]
              /\ UNCHANGED pc
         ELSE Raise(a) /\ UNCHANGED <<index, loc>>
  /\ UNCHANGED <<row, arts, file, disk, writer, page, prune, counters>>

FinalizeCommits(a) ==
  /\ pc[a] \in {"index", "indexonly"} /\ loc[a].existing = {} /\ Free
  /\ IF ~row.exists THEN Raise(a) /\ UNCHANGED row
     ELSE /\ row' = IF pc[a] = "indexonly" \/ row.sealed THEN row
                    ELSE [row EXCEPT !.sealed = TRUE, !.sha = loc[a].digest]
          /\ Go(a, "terminal")
  /\ UNCHANGED <<index, arts, file, disk, loc, writer, page, prune, counters>>

\* The terminal transition that follows; refused when the other was first.
Terminate(a) ==
  /\ pc[a] = "terminal" /\ Free
  /\ IF row.exists /\ ~row.terminal
     THEN row' = [row EXCEPT !.terminal = TRUE] /\ Go(a, IF a = "worker" THEN "done" ELSE "idle")
     ELSE UNCHANGED row /\ Raise(a)
  /\ UNCHANGED <<index, arts, file, disk, loc, writer, page, prune, counters>>

\* Before each event the worker looks whether the execution is still its own.
WorkerYields ==
  /\ pc["worker"] = "idle" /\ row.terminal
  /\ Go("worker", "done")
  /\ UNCHANGED <<store, file, disk, loc, writer, page, prune, counters>>

-----------------------------------------------------------------------------
(***************************************************************************)
(* The controller process dies; its successor reconciles the row and       *)
(* resumes, or finalizes at once when the proof was already durable.       *)
(***************************************************************************)
Crash ==
  /\ pc["worker"] # "down" /\ faults < MaxFaults
  /\ faults' = faults + 1
  /\ pc' = [a \in Actors |-> IF a = "worker" THEN "down" ELSE "idle"]
  /\ loc' = [a \in Actors |-> NoLoc]
  /\ writer' = Idle
  /\ UNCHANGED <<store, file, disk, page, prune, appends, rich>>

Restart ==
  /\ pc["worker"] = "down"
  /\ IF ~row.exists \/ row.terminal THEN Go("worker", "done") /\ UNCHANGED row
     ELSE IF row.proved THEN Go("worker", "read") /\ UNCHANGED row
     ELSE Go("worker", "idle") /\ row' = [row EXCEPT !.complete = FALSE]
  /\ UNCHANGED <<index, arts, file, disk, loc, writer, page, prune, counters>>

-----------------------------------------------------------------------------
(***************************************************************************)
(* Paging.  The row and the index rows are two reads.                      *)
(***************************************************************************)
Wire(r) == Overhead + r.len

\* Bytes used by the first n rows after a cursor.
Used(rows, cursor) ==
  LET u[n \in 0..(Len(rows) - cursor)] ==
        IF n = 0 THEN 0 ELSE u[n-1] + Wire(rows[cursor + n])
  IN  u

\* How many rows fit a budget.
Fits(rows, cursor, budget) ==
  Cardinality({n \in 1..(Len(rows) - cursor) : Used(rows, cursor)[n] <= budget})

PageReads ==
  /\ page.at \in {"idle", "more"} /\ row.exists
  /\ \E cursor \in IF page.at = "more" THEN {page.cursor} ELSE {0, 1} :
       page' = [page EXCEPT !.at = "rows", !.cursor = cursor, !.spooled = row.spooled,
                            !.from = IF page.at = "more" THEN @ ELSE cursor,
                            !.got = IF page.at = "more" THEN @ ELSE <<>>]
  /\ UNCHANGED <<store, file, disk, pc, loc, writer, prune, counters>>

\* Mutant: the next page starts one row late.
PageSkips ==
  /\ page.at = "rows"
  /\ \E budget \in Budgets :
       LET n == Fits(index, page.cursor, budget)
       IN  page' = [page EXCEPT !.got = @ \o SubSeq(index, page.cursor + 1, page.cursor + n),
                                !.cursor = page.cursor + n + 1,
                                !.at = IF page.cursor + n + 1 < Len(index) THEN "more" ELSE "end"]
  /\ UNCHANGED <<store, file, disk, pc, loc, writer, prune, counters>>

\* _output_event_from_row fails: a range whose spool is unknown, gone or short.
Unreadable(r) ==
  r.off >= 0 /\ (~page.spooled \/ r.off + r.len > Len(file))

\* The rows that fit, and the first that does not, are read.  Errors: a
\* cursor past the end, an unreadable row, a row larger than the budget.
PageRows ==
  /\ page.at = "rows"
  /\ \E budget \in Budgets :
       LET rest == Len(index) - page.cursor
           n == Fits(index, page.cursor, budget)
           broken == \E i \in 1..(IF n < rest THEN n + 1 ELSE n) :
                       Unreadable(index[page.cursor + i])
       IN  page' = IF rest < 0 \/ broken \/ (rest > 0 /\ n = 0)
                   THEN [page EXCEPT !.at = "idle"]
                   ELSE [page EXCEPT !.got = @ \o SubSeq(index, page.cursor + 1, page.cursor + n),
                                     !.cursor = page.cursor + n,
                                     !.at = IF n < rest THEN "more" ELSE "end"]
  /\ UNCHANGED <<store, file, disk, pc, loc, writer, prune, counters>>

PageEnds ==
  /\ page.at \in {"end", "more"}
  /\ page' = NoPage
  /\ UNCHANGED <<store, file, disk, pc, loc, writer, prune, counters>>

-----------------------------------------------------------------------------
(***************************************************************************)
(* Pruning a terminal execution: rows first, then the files read before.   *)
(***************************************************************************)
PruneSelects ==
  /\ prune.at = "idle" /\ row.exists /\ row.terminal
  /\ prune' = [at |-> "delete", files |-> {t.id : t \in arts}, spool |-> row.spooled]
  /\ UNCHANGED <<store, file, disk, pc, loc, writer, page, counters>>

\* DELETE cascades to the index and to the artifact rows.
PruneDeletes ==
  /\ prune.at = "delete" /\ Free
  /\ row' = [row EXCEPT !.exists = FALSE]
  /\ index' = <<>> /\ arts' = {}
  /\ prune' = [prune EXCEPT !.at = "files"]
  /\ UNCHANGED <<file, disk, pc, loc, writer, page, counters>>

PruneUnlinks ==
  /\ prune.at \in {"files", "spool"}
  /\ IF prune.at = "files"
     THEN disk' = {d \in disk : d.id \notin prune.files} /\ UNCHANGED file
     ELSE file' = (IF prune.spool THEN <<>> ELSE file) /\ UNCHANGED disk
  /\ prune' = IF prune.at = "files" THEN [prune EXCEPT !.at = "spool"] ELSE NoPrune
  /\ UNCHANGED <<store, pc, loc, writer, page, counters>>

\* The pruning process is killed.
PruneDies ==
  /\ prune.at # "idle" /\ faults < MaxFaults
  /\ faults' = faults + 1
  /\ prune' = NoPrune
  /\ UNCHANGED <<store, file, disk, pc, loc, writer, page, appends, rich>>

-----------------------------------------------------------------------------
Next ==
  \/ BeginAppend \/ OpenSpool \/ WriteBytes \/ IndexChunk \/ CommitAppend
  \/ AppendFails \/ UndoAppend
  \/ WriteRich \/ InsertRich \/ IndexRich \/ IndexEvent
  \/ Settle \/ Fail \/ ForcedStop \/ WorkerYields \/ Crash \/ Restart
  \/ \E a \in Actors :
       \/ FinalizeReads(a) \/ FinalizeHashes(a) \/ FinalizeStats(a) \/ FinalizeCopies(a)
       \/ FinalizeInserts(a) \/ FinalizeIndexes(a) \/ FinalizeCommits(a) \/ Terminate(a)
  \/ PageReads \/ PageRows \/ PageEnds
  \/ PruneSelects \/ PruneDeletes \/ PruneUnlinks \/ PruneDies

Spec == Init /\ [][Next]_vars

-----------------------------------------------------------------------------
Places == {"idle", "append", "richrow", "richindex", "failing", "read", "hash", "stat",
           "copy", "insert", "index", "indexonly", "terminal", "done", "dead", "down"}

TypeOK ==
  /\ row \in Execution /\ index \in Seq(Rows) /\ file \in Seq(Byte)
  /\ arts \subseteq Artifact /\ disk \subseteq ArtifactFile
  /\ pc \in [Actors -> Places]
  /\ writer.stage \in {"none", "open", "write", "undo"}
  /\ (pc["worker"] = "append") <=> (writer.stage # "none")
  /\ page.at \in {"idle", "rows", "more", "end"}
  /\ prune.at \in {"idle", "delete", "files", "spool"}

\* A committed range lies inside the spool, on character boundaries, below the
\* committed length; a referenced artifact has its row and its file.
RangeBacked(r) ==
  /\ r.off + r.len <= row.size
  /\ r.off + r.len <= Len(file)
  /\ r.len > 0 => Lead(file[r.off + 1]) /\ Last(file[r.off + r.len])
ArtifactBacked(t) == \E d \in disk : d.id = t.id /\ d.data = t.data

\* Whatever is indexed can be read: _output_event_from_row never meets a
\* short spool or half a character, and no artifact row points to nothing,
\* through crashes, failed appends, concurrent finalizers and prunes.
IndexBacked ==
  row.exists =>
    /\ \A i \in 1..Len(index) :
         IF index[i].off >= 0 THEN RangeBacked(index[i])
         ELSE index[i].art # 0 => \E t \in arts : t.id = index[i].art
    /\ \A t \in arts : ArtifactBacked(t)

\* The spool's invariant: well formed, and everything indexed is readable
\* (IndexBacked).
SpoolInv == TypeOK /\ IndexBacked

\* The committed text, as the index lets a reader see it.
Readable ==
  IF row.exists THEN [i \in 1..row.size |-> IF i <= Len(file) THEN file[i] ELSE <<0, 0, 0>>]
  ELSE <<>>

\* Finalized output that claims to be complete has the digest of the whole
\* text, and its whole-text artifact is the whole text, even when the forced
\* stop finalizes while the worker appends.
CompleteDigest ==
  row.exists /\ row.sealed /\ row.complete =>
    /\ row.sha = Readable
    /\ \A t \in arts : t.whole => t.data = Readable

\* read_output_page: following next_cursor yields the index rows in order,
\* none skipped and none repeated, while output is still being appended.
PagesFaithful ==
  row.exists /\ page.at \in {"more", "end"} =>
    /\ page.cursor <= Len(index)
    /\ page.got = SubSeq(index, page.from + 1, page.cursor)
    /\ page.at = "more" => page.cursor < Len(index)

Log == INSTANCE OutputLog WITH text <- Readable, sealed <- row.sealed,
                               dropped <- ~row.exists

\* The spool and its index implement an append-only text that finalization
\* freezes and a prune removes as a whole.
ImplementsLog == Log!LogSpec

\* docs/10_bounded_output.md: "If the database transaction fails, the spool is
\* truncated back to its prior committed offset", so that the length check
\* of a later finalization succeeds and recovery can commit its result.
RecoveryFinalizes == row.exists /\ ~row.terminal => pc["worker"] # "dead"
==============================================================================
