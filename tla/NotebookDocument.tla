---------------------------- MODULE NotebookDocument ----------------------------
(***************************************************************************)
(* One notebook file shared by commands and by an editor.  Every mutating  *)
(* command reads a whole snapshot, checks it, and replaces the whole file  *)
(* atomically later; nothing is locked in between.  Executions snapshot a  *)
(* cell's source with its identity and run beside the edits; write-back    *)
(* brings the output of a settled execution back to its cell.  A hash is   *)
(* modelled by what it is a hash of.  outs remembers the execution, the    *)
(* output and the cell it was written for.                                 *)
(***************************************************************************)
EXTENDS Naturals, Sequences, SequencesExt, FiniteSets

CONSTANTS
  Procs, Execs, Ids, Sources,
  MaxOps, MaxEdits, MaxOutput,   \* bounds on commands, edits and messages
  Limit                          \* page size of the reader of cells

\* A missing id is told from every id.
ASSUME NotebookAssumption ==
  Limit \in Nat \ {0} /\ MaxOutput \in Nat /\ "none" \notin Ids

VARIABLES
  file,      \* the cells
  exec,      \* execution rows
  pc, loc,   \* commands: their place and what they hold
  seen,      \* the snapshot a user inspected last, per process
  reader,    \* a walk over the pages of notebook cells
  ops, edits

vars == <<file, exec, pc, loc, seen, reader, ops, edits>>

NoOuts == [of |-> 0, n |-> 0, id |-> "none", src |-> 0]
NoExec == [state |-> "none", id |-> "none", src |-> 0, n |-> 0, complete |-> TRUE]
NoLoc == [op |-> "none", doc |-> <<>>, id |-> "none", src |-> 0, e |-> 0, rec |-> NoExec, n |-> 0]
NoReader == [at |-> "idle", off |-> 0, got |-> <<>>, docs |-> {}]

\* Notebooks come from anywhere: ids may be missing or repeated.
Init ==
  /\ file \in [1..2 -> [id : Ids \cup {"none"}, code : {TRUE}, src : {1}, outs : {NoOuts}]]
  /\ exec = [e \in Execs |-> NoExec]
  /\ pc = [p \in Procs |-> "idle"] /\ loc = [p \in Procs |-> NoLoc]
  /\ seen = [p \in Procs |-> <<>>]
  /\ reader = NoReader /\ ops = 0 /\ edits = 0

Done(p) == pc' = [pc EXCEPT ![p] = "idle"] /\ loc' = [loc EXCEPT ![p] = NoLoc]
Hold(p, place, l) == pc' = [pc EXCEPT ![p] = place] /\ loc' = [loc EXCEPT ![p] = l]

-----------------------------------------------------------------------------
UniqueIds(doc) ==
  \A i, j \in DOMAIN doc : doc[i].id = doc[j].id /\ doc[i].id # "none" => i = j
MissingIds(doc) == {i \in DOMAIN doc : doc[i].id = "none"}

\* _select_index: an id must name one cell, an index be inside the notebook.
Matches(doc, sel) ==
  IF sel.by = "id" THEN {i \in DOMAIN doc : doc[i].id = sel.id}
  ELSE {i \in DOMAIN doc : i = sel.index}
Selects(doc, sel, i) == Matches(doc, sel) = {i}

\* An expected hash: of the source the selector named when it was inspected.
Expected(p, sel, i) ==
  \E j \in DOMAIN seen[p] : Selects(seen[p], sel, j) /\ seen[p][j].src = file[i].src

Selectors == [by : {"id"}, id : Ids, index : {0}] \cup [by : {"index"}, id : {"none"}, index : 1..2]

-----------------------------------------------------------------------------
\* notebook cell or notebook cells, whose hashes guard a later command.
Inspect(p) ==
  /\ pc[p] = "idle" /\ ops < MaxOps /\ seen[p] # file
  /\ seen' = [seen EXCEPT ![p] = file] /\ ops' = ops + 1
  /\ UNCHANGED <<file, exec, pc, loc, reader, edits>>

Begins(p) == pc[p] = "idle" /\ ops < MaxOps /\ ops' = ops + 1

\* update_source up to its write: the guard is the source that was inspected.
Update(p) ==
  /\ Begins(p)
  /\ UniqueIds(file) /\ MissingIds(file) = {}
  /\ \E sel \in Selectors, s \in Sources, i \in DOMAIN file, guarded \in BOOLEAN :
       /\ Selects(file, sel, i)
       /\ guarded => Expected(p, sel, i)
       /\ Hold(p, "replace", [NoLoc EXCEPT !.op = "update", !.doc = [file EXCEPT ![i].src = s]])
  /\ UNCHANGED <<file, exec, seen, reader, edits>>

\* Mutant: a new id is not compared with the ids there are.
AssignUnchecked(p) ==
  /\ Begins(p)
  /\ seen[p] = file /\ UniqueIds(file) /\ MissingIds(file) # {}
  /\ \E new \in [MissingIds(file) -> Ids] :
       Hold(p, "replace", [NoLoc EXCEPT !.op = "assign",
              !.doc = [i \in DOMAIN file |-> IF i \in MissingIds(file)
                         THEN [file[i] EXCEPT !.id = new[i]] ELSE file[i]]])
  /\ UNCHANGED <<file, exec, seen, reader, edits>>

\* assign_ids up to its write, which is left out when no id is missing.
Assign(p) ==
  /\ Begins(p)
  /\ seen[p] = file /\ UniqueIds(file) /\ MissingIds(file) # {}
  /\ \E new \in [MissingIds(file) -> Ids \ {file[i].id : i \in DOMAIN file}] :
       /\ \A i, j \in DOMAIN new : new[i] = new[j] => i = j
       /\ Hold(p, "replace", [NoLoc EXCEPT !.op = "assign",
              !.doc = [i \in DOMAIN file |-> IF i \in DOMAIN new
                         THEN [file[i] EXCEPT !.id = new[i]] ELSE file[i]]])
  /\ UNCHANGED <<file, exec, seen, reader, edits>>

\* A cell is read for execution: alone, or as the member of a batch, which
\* also wants the ids of the whole notebook to be unique.
ReadCell(p) ==
  /\ Begins(p)
  /\ \E sel \in Selectors, i \in DOMAIN file, guarded, batch \in BOOLEAN :
       /\ batch => UniqueIds(file)
       /\ Selects(file, sel, i) /\ file[i].code /\ file[i].id # "none"
       /\ guarded => ~batch /\ Expected(p, sel, i)
       /\ Hold(p, "submit", [NoLoc EXCEPT !.op = "start", !.id = file[i].id, !.src = file[i].src])
  /\ UNCHANGED <<file, exec, seen, reader, edits>>

\* The controller stores the source with the provenance the client read.
Submit(p) ==
  /\ pc[p] = "submit"
  /\ \E e \in Execs :
       /\ exec[e] = NoExec
       /\ exec' = [exec EXCEPT ![e] = [state |-> "running", id |-> loc[p].id, src |-> loc[p].src,
                                       n |-> 0, complete |-> TRUE]]
  /\ Done(p)
  /\ UNCHANGED <<file, seen, reader, ops, edits>>

-----------------------------------------------------------------------------
(***************************************************************************)
(* The worker: output is appended while the execution runs; a gap makes it *)
(* incomplete; rows do not change once it is settled (external here, see   *)
(* ExecutionLifecycle and OutputSpool).                                    *)
(***************************************************************************)
Observe(e) ==
  /\ exec[e].state = "running" /\ exec[e].n < MaxOutput
  /\ exec' = [exec EXCEPT ![e].n = @ + 1]
  /\ UNCHANGED <<file, pc, loc, seen, reader, ops, edits>>

Gap(e) ==
  /\ exec[e].state = "running" /\ exec[e].complete
  /\ exec' = [exec EXCEPT ![e].complete = FALSE]
  /\ UNCHANGED <<file, pc, loc, seen, reader, ops, edits>>

Settle(e) ==
  /\ exec[e].state = "running"
  /\ \E s \in {"finished", "error", "interrupted"} : exec' = [exec EXCEPT ![e].state = s]
  /\ UNCHANGED <<file, pc, loc, seen, reader, ops, edits>>

-----------------------------------------------------------------------------
(***************************************************************************)
(* write_notebook_output: the row, its output, the notebook, the write.    *)
(***************************************************************************)
\* Mutant: the output is read first, and the row after it.
WriteReadsSwapped(p) ==
  /\ \/ /\ Begins(p)
        /\ \E e \in Execs :
             /\ exec[e] # NoExec
             /\ Hold(p, "events", [NoLoc EXCEPT !.op = "write", !.e = e, !.n = exec[e].n])
     \/ /\ pc[p] = "events" /\ UNCHANGED ops
        /\ Hold(p, "check", [loc[p] EXCEPT !.rec = exec[loc[p].e]])
  /\ UNCHANGED <<file, exec, seen, reader, edits>>

\* The row is read, and then, by another query, the output.
WriteReads(p) ==
  /\ \/ /\ Begins(p)
        /\ \E e \in Execs :
             /\ exec[e] # NoExec
             /\ Hold(p, "events", [NoLoc EXCEPT !.op = "write", !.e = e, !.rec = exec[e]])
     \/ /\ pc[p] = "events" /\ UNCHANGED ops
        /\ Hold(p, "check", [loc[p] EXCEPT !.n = exec[loc[p].e].n])
  /\ UNCHANGED <<file, exec, seen, reader, edits>>

Written(p, i) ==
  [file EXCEPT ![i].outs =
     [of |-> loc[p].e, n |-> loc[p].n, id |-> file[i].id, src |-> file[i].src]]

\* write_execution_output up to its write.
WriteChecks(p) ==
  /\ pc[p] = "check"
  /\ loc[p].rec.state \in {"finished", "error"} /\ loc[p].rec.complete
  /\ UniqueIds(file) /\ MissingIds(file) = {}
  /\ \E i \in DOMAIN file :
       /\ file[i].id = loc[p].rec.id
       /\ file[i].src = loc[p].rec.src /\ file[i].code
       /\ Hold(p, "replace", [loc[p] EXCEPT !.doc = Written(p, i)])
  /\ UNCHANGED <<file, exec, seen, reader, ops, edits>>

\* A check fails, the file cannot be read, or the write fails before the
\* replacement; the process may also be killed.  The file is left alone.
Refuse(p) ==
  /\ pc[p] # "idle" /\ Done(p)
  /\ UNCHANGED <<file, exec, seen, reader, ops, edits>>

\* os.replace: the whole file becomes the changed snapshot.
Replace(p) ==
  /\ pc[p] = "replace"
  /\ file' = loc[p].doc /\ Done(p)
  /\ UNCHANGED <<exec, seen, reader, ops, edits>>

-----------------------------------------------------------------------------
(***************************************************************************)
(* Pages of notebook cells, each with the hash of the file it was cut from.*)
(***************************************************************************)
ReadBegins ==
  /\ reader.at = "idle" /\ ops < MaxOps /\ ops' = ops + 1
  /\ reader' = [NoReader EXCEPT !.at = "page"]
  /\ UNCHANGED <<file, exec, pc, loc, seen, edits>>

\* Mutant: the next page begins after the cell that follows this one.
PageSkips ==
  /\ reader.at = "page" /\ reader.off <= Len(file)
  /\ LET page == SubSeq(file, reader.off + 1, reader.off + Limit)
         next == reader.off + Len(page) + 1
     IN reader' = [at |-> IF next < Len(file) THEN "page" ELSE "done", off |-> next,
                   got |-> reader.got \o page, docs |-> reader.docs \cup {file}]
  /\ UNCHANGED <<file, exec, pc, loc, seen, ops, edits>>

Page ==
  /\ reader.at = "page"
  /\ IF reader.off > Len(file) THEN reader' = NoReader
     ELSE LET page == SubSeq(file, reader.off + 1,
                             IF reader.off + Limit < Len(file) THEN reader.off + Limit
                                                               ELSE Len(file))
              next == reader.off + Len(page)
          IN reader' = [at |-> IF next < Len(file) THEN "page" ELSE "done", off |-> next,
                        got |-> reader.got \o page, docs |-> reader.docs \cup {file}]
  /\ UNCHANGED <<file, exec, pc, loc, seen, ops, edits>>

-----------------------------------------------------------------------------
\* An editor saves the notebook: it changes a source, a cell's kind or an id,
\* moves a cell, or deletes some at the end (external).
Edited(doc) ==
  {[doc EXCEPT ![i].src = s] : i \in DOMAIN doc, s \in Sources}
  \cup {[doc EXCEPT ![i].code = ~@] : i \in DOMAIN doc}
  \cup {[doc EXCEPT ![i].id = d] : i \in DOMAIN doc, d \in Ids \cup {"none"}}
  \cup {Reverse(doc)} \cup {SubSeq(doc, 1, n) : n \in 0..Len(doc)}

Edit ==
  /\ edits < MaxEdits /\ edits' = edits + 1
  /\ file' \in Edited(file) \ {file}
  /\ UNCHANGED <<exec, pc, loc, seen, reader, ops>>

Command(p) ==
  \/ Inspect(p) \/ Update(p) \/ Assign(p) \/ ReadCell(p) \/ Submit(p)
  \/ WriteReads(p) \/ WriteChecks(p) \/ Refuse(p) \/ Replace(p)

Next ==
  \/ \E p \in Procs : Command(p)
  \/ \E e \in Execs : Observe(e) \/ Gap(e) \/ Settle(e)
  \/ ReadBegins \/ Page \/ Edit

Spec == Init /\ [][Next]_vars

-----------------------------------------------------------------------------
\* Output in a cell is the whole output of a settled, completely observed
\* execution, written while the cell had the identity and the source that
\* were executed, however edits, other commands and the worker interleave.
OutputsProven ==
  \A i \in DOMAIN file :
    LET o == file[i].outs IN
    o.of # 0 =>
      LET x == exec[o.of] IN
      /\ x.state \in {"finished", "error"} /\ x.complete
      /\ o.id = x.id /\ o.src = x.src /\ o.n = x.n

\* A command never leaves a notebook in which a cell lacks an id or shares it,
\* whatever the editor did before.
IdsSound ==
  [][\A p \in Procs : pc[p] = "replace" /\ file' # file /\ edits' = edits
       => UniqueIds(file') /\ MissingIds(file') = {}]_vars

\* Pages with the same hash are pages of one notebook: put together they hold
\* every cell once, in order, although each page reads the file anew.
CellsPaged ==
  \A doc \in reader.docs : reader.at = "done" /\ reader.docs = {doc} => reader.got = doc
==============================================================================
