----------------------- MODULE NotebookDocumentProofs -----------------------
(***************************************************************************)
(* TLAPS proofs about write-back: which outputs reach a notebook, and what *)
(* they show.                                                              *)
(*                                                                         *)
(* The first part is about NotebookDocument, for any numbers of processes, *)
(* executions, ids and sources, any notebook and any edits: output that is *)
(* written back is proven, commands leave sound ids, and pages of one      *)
(* snapshot make up the notebook.                                          *)
(*                                                                         *)
(* The second part is about OutputRendering, for any messages and a log of *)
(* any length: the outputs rebuilt from stored rows lose no text, and show *)
(* what the messages say wherever rows tell messages apart.                *)
(***************************************************************************)
EXTENDS NotebookDocument, OutputRendering, FiniteSetTheorems, NaturalsInduction,
        SequenceTheorems, WellFoundedInduction, TLAPS

(***************************************************************************)
(* Types.                                                                  *)
(***************************************************************************)
SomeId == Ids \cup {"none"}
SomeSource == Sources \cup {0, 1}
Output == [of : Execs \cup {0}, n : Nat, id : SomeId, src : SomeSource]
Cell == [id : SomeId, code : BOOLEAN, src : SomeSource, outs : Output]
Row == [state : {"none", "running", "finished", "error", "interrupted"},
        id : SomeId, src : SomeSource, n : Nat, complete : BOOLEAN]
Holding == [op : {"none", "update", "assign", "start", "write"}, doc : Seq(Cell),
             id : SomeId, src : SomeSource, e : Execs \cup {0}, rec : Row, n : Nat]
Places == {"idle", "replace", "submit", "events", "check"}

CommandsTypeOK ==
  /\ pc \in [Procs -> Places] /\ loc \in [Procs -> Holding]
  /\ \A p \in Procs : pc[p] \in {"events", "check"} => loc[p].e \in Execs

NotebookTypeOK ==
  /\ file \in Seq(Cell) /\ exec \in [Execs -> Row]
  /\ CommandsTypeOK
  /\ edits \in Nat

(***************************************************************************)
(* What a process holds: a snapshot it is about to write has sound ids and *)
(* proven outputs, and a settled row it has read is still the row.         *)
(***************************************************************************)
\* The outputs in doc are those of the rows x.
Proven(doc, x) ==
  \A i \in DOMAIN doc :
    LET o == doc[i].outs IN
    o.of # 0 =>
      /\ x[o.of].state \in {"finished", "error"} /\ x[o.of].complete
      /\ o.id = x[o.of].id /\ o.src = x[o.of].src /\ o.n = x[o.of].n

Sound(doc) == UniqueIds(doc) /\ MissingIds(doc) = {}

HeldBy(p) ==
  /\ pc[p] = "replace" => Sound(loc[p].doc) /\ Proven(loc[p].doc, exec)
  /\ pc[p] \in {"events", "check"} /\ loc[p].rec.state \in {"finished", "error"} =>
       /\ exec[loc[p].e] = loc[p].rec
       /\ pc[p] = "check" => loc[p].n = exec[loc[p].e].n

Held == \A p \in Procs : HeldBy(p)

NotebookInv == NotebookTypeOK /\ Proven(file, exec) /\ Held

(***************************************************************************)
(* What the reader of cells has: a beginning of the notebook, as long as   *)
(* all its pages are of one snapshot.                                      *)
(***************************************************************************)
Begun ==
  /\ reader.at \in {"idle", "page", "done"} /\ reader.off \in Nat
  /\ reader.docs = {} => reader.at # "done" /\ reader.off = 0 /\ reader.got = <<>>
  /\ \A doc \in reader.docs : reader.docs = {doc} =>
       /\ doc \in Seq(Cell)
       /\ reader.off <= Len(doc) /\ reader.got = SubSeq(doc, 1, reader.off)
       /\ reader.at = "done" => reader.off = Len(doc)
-----------------------------------------------------------------------------
LEMMA FunctionIsSeq ==
  ASSUME NEW S, NEW n \in Nat, NEW f \in [1..n -> S]
  PROVE  f \in Seq(S)
OBVIOUS

\* Sequences are functions on 1..Len, and a changed element keeps the length.
LEMMA SeqFacts ==
  ASSUME NEW S, NEW s \in Seq(S)
  PROVE  /\ Len(s) \in Nat /\ DOMAIN s = 1..Len(s)
         /\ \A i \in DOMAIN s : s[i] \in S
         /\ s \in [DOMAIN s -> S]
         /\ \A f \in [DOMAIN s -> S] : f \in Seq(S)
<1>1. /\ Len(s) \in Nat /\ s \in [1..Len(s) -> S]
  BY LenProperties, ElementOfSeq
<1>2. \A f \in [1..Len(s) -> S] : f \in Seq(S)
  BY <1>1, FunctionIsSeq
<1> QED
  BY <1>1, <1>2

\* The values that the initial states and a finished command have.
LEMMA EmptyValues ==
  /\ NoOuts \in Output /\ NoExec \in Row /\ NoLoc \in Holding
  /\ NoExec.state = "none" /\ NoReader.at = "idle"
BY EmptySeq DEF NoOuts, NoExec, NoLoc, NoReader, Output, Row, Holding, SomeId, SomeSource

LEMMA InitTypes == Init => NotebookTypeOK
<1> SUFFICES ASSUME Init PROVE NotebookTypeOK
  OBVIOUS
<1>1. file \in [1..2 -> Cell]
  <2>1. [id : Ids \cup {"none"}, code : {TRUE}, src : {1}, outs : {NoOuts}] \subseteq Cell
    BY EmptyValues DEF Cell, SomeId, SomeSource
  <2> QED
    BY <2>1 DEF Init
<1>2. 2 \in Nat /\ file \in Seq(Cell)
  BY <1>1, FunctionIsSeq
<1> QED
  BY <1>2, EmptyValues DEF Init, NotebookTypeOK, CommandsTypeOK, Places

\* Cells that differ in what an editor or a command may change are cells.
LEMMA Changed ==
  ASSUME NEW doc \in Seq(Cell), NEW i \in DOMAIN doc
  PROVE  /\ \A s \in SomeSource : [doc EXCEPT ![i].src = s] \in Seq(Cell)
         /\ [doc EXCEPT ![i].code = ~@] \in Seq(Cell)
         /\ \A d \in SomeId : [doc EXCEPT ![i].id = d] \in Seq(Cell)
         /\ \A o \in Output : [doc EXCEPT ![i].outs = o] \in Seq(Cell)
<1>1. /\ doc[i] \in Cell /\ doc \in [DOMAIN doc -> Cell]
      /\ \A f \in [DOMAIN doc -> Cell] : f \in Seq(Cell)
  BY SeqFacts
<1>2. \A s \in SomeSource : [doc[i] EXCEPT !.src = s] \in Cell
  BY <1>1 DEF Cell
<1>3. [doc[i] EXCEPT !.code = ~@] \in Cell
  BY <1>1 DEF Cell
<1>4. \A d \in SomeId : [doc[i] EXCEPT !.id = d] \in Cell
  BY <1>1 DEF Cell
<1>5. \A o \in Output : [doc[i] EXCEPT !.outs = o] \in Cell
  BY <1>1 DEF Cell
<1>6. \A c \in Cell : [doc EXCEPT ![i] = c] \in Seq(Cell)
  BY <1>1
<1> QED
  BY <1>2, <1>3, <1>4, <1>5, <1>6

\* The beginning of a notebook, and the notebook turned round.
LEMMA Moved ==
  ASSUME NEW doc \in Seq(Cell)
  PROVE  /\ /\ Reverse(doc) \in Seq(Cell)
            /\ \A i \in DOMAIN Reverse(doc) : \E j \in DOMAIN doc : Reverse(doc)[i] = doc[j]
         /\ \A n \in 0..Len(doc) :
              /\ SubSeq(doc, 1, n) \in Seq(Cell)
              /\ \A i \in DOMAIN SubSeq(doc, 1, n) :
                   i \in DOMAIN doc /\ SubSeq(doc, 1, n)[i] = doc[i]
<1>1. Len(doc) \in Nat /\ DOMAIN doc = 1..Len(doc) /\ \A i \in DOMAIN doc : doc[i] \in Cell
  BY SeqFacts
<1>2. \A i \in 1..Len(doc) : (Len(doc) - i) + 1 \in DOMAIN doc
  BY <1>1
<1>3. Reverse(doc) \in [1..Len(doc) -> Cell]
  BY <1>1, <1>2 DEF Reverse
<1>4. Reverse(doc) \in Seq(Cell)
  BY <1>1, <1>3, FunctionIsSeq
<1>5. \A i \in DOMAIN Reverse(doc) : \E j \in DOMAIN doc : Reverse(doc)[i] = doc[j]
  BY <1>2 DEF Reverse
<1>6. ASSUME NEW n \in 0..Len(doc)
      PROVE  /\ SubSeq(doc, 1, n) \in Seq(Cell)
             /\ \A i \in DOMAIN SubSeq(doc, 1, n) :
                  i \in DOMAIN doc /\ SubSeq(doc, 1, n)[i] = doc[i]
  <2>1. n \in Nat /\ \A i \in 1..n : i \in DOMAIN doc /\ doc[i] \in Cell
    BY <1>1
  <2>2. /\ SubSeq(doc, 1, n) \in Seq(Cell)
        /\ Len(SubSeq(doc, 1, n)) = IF 1 <= n THEN n - 1 + 1 ELSE 0
        /\ \A i \in 1..(n - 1 + 1) : SubSeq(doc, 1, n)[i] = doc[1 + i - 1]
    BY <2>1, SubSeqProperties
  <2>3. DOMAIN SubSeq(doc, 1, n) = 1..n
    BY <2>1, <2>2, SeqFacts
  <2>4. \A i \in 1..n : 1 + i - 1 = i
    BY <2>1
  <2> QED
    BY <2>1, <2>2, <2>3, <2>4
<1> QED
  BY <1>4, <1>5, <1>6

\* Update, assign_ids and write-back make notebooks of notebooks.
LEMMA HoldTypes ==
  ASSUME NotebookTypeOK, NEW p \in Procs, NEW place \in Places, NEW l \in Holding,
         place \in {"events", "check"} => l.e \in Execs, Hold(p, place, l)
  PROVE  CommandsTypeOK'
<1>1. pc \in [Procs -> Places] /\ loc \in [Procs -> Holding]
  BY DEF NotebookTypeOK, CommandsTypeOK
<1>2. /\ pc' \in [Procs -> Places] /\ loc' \in [Procs -> Holding]
      /\ pc'[p] = place /\ loc'[p] = l
      /\ \A q \in Procs \ {p} : pc'[q] = pc[q] /\ loc'[q] = loc[q]
  BY <1>1 DEF Hold
<1> QED
  BY <1>2 DEF NotebookTypeOK, CommandsTypeOK

LEMMA DoneTypes ==
  ASSUME NotebookTypeOK, NEW p \in Procs, Done(p)
  PROVE  CommandsTypeOK'
<1>1. Hold(p, "idle", NoLoc)
  BY DEF Done, Hold
<1> QED
  BY <1>1, EmptyValues, HoldTypes DEF Places

\* What a command holds at its next place.
LEMMA CommandTypes ==
  ASSUME NotebookTypeOK, NEW p \in Procs, Command(p)
  PROVE  CommandsTypeOK'
<1>t. /\ file \in Seq(Cell) /\ exec \in [Execs -> Row]
      /\ pc \in [Procs -> Places] /\ loc \in [Procs -> Holding]
  BY DEF NotebookTypeOK, CommandsTypeOK
<1>f. \A i \in DOMAIN file : file[i] \in Cell
  BY <1>t, SeqFacts
<1>1. CASE Inspect(p)
  BY <1>1 DEF Inspect, NotebookTypeOK, CommandsTypeOK
<1>2. CASE Update(p)
  <2>1. PICK s \in Sources, i \in DOMAIN file :
          Hold(p, "replace", [NoLoc EXCEPT !.op = "update", !.doc = [file EXCEPT ![i].src = s]])
    BY <1>2 DEF Update
  <2>2. [file EXCEPT ![i].src = s] \in Seq(Cell)
    BY <1>t, Changed DEF SomeSource
  <2>3. [NoLoc EXCEPT !.op = "update", !.doc = [file EXCEPT ![i].src = s]] \in Holding
    BY <2>2, EmptyValues DEF Holding
  <2> QED
    BY <2>1, <2>3, HoldTypes DEF Places
<1>3. CASE Assign(p)
  <2>1. PICK new \in [MissingIds(file) -> Ids \ {file[i].id : i \in DOMAIN file}] :
          Hold(p, "replace", [NoLoc EXCEPT !.op = "assign",
                 !.doc = [i \in DOMAIN file |-> IF i \in DOMAIN new
                            THEN [file[i] EXCEPT !.id = new[i]] ELSE file[i]]])
    BY <1>3 DEF Assign
  <2> DEFINE doc == [i \in DOMAIN file |-> IF i \in DOMAIN new
                       THEN [file[i] EXCEPT !.id = new[i]] ELSE file[i]]
  <2>2. \A i \in DOMAIN file : i \in DOMAIN new => [file[i] EXCEPT !.id = new[i]] \in Cell
    BY <1>f DEF Cell, SomeId
  <2>3. doc \in [DOMAIN file -> Cell]
    BY <1>f, <2>2
  <2>4. doc \in Seq(Cell)
    BY <1>t, <2>3, SeqFacts
  <2>5. [NoLoc EXCEPT !.op = "assign", !.doc = doc] \in Holding
    BY <2>4, EmptyValues DEF Holding
  <2> QED
    BY <2>1, <2>5, HoldTypes DEF Places
<1>4. CASE ReadCell(p)
  <2>1. PICK i \in DOMAIN file :
          Hold(p, "submit", [NoLoc EXCEPT !.op = "start", !.id = file[i].id, !.src = file[i].src])
    BY <1>4 DEF ReadCell
  <2>2. file[i].id \in SomeId /\ file[i].src \in SomeSource
    BY <1>f DEF Cell
  <2>3. [NoLoc EXCEPT !.op = "start", !.id = file[i].id, !.src = file[i].src] \in Holding
    BY <2>2, EmptyValues DEF Holding
  <2> QED
    BY <2>1, <2>3, HoldTypes DEF Places
<1>5. CASE Submit(p) \/ Refuse(p) \/ Replace(p)
  BY <1>5, DoneTypes DEF Submit, Refuse, Replace
<1>6. CASE WriteReads(p)
  <2>1. CASE \E e \in Execs :
               Hold(p, "events", [NoLoc EXCEPT !.op = "write", !.e = e, !.rec = exec[e]])
    <3>1. PICK e \in Execs :
            Hold(p, "events", [NoLoc EXCEPT !.op = "write", !.e = e, !.rec = exec[e]])
      BY <2>1
    <3>2. [NoLoc EXCEPT !.op = "write", !.e = e, !.rec = exec[e]] \in Holding
      BY <1>t, EmptyValues DEF Holding
    <3>3. [NoLoc EXCEPT !.op = "write", !.e = e, !.rec = exec[e]].e = e
      BY DEF NoLoc
    <3> QED
      BY <3>1, <3>2, <3>3, HoldTypes DEF Places
  <2>2. CASE pc[p] = "events" /\ Hold(p, "check", [loc[p] EXCEPT !.n = exec[loc[p].e].n])
    <3>1. loc[p].e \in Execs /\ loc[p] \in Holding
      BY <1>t, <2>2 DEF NotebookTypeOK, CommandsTypeOK
    <3>2. exec[loc[p].e].n \in Nat
      BY <1>t, <3>1 DEF Row
    <3>3. /\ [loc[p] EXCEPT !.n = exec[loc[p].e].n] \in Holding
          /\ [loc[p] EXCEPT !.n = exec[loc[p].e].n].e = loc[p].e
      BY <3>1, <3>2 DEF Holding
    <3> QED
      BY <2>2, <3>1, <3>3, HoldTypes DEF Places
  <2> QED
    BY <1>6, <2>1, <2>2 DEF WriteReads
<1>7. CASE WriteChecks(p)
  <2>1. PICK i \in DOMAIN file : Hold(p, "replace", [loc[p] EXCEPT !.doc = Written(p, i)])
    BY <1>7 DEF WriteChecks
  <2>2. loc[p] \in Holding /\ file[i] \in Cell
    BY <1>t, <1>f
  <2>3. [of |-> loc[p].e, n |-> loc[p].n, id |-> file[i].id, src |-> file[i].src] \in Output
    BY <2>2 DEF Output, Holding, Cell
  <2>4. Written(p, i) \in Seq(Cell)
    BY <1>t, <2>3, Changed DEF Written
  <2>5. [loc[p] EXCEPT !.doc = Written(p, i)] \in Holding
    BY <2>2, <2>4 DEF Holding
  <2> QED
    BY <2>1, <2>5, HoldTypes DEF Places
<1> QED
  BY <1>1, <1>2, <1>3, <1>4, <1>5, <1>6, <1>7 DEF Command

\* What the editor saves is a notebook.
LEMMA EditedTypes ==
  ASSUME NEW doc \in Seq(Cell), NEW new \in Edited(doc)
  PROVE  new \in Seq(Cell)
<1>1. CASE \E i \in DOMAIN doc, s \in Sources : new = [doc EXCEPT ![i].src = s]
  <2>1. PICK i \in DOMAIN doc, s \in SomeSource : new = [doc EXCEPT ![i].src = s]
    BY <1>1 DEF SomeSource
  <2> QED
    BY <2>1, Changed
<1>2. CASE \E i \in DOMAIN doc : new = [doc EXCEPT ![i].code = ~@]
  <2>1. PICK i \in DOMAIN doc : new = [doc EXCEPT ![i].code = ~@]
    BY <1>2
  <2> QED
    BY <2>1, Changed
<1>3. CASE \E i \in DOMAIN doc, d \in SomeId : new = [doc EXCEPT ![i].id = d]
  <2>1. PICK i \in DOMAIN doc, d \in SomeId : new = [doc EXCEPT ![i].id = d]
    BY <1>3
  <2> QED
    BY <2>1, Changed
<1>4. CASE new = Reverse(doc) \/ \E n \in 0..Len(doc) : new = SubSeq(doc, 1, n)
  BY <1>4, Moved
<1> QED
  BY <1>1, <1>2, <1>3, <1>4 DEF Edited, SomeId

\* Every step keeps the types.
LEMMA NextTypes == NotebookTypeOK /\ [Next]_vars => NotebookTypeOK'
<1> SUFFICES ASSUME NotebookTypeOK, [Next]_vars PROVE NotebookTypeOK'
  OBVIOUS
<1>t. /\ file \in Seq(Cell) /\ exec \in [Execs -> Row] /\ edits \in Nat
      /\ loc \in [Procs -> Holding]
  BY DEF NotebookTypeOK, CommandsTypeOK
<1>1. ASSUME NEW p \in Procs, Command(p) PROVE NotebookTypeOK'
  <2>1. CommandsTypeOK'
    BY <1>1, CommandTypes
  <2>2. CASE Replace(p)
    <3>1. loc[p].doc \in Seq(Cell)
      BY <1>t DEF Holding
    <3> QED
      BY <1>t, <2>1, <2>2, <3>1 DEF Replace, NotebookTypeOK
  <2>3. CASE Submit(p)
    <3>1. PICK e \in Execs :
            exec' = [exec EXCEPT ![e] = [state |-> "running", id |-> loc[p].id,
                                         src |-> loc[p].src, n |-> 0, complete |-> TRUE]]
      BY <2>3 DEF Submit
    <3>2. [state |-> "running", id |-> loc[p].id, src |-> loc[p].src,
           n |-> 0, complete |-> TRUE] \in Row
      BY <1>t DEF Holding, Row
    <3> QED
      BY <1>t, <2>1, <2>3, <3>1, <3>2 DEF Submit, NotebookTypeOK
  <2>4. CASE UNCHANGED <<file, exec, edits>>
    BY <1>t, <2>1, <2>4 DEF NotebookTypeOK
  <2> QED
    BY <1>1, <2>2, <2>3, <2>4
       DEF Command, Inspect, Update, Assign, ReadCell, WriteReads, WriteChecks, Refuse
<1>2. ASSUME NEW e \in Execs, Observe(e) \/ Gap(e) \/ Settle(e) PROVE NotebookTypeOK'
  <2>1. exec[e] \in Row
    BY <1>t
  <2>2. PICK row \in Row : exec' = [exec EXCEPT ![e] = row]
    <3>1. [exec[e] EXCEPT !.n = @ + 1] \in Row
      BY <2>1 DEF Row
    <3>2. [exec[e] EXCEPT !.complete = FALSE] \in Row
      BY <2>1 DEF Row
    <3>3. \A s \in {"finished", "error", "interrupted"} : [exec[e] EXCEPT !.state = s] \in Row
      BY <2>1 DEF Row
    <3> QED
      BY <1>2, <3>1, <3>2, <3>3 DEF Observe, Gap, Settle
  <2> QED
    BY <1>2, <1>t, <2>2 DEF Observe, Gap, Settle, NotebookTypeOK, CommandsTypeOK
<1>3. CASE Edit
  <2>1. file' \in Seq(Cell)
    BY <1>3, <1>t, EditedTypes DEF Edit
  <2> QED
    BY <1>3, <1>t, <2>1 DEF Edit, NotebookTypeOK, CommandsTypeOK
<1>4. CASE ReadBegins \/ Page \/ UNCHANGED vars
  BY <1>4 DEF ReadBegins, Page, vars, NotebookTypeOK, CommandsTypeOK
<1> QED
  BY <1>1, <1>2, <1>3, <1>4 DEF Next

-----------------------------------------------------------------------------
\* Rows do not change once they are settled.
SettledStay ==
  \A e \in Execs : exec[e].state \in {"finished", "error"} => exec'[e] = exec[e]

LEMMA RowsSettle == NotebookTypeOK /\ [Next]_vars => SettledStay
<1> SUFFICES ASSUME NotebookTypeOK, [Next]_vars PROVE SettledStay
  OBVIOUS
<1>t. exec \in [Execs -> Row]
  BY DEF NotebookTypeOK
<1>1. ASSUME NEW p \in Procs, Command(p) PROVE SettledStay
  BY <1>1, <1>t, EmptyValues
     DEF Command, Inspect, Update, Assign, ReadCell, Submit, WriteReads, WriteChecks, Refuse,
         Replace, SettledStay
<1>2. ASSUME NEW e \in Execs, Observe(e) \/ Gap(e) \/ Settle(e) PROVE SettledStay
  BY <1>2, <1>t DEF Observe, Gap, Settle, SettledStay
<1>3. CASE UNCHANGED exec
  BY <1>3 DEF SettledStay
<1> QED
  BY <1>1, <1>2, <1>3 DEF Next, ReadBegins, Page, Edit, vars

\* So outputs that are proven stay proven, in every copy of the notebook.
LEMMA ProvenStays ==
  ASSUME NEW doc \in Seq(Cell), Proven(doc, exec), SettledStay
  PROVE  Proven(doc, exec')
<1>1. \A i \in DOMAIN doc : doc[i].outs.of # 0 => doc[i].outs.of \in Execs
  <2>1. \A i \in DOMAIN doc : doc[i] \in Cell
    BY SeqFacts
  <2> QED
    BY <2>1 DEF Cell, Output
<1> QED
  BY <1>1 DEF Proven, SettledStay

\* A notebook made of cells whose outputs are proven.
LEMMA SameOutputs ==
  ASSUME NEW doc, NEW new, NEW x, Proven(doc, x),
         \A i \in DOMAIN new : \E j \in DOMAIN doc : new[i].outs = doc[j].outs
  PROVE  Proven(new, x)
BY DEF Proven

LEMMA EditedProven ==
  ASSUME NEW doc \in Seq(Cell), NEW x, Proven(doc, x), NEW new \in Edited(doc)
  PROVE  Proven(new, x)
<1>1. \A i \in DOMAIN doc : doc[i] \in Cell
  BY SeqFacts
<1>2. CASE \E i \in DOMAIN doc, s \in Sources : new = [doc EXCEPT ![i].src = s]
  <2>1. \A j \in DOMAIN new : j \in DOMAIN doc /\ new[j].outs = doc[j].outs
    BY <1>1, <1>2 DEF Cell
  <2> QED
    BY <2>1, SameOutputs
<1>3. CASE \E i \in DOMAIN doc : new = [doc EXCEPT ![i].code = ~@]
  <2>1. \A j \in DOMAIN new : j \in DOMAIN doc /\ new[j].outs = doc[j].outs
    BY <1>1, <1>3 DEF Cell
  <2> QED
    BY <2>1, SameOutputs
<1>4. CASE \E i \in DOMAIN doc, d \in SomeId : new = [doc EXCEPT ![i].id = d]
  <2>1. \A j \in DOMAIN new : j \in DOMAIN doc /\ new[j].outs = doc[j].outs
    BY <1>1, <1>4 DEF Cell
  <2> QED
    BY <2>1, SameOutputs
<1>5. CASE new = Reverse(doc)
  <2>1. \A i \in DOMAIN new : \E j \in DOMAIN doc : new[i] = doc[j]
    BY <1>5, Moved
  <2> QED
    BY <2>1, SameOutputs
<1>6. CASE \E n \in 0..Len(doc) : new = SubSeq(doc, 1, n)
  <2>1. PICK n \in 0..Len(doc) : new = SubSeq(doc, 1, n)
    BY <1>6
  <2>2. \A i \in DOMAIN new : i \in DOMAIN doc /\ new[i] = doc[i]
    BY <2>1, Moved
  <2> QED
    BY <2>2, SameOutputs
<1> QED
  BY <1>2, <1>3, <1>4, <1>5, <1>6 DEF Edited, SomeId

-----------------------------------------------------------------------------
\* A process that does nothing holds what it held.
LEMMA OthersHold ==
  ASSUME NotebookInv, SettledStay, NEW q \in Procs, pc'[q] = pc[q], loc'[q] = loc[q]
  PROVE  HeldBy(q)'
<1>1. HeldBy(q) /\ loc[q] \in Holding /\ pc[q] \in Places
  BY DEF NotebookInv, Held, NotebookTypeOK, CommandsTypeOK
<1>2. ASSUME pc[q] = "replace" PROVE Proven(loc[q].doc, exec')
  BY <1>1, <1>2, ProvenStays DEF HeldBy, Holding
<1>3. ASSUME pc[q] \in {"events", "check"}, loc[q].rec.state \in {"finished", "error"}
      PROVE  exec'[loc[q].e] = exec[loc[q].e]
  <2>1. loc[q].e \in Execs /\ exec[loc[q].e] = loc[q].rec
    BY <1>1, <1>3 DEF HeldBy, NotebookInv, NotebookTypeOK, CommandsTypeOK
  <2> QED
    BY <1>3, <2>1 DEF SettledStay
<1> QED
  BY <1>1, <1>2, <1>3 DEF HeldBy

\* What a command takes in hand is all that changes.
LEMMA HoldHeld ==
  ASSUME NotebookInv, SettledStay, NEW p \in Procs, NEW place, NEW l, Hold(p, place, l),
         place = "replace" => Sound(l.doc) /\ Proven(l.doc, exec'),
         place \in {"events", "check"} /\ l.rec.state \in {"finished", "error"} =>
           /\ exec'[l.e] = l.rec
           /\ place = "check" => l.n = exec'[l.e].n
  PROVE  Held'
<1>1. /\ pc'[p] = place /\ loc'[p] = l
      /\ \A q \in Procs \ {p} : pc'[q] = pc[q] /\ loc'[q] = loc[q]
  BY DEF Hold, NotebookInv, NotebookTypeOK, CommandsTypeOK
<1>2. HeldBy(p)'
  BY <1>1 DEF HeldBy
<1>3. \A q \in Procs \ {p} : HeldBy(q)'
  BY <1>1, OthersHold
<1> QED
  BY <1>2, <1>3 DEF Held

LEMMA DoneHeld ==
  ASSUME NotebookInv, SettledStay, NEW p \in Procs, Done(p)
  PROVE  Held'
<1>1. Hold(p, "idle", NoLoc)
  BY DEF Done, Hold
<1> QED
  BY <1>1, HoldHeld

\* update_source changes no id and no output.
LEMMA UpdateHeld ==
  ASSUME NotebookInv, SettledStay, NEW p \in Procs, Update(p)
  PROVE  Held'
<1>t. file \in Seq(Cell) /\ \A i \in DOMAIN file : file[i] \in Cell
  BY SeqFacts DEF NotebookInv, NotebookTypeOK
<1>1. PICK s \in Sources, i \in DOMAIN file :
        Hold(p, "replace", [NoLoc EXCEPT !.op = "update", !.doc = [file EXCEPT ![i].src = s]])
  BY DEF Update
<1> DEFINE doc == [file EXCEPT ![i].src = s]
           l == [NoLoc EXCEPT !.op = "update", !.doc = doc]
<1>2. l.doc = doc
  BY DEF NoLoc
<1>3. /\ DOMAIN doc = DOMAIN file
      /\ \A j \in DOMAIN doc : doc[j].id = file[j].id /\ doc[j].outs = file[j].outs
  BY <1>t DEF Cell
<1>4. Sound(doc)
  BY <1>3 DEF Sound, UniqueIds, MissingIds, Update
<1>5. Proven(doc, exec)
  <2> HIDE DEF doc
  <2> QED
    BY <1>3, SameOutputs DEF NotebookInv
<1>6. Proven(doc, exec')
  BY <1>5 DEF Update
<1>7. Hold(p, "replace", l)
  BY <1>1
<1> HIDE DEF doc, l
<1> QED
  BY <1>2, <1>4, <1>6, <1>7, HoldHeld

\* assign_ids gives every cell without an id a new one.
LEMMA AssignHeld ==
  ASSUME NotebookInv, SettledStay, NEW p \in Procs, Assign(p)
  PROVE  Held'
<1>t. file \in Seq(Cell) /\ \A i \in DOMAIN file : file[i] \in Cell
  BY SeqFacts DEF NotebookInv, NotebookTypeOK
<1>1. PICK new \in [MissingIds(file) -> Ids \ {file[i].id : i \in DOMAIN file}] :
        /\ \A i, j \in DOMAIN new : new[i] = new[j] => i = j
        /\ Hold(p, "replace", [NoLoc EXCEPT !.op = "assign",
               !.doc = [i \in DOMAIN file |-> IF i \in DOMAIN new
                          THEN [file[i] EXCEPT !.id = new[i]] ELSE file[i]]])
  BY DEF Assign
<1> DEFINE doc == [i \in DOMAIN file |-> IF i \in DOMAIN new
                     THEN [file[i] EXCEPT !.id = new[i]] ELSE file[i]]
           l == [NoLoc EXCEPT !.op = "assign", !.doc = doc]
<1>2. l.doc = doc
  BY DEF NoLoc
<1>3. /\ DOMAIN doc = DOMAIN file /\ DOMAIN new = MissingIds(file)
      /\ \A i \in DOMAIN doc :
           /\ doc[i].outs = file[i].outs
           /\ doc[i].id = IF i \in MissingIds(file) THEN new[i] ELSE file[i].id
  BY <1>t DEF Cell
<1>4. Sound(doc)
  <2> HIDE DEF doc
  <2>1. \A i \in MissingIds(file) : /\ new[i] # "none"
                                   /\ \A j \in DOMAIN file : new[i] # file[j].id
    BY NotebookAssumption
  <2>2. MissingIds(doc) = {}
    BY <1>3, <2>1 DEF MissingIds
  <2>3. UniqueIds(doc)
    BY <1>1, <1>3, <2>1 DEF UniqueIds, Assign
  <2> QED
    BY <2>2, <2>3 DEF Sound
<1>5. Proven(doc, exec)
  <2> HIDE DEF doc
  <2> QED
    BY <1>3, SameOutputs DEF NotebookInv
<1>6. Proven(doc, exec')
  BY <1>5 DEF Assign
<1>7. Hold(p, "replace", l)
  BY <1>1
<1> HIDE DEF doc, l
<1> QED
  BY <1>2, <1>4, <1>6, <1>7, HoldHeld

\* The row is read before the output, and a settled row has no more of it.
LEMMA ReadsHeld ==
  ASSUME NotebookInv, SettledStay, NEW p \in Procs, WriteReads(p)
  PROVE  Held'
<1>t. /\ loc[p] \in Holding /\ HeldBy(p) /\ UNCHANGED exec
      /\ pc[p] = "events" => loc[p].e \in Execs
  BY DEF NotebookInv, Held, NotebookTypeOK, CommandsTypeOK, WriteReads
<1>1. CASE \E e \in Execs :
             Hold(p, "events", [NoLoc EXCEPT !.op = "write", !.e = e, !.rec = exec[e]])
  <2>1. PICK e \in Execs :
          Hold(p, "events", [NoLoc EXCEPT !.op = "write", !.e = e, !.rec = exec[e]])
    BY <1>1
  <2> DEFINE l == [NoLoc EXCEPT !.op = "write", !.e = e, !.rec = exec[e]]
  <2>2. l.e = e /\ l.rec = exec[e]
    BY DEF NoLoc
  <2>3. Hold(p, "events", l)
    BY <2>1
  <2> HIDE DEF l
  <2> QED
    BY <1>t, <2>2, <2>3, HoldHeld
<1>2. CASE pc[p] = "events" /\ Hold(p, "check", [loc[p] EXCEPT !.n = exec[loc[p].e].n])
  <2> DEFINE l == [loc[p] EXCEPT !.n = exec[loc[p].e].n]
  <2>1. l.e = loc[p].e /\ l.rec = loc[p].rec /\ l.n = exec[loc[p].e].n
    BY <1>t DEF Holding
  <2>2. Hold(p, "check", l)
    BY <1>2
  <2>3. l.rec.state \in {"finished", "error"} => exec[l.e] = l.rec
    BY <1>t, <1>2, <2>1 DEF HeldBy
  <2> HIDE DEF l
  <2> QED
    BY <1>t, <2>1, <2>2, <2>3, HoldHeld
<1> QED
  BY <1>1, <1>2 DEF WriteReads

\* write_execution_output puts proven output into a cell.
LEMMA ChecksHeld ==
  ASSUME NotebookInv, SettledStay, NEW p \in Procs, WriteChecks(p)
  PROVE  Held'
<1>t. /\ file \in Seq(Cell) /\ \A i \in DOMAIN file : file[i] \in Cell
      /\ loc[p] \in Holding /\ HeldBy(p)
  BY SeqFacts DEF NotebookInv, Held, NotebookTypeOK, CommandsTypeOK
<1>1. PICK i \in DOMAIN file :
        /\ file[i].id = loc[p].rec.id /\ file[i].src = loc[p].rec.src
        /\ Hold(p, "replace", [loc[p] EXCEPT !.doc = Written(p, i)])
  BY DEF WriteChecks
<1> DEFINE out == [of |-> loc[p].e, n |-> loc[p].n, id |-> file[i].id, src |-> file[i].src]
           doc == Written(p, i)
           l == [loc[p] EXCEPT !.doc = doc]
<1>2. l.doc = doc /\ Hold(p, "replace", l)
  BY <1>1, <1>t DEF Holding
<1>3. /\ DOMAIN doc = DOMAIN file
      /\ \A j \in DOMAIN doc :
           /\ doc[j].id = file[j].id
           /\ doc[j].outs = IF j = i THEN out ELSE file[j].outs
  BY <1>t DEF Written, Cell
<1>4. Sound(doc)
  <2> HIDE DEF doc
  <2> QED
    BY <1>3 DEF Sound, UniqueIds, MissingIds, WriteChecks
<1>5. /\ exec[loc[p].e] = loc[p].rec /\ loc[p].n = exec[loc[p].e].n
      /\ loc[p].rec.state \in {"finished", "error"} /\ loc[p].rec.complete
  BY <1>t DEF HeldBy, WriteChecks
<1>6. Proven(doc, exec')
  <2>1. /\ out.of = loc[p].e /\ out.n = loc[p].n
        /\ out.id = file[i].id /\ out.src = file[i].src
    OBVIOUS
  <2> HIDE DEF doc, out
  <2>2. \A j \in DOMAIN doc : LET o == doc[j].outs IN
          o.of # 0 =>
            /\ exec[o.of].state \in {"finished", "error"} /\ exec[o.of].complete
            /\ o.id = exec[o.of].id /\ o.src = exec[o.of].src /\ o.n = exec[o.of].n
    <3> SUFFICES ASSUME NEW j \in DOMAIN doc, doc[j].outs.of # 0
        PROVE LET o == doc[j].outs IN
                /\ exec[o.of].state \in {"finished", "error"} /\ exec[o.of].complete
                /\ o.id = exec[o.of].id /\ o.src = exec[o.of].src /\ o.n = exec[o.of].n
      OBVIOUS
    <3>1. CASE j = i
      BY <1>1, <1>3, <1>5, <2>1, <3>1
    <3>2. CASE j # i
      <4>1. doc[j].outs = file[j].outs /\ j \in DOMAIN file
        BY <1>3, <3>2
      <4> QED
        BY <4>1 DEF NotebookInv, Proven
    <3> QED
      BY <3>1, <3>2
  <2> QED
    BY <2>2 DEF Proven, WriteChecks
<1> HIDE DEF doc, l
<1> QED
  BY <1>2, <1>4, <1>6, HoldHeld

\* The invariant holds initially and after every step.
LEMMA NotebookStart == Init => NotebookInv
<1> SUFFICES ASSUME Init PROVE NotebookInv
  OBVIOUS
<1>1. NotebookTypeOK
  BY InitTypes
<1>2. \A i \in DOMAIN file : file[i].outs.of = 0
  BY DEF Init, NoOuts
<1> QED
  BY <1>1, <1>2 DEF NotebookInv, Proven, Held, HeldBy, Init

LEMMA NotebookKept == NotebookInv /\ [Next]_vars => NotebookInv'
<1> SUFFICES ASSUME NotebookInv, [Next]_vars PROVE NotebookInv'
  OBVIOUS
<1>1. NotebookTypeOK' /\ SettledStay
  BY NextTypes, RowsSettle DEF NotebookInv
<1>2. Held'
  <2>1. ASSUME NEW p \in Procs, Command(p) PROVE Held'
    <3>1. CASE Inspect(p)
      BY <1>1, <3>1, OthersHold DEF Inspect, Held
    <3>2. CASE ReadCell(p)
      <4>1. PICK l : Hold(p, "submit", l)
        BY <3>2 DEF ReadCell
      <4> QED
        BY <1>1, <4>1, HoldHeld
    <3>3. CASE Submit(p) \/ Refuse(p) \/ Replace(p)
      BY <1>1, <3>3, DoneHeld DEF Submit, Refuse, Replace
    <3> QED
      BY <1>1, <2>1, <3>1, <3>2, <3>3, UpdateHeld, AssignHeld, ReadsHeld, ChecksHeld DEF Command
  <2>2. CASE UNCHANGED <<pc, loc>>
    BY <1>1, <2>2, OthersHold DEF Held
  <2> QED
    BY <2>1, <2>2 DEF Next, Observe, Gap, Settle, ReadBegins, Page, Edit, vars
<1>3. Proven(file', exec')
  <2>1. CASE \E p \in Procs : Replace(p)
    <3>1. PICK p \in Procs : Replace(p)
      BY <2>1
    <3>2. loc[p].doc \in Seq(Cell) /\ Proven(loc[p].doc, exec)
      BY <3>1 DEF Replace, NotebookInv, Held, HeldBy, NotebookTypeOK, CommandsTypeOK, Holding
    <3> QED
      BY <1>1, <3>1, <3>2, ProvenStays DEF Replace
  <2>2. CASE Edit
    BY <2>2, EditedProven DEF Edit, NotebookInv, NotebookTypeOK
  <2>3. CASE UNCHANGED file
    BY <1>1, <2>3, ProvenStays DEF NotebookInv, NotebookTypeOK
  <2> QED
    BY <2>1, <2>2, <2>3
       DEF Next, Command, Inspect, Update, Assign, ReadCell, Submit, WriteReads, WriteChecks,
           Refuse, Observe, Gap, Settle, ReadBegins, Page, vars
<1> QED
  BY <1>1, <1>2, <1>3 DEF NotebookInv

LEMMA NotebookHolds == Spec => []NotebookInv
  BY NotebookStart, NotebookKept, PTL DEF Spec

\* Output in a cell is the whole output of a settled and completely observed
\* execution of what the cell was then, for any interleaving of edits,
\* commands and workers.
THEOREM WrittenBackIsProven == Spec => []OutputsProven
<1>1. NotebookInv => OutputsProven
  BY DEF NotebookInv, Proven, OutputsProven
<1> QED
  BY <1>1, NotebookHolds, PTL

\* A command leaves no cell without an id and no id twice.
THEOREM CommandsKeepIds == Spec => IdsSound
<1>1. NotebookInv /\ [Next]_vars =>
        [\A p \in Procs : pc[p] = "replace" /\ file' # file /\ edits' = edits
           => UniqueIds(file') /\ MissingIds(file') = {}]_vars
  <2> SUFFICES ASSUME NotebookInv, Next, file' # file, edits' = edits
               PROVE  UniqueIds(file') /\ MissingIds(file') = {}
    BY DEF vars
  <2>1. ~Edit
    BY DEF Edit, NotebookInv, NotebookTypeOK
  <2>2. PICK p \in Procs : Replace(p)
    BY <2>1
       DEF Next, Command, Inspect, Update, Assign, ReadCell, Submit, WriteReads, WriteChecks,
           Refuse, Observe, Gap, Settle, ReadBegins, Page
  <2> QED
    BY <2>2 DEF Replace, NotebookInv, Held, HeldBy, Sound
<1> QED
  BY <1>1, NotebookHolds, PTL DEF Spec, IdsSound

-----------------------------------------------------------------------------
\* A page that begins where the last one ended.
LEMMA NextPage ==
  ASSUME NEW S, NEW doc \in Seq(S), NEW a \in 0..Len(doc), NEW b \in a..Len(doc)
  PROVE  /\ SubSeq(doc, 1, a) \o SubSeq(doc, a + 1, b) = SubSeq(doc, 1, b)
         /\ Len(SubSeq(doc, a + 1, b)) = b - a
<1>1. /\ Len(doc) \in Nat /\ a \in Nat /\ b \in Nat /\ a <= b
      /\ \A i \in 1..b : doc[i] \in S
  BY SeqFacts
<1>2. /\ SubSeq(doc, 1, a) \in Seq(S) /\ Len(SubSeq(doc, 1, a)) = a
      /\ \A i \in 1..a : SubSeq(doc, 1, a)[i] = doc[i]
  <2>1. \A i \in 1..a : doc[i] \in S
    BY <1>1
  <2> QED
    BY <1>1, <2>1, SubSeqProperties
<1>3. /\ SubSeq(doc, 1, b) \in Seq(S) /\ Len(SubSeq(doc, 1, b)) = b
      /\ \A i \in 1..b : SubSeq(doc, 1, b)[i] = doc[i]
  BY <1>1, SubSeqProperties
<1>4. /\ SubSeq(doc, a + 1, b) \in Seq(S) /\ Len(SubSeq(doc, a + 1, b)) = b - a
      /\ \A i \in 1..(b - a) : SubSeq(doc, a + 1, b)[i] = doc[a + i]
  <2>1. \A i \in (a + 1)..b : doc[i] \in S
    BY <1>1
  <2>2. b - (a + 1) + 1 = b - a /\ \A i \in 1..(b - a) : a + 1 + i - 1 = a + i
    BY <1>1
  <2>3. /\ SubSeq(doc, a + 1, b) \in Seq(S)
        /\ Len(SubSeq(doc, a + 1, b)) = IF a + 1 <= b THEN b - (a + 1) + 1 ELSE 0
        /\ \A i \in 1..(b - (a + 1) + 1) : SubSeq(doc, a + 1, b)[i] = doc[a + 1 + i - 1]
    BY <1>1, <2>1, SubSeqProperties
  <2> QED
    BY <1>1, <2>2, <2>3
<1> DEFINE s == SubSeq(doc, 1, a)
           t == SubSeq(doc, a + 1, b)
           u == SubSeq(doc, 1, b)
<1>5. /\ s \o t \in Seq(S) /\ Len(s \o t) = b
      /\ \A i \in 1..b : (s \o t)[i] = u[i]
  <2> HIDE DEF s, t, u
  <2>1. /\ s \in Seq(S) /\ Len(s) = a /\ \A i \in 1..a : s[i] = doc[i]
        /\ t \in Seq(S) /\ Len(t) = b - a /\ \A i \in 1..(b - a) : t[i] = doc[a + i]
        /\ \A i \in 1..b : u[i] = doc[i]
    BY <1>2, <1>3, <1>4 DEF s, t, u
  <2>2. /\ s \o t \in Seq(S) /\ Len(s \o t) = Len(s) + Len(t)
        /\ \A i \in 1..(Len(s) + Len(t)) :
             (s \o t)[i] = IF i <= Len(s) THEN s[i] ELSE t[i - Len(s)]
    BY <2>1, ConcatProperties
  <2>3. a + (b - a) = b
    BY <1>1
  <2>4. ASSUME NEW i \in 1..b PROVE (s \o t)[i] = u[i]
    <3>0. (s \o t)[i] = IF i <= a THEN s[i] ELSE t[i - a]
      BY <2>1, <2>2, <2>3
    <3>1. CASE i <= a
      <4>1. i \in 1..a
        BY <1>1, <3>1
      <4> QED
        BY <2>1, <3>0, <3>1, <4>1
    <3>2. CASE ~(i <= a)
      <4>1. i - a \in 1..(b - a) /\ a + (i - a) = i
        BY <1>1, <3>2
      <4> QED
        BY <2>1, <3>0, <3>2, <4>1
    <3> QED
      BY <3>1, <3>2
  <2> QED
    BY <2>1, <2>2, <2>3, <2>4
<1>6. s \o t = u
  <2> HIDE DEF s, t, u
  <2>1. u \in Seq(S) /\ Len(u) = b
    BY <1>3 DEF u
  <2> QED
    BY <1>5, <2>1, SeqEqual
<1> QED
  BY <1>4, <1>6

\* A page continues what the reader has, when the file is what it was.
LEMMA PageContinues ==
  ASSUME NotebookInv, Begun, Page
  PROVE  Begun'
<1>t. /\ file \in Seq(Cell) /\ Len(file) \in Nat /\ reader.off \in Nat /\ Limit \in Nat
  BY NotebookAssumption, SeqFacts DEF NotebookInv, NotebookTypeOK, Begun
<1>1. CASE reader.off > Len(file)
  BY <1>1 DEF Page, NoReader, Begun
<1>2. CASE ~(reader.off > Len(file))
  <2> DEFINE b == IF reader.off + Limit < Len(file) THEN reader.off + Limit ELSE Len(file)
             page == SubSeq(file, reader.off + 1, b)
             next == reader.off + Len(page)
  <2>1. b \in reader.off..Len(file) /\ reader.off \in 0..Len(file)
    BY <1>t, <1>2
  <2>2. /\ SubSeq(file, 1, reader.off) \o page = SubSeq(file, 1, b)
        /\ Len(page) = b - reader.off
    BY <1>t, <2>1, NextPage
  <2>3. next = b
    <3> HIDE DEF b
    <3> QED
      BY <1>t, <2>1, <2>2
  <2>4. reader' = [at |-> IF next < Len(file) THEN "page" ELSE "done", off |-> next,
                   got |-> reader.got \o page, docs |-> reader.docs \cup {file}]
    BY <1>2 DEF Page
  <2>5. /\ reader'.at = (IF b < Len(file) THEN "page" ELSE "done")
        /\ reader'.off = b /\ reader'.got = reader.got \o page
        /\ reader'.docs = reader.docs \cup {file}
    <3> HIDE DEF b, page
    <3> QED
      BY <2>3, <2>4
  <2> HIDE DEF b, page, next
  <2>6. ASSUME NEW doc \in reader'.docs, reader'.docs = {doc}
        PROVE  /\ doc = file /\ reader'.got = SubSeq(file, 1, b)
    <3>1. doc = file /\ (reader.docs = {} \/ reader.docs = {file})
      BY <2>5, <2>6
    <3>2. reader.got = SubSeq(file, 1, reader.off)
      <4>1. CASE reader.docs = {}
        <5>1. reader.got = <<>> /\ reader.off = 0
          BY <4>1 DEF Begun
        <5>2. SubSeq(file, 1, 0) = <<>>
          BY SubSeqEmpty
        <5> QED
          BY <5>1, <5>2
      <4>2. CASE reader.docs = {file}
        BY <4>2 DEF Begun
      <4> QED
        BY <3>1, <4>1, <4>2
    <3> QED
      BY <2>2, <2>5, <3>1, <3>2
  <2>7. b \in Nat /\ b <= Len(file)
    BY <1>t, <2>1
  <2> QED
    BY <1>t, <2>5, <2>6, <2>7 DEF Begun
<1> QED
  BY <1>1, <1>2

LEMMA ReaderBegun == Spec => []Begun
<1>1. Init => Begun
  BY DEF Init, NoReader, Begun
<1>2. NotebookInv /\ Begun /\ [Next]_vars => Begun'
  <2> SUFFICES ASSUME NotebookInv, Begun, [Next]_vars PROVE Begun'
    OBVIOUS
  <2>1. CASE Page
    BY <2>1, PageContinues
  <2>2. CASE ReadBegins
    BY <2>2 DEF ReadBegins, NoReader, Begun
  <2>3. CASE UNCHANGED reader
    BY <2>3 DEF Begun
  <2> QED
    BY <2>1, <2>2, <2>3
       DEF Next, Command, Inspect, Update, Assign, ReadCell, Submit, WriteReads, WriteChecks,
           Refuse, Replace, Observe, Gap, Settle, Edit, vars
<1> QED
  BY <1>1, <1>2, NotebookHolds, PTL DEF Spec

\* Pages that carry one hash are the notebook, for any page size, although
\* each is cut from the file as it is then.
THEOREM PagesAreTheNotebook == Spec => []CellsPaged
<1>1. Begun => CellsPaged
  <2> SUFFICES ASSUME Begun, NEW doc \in reader.docs, reader.at = "done", reader.docs = {doc}
               PROVE  reader.got = doc
    BY DEF CellsPaged
  <2> QED
    BY SubSeqFull DEF Begun
<1> QED
  BY <1>1, ReaderBegun, PTL

(***************************************************************************)
(* What write-back shows.  The library's induction theorems cannot be      *)
(* instantiated, so induction over numbers and sequences is stated for     *)
(* sets; FlattenSeq and Reading are then known by their recursion.         *)
(***************************************************************************)
LEMMA FromZero ==
  ASSUME NEW S, 0 \in S, \A n \in Nat : n \in S => n + 1 \in S
  PROVE  Nat \subseteq S
<1> DEFINE R == OpToRel(<, Nat)
           T == Nat \ S
<1>1. SUFFICES ASSUME T # {} PROVE FALSE
  OBVIOUS
<1>2. PICK x \in T : \A y \in T : ~ (<<y, x>> \in R)
  <2>1. IsWellFoundedOn(R, Nat)
    BY NatLessThanWellFounded
  <2> QED
    BY <1>1, <2>1, WFMin
<1>3. \A y \in T : ~(y < x)
  BY <1>2 DEF OpToRel
<1>4. x \in Nat /\ x # 0 /\ x - 1 \in Nat /\ x - 1 < x /\ (x - 1) + 1 = x
  OBVIOUS
<1>5. x - 1 \in S
  BY <1>3, <1>4
<1> QED
  BY <1>4, <1>5

LEMMA OneMore ==
  ASSUME NEW T, NEW P, <<>> \in P,
         \A s \in Seq(T) : \A x \in T : s \in P => Append(s, x) \in P
  PROVE  Seq(T) \subseteq P
<1> DEFINE S == {n \in Nat : \A s \in Seq(T) : Len(s) = n => s \in P}
<1>1. 0 \in S
  BY EmptySeq
<1>2. ASSUME NEW n \in Nat, n \in S PROVE n + 1 \in S
  <2> SUFFICES ASSUME NEW s \in Seq(T), Len(s) = n + 1 PROVE s \in P
    OBVIOUS
  <2>1. s # <<>>
    BY EmptySeq
  <2>2. PICK r \in Seq(T), x \in T : s = Append(r, x)
    BY <2>1, SequenceEmptyOrAppend
  <2>3. Len(r) \in Nat /\ Len(s) = Len(r) + 1
    BY <2>2, LenProperties, AppendProperties
  <2> QED
    BY <1>2, <2>2, <2>3
<1> HIDE DEF S
<1>3. Nat \subseteq S
  BY <1>1, <1>2, FromZero
<1> QED
  BY <1>3, LenProperties DEF S

\* The function that FlattenSeq looks up, for the first n of s.
Flat(f, s, n) == f = [i \in 1..n |-> IF i = 1 THEN s[i] ELSE f[i - 1] \o s[i]]

LEMMA FlatExists ==
  ASSUME NEW s PROVE \A n \in Nat : \E f : Flat(f, s, n)
<1> DEFINE S == {n \in Nat : \E f : Flat(f, s, n)}
<1>1. 0 \in S
  <2>1. Flat(<<>>, s, 0)
    BY DEF Flat
  <2> QED
    BY <2>1
<1>2. ASSUME NEW n \in Nat, n \in S PROVE n + 1 \in S
  <2>1. PICK f : Flat(f, s, n)
    BY <1>2
  <2> DEFINE last == IF n = 0 THEN s[1] ELSE f[n] \o s[n + 1]
             g == [i \in 1..n + 1 |-> IF i = n + 1 THEN last ELSE f[i]]
  <2>2. ASSUME NEW i \in 1..n + 1
        PROVE  g[i] = IF i = 1 THEN s[i] ELSE g[i - 1] \o s[i]
    <3>1. CASE i = n + 1 /\ n = 0
      BY <3>1
    <3>2. CASE i = n + 1 /\ n # 0
      <4>1. g[i] = f[n] \o s[n + 1]
        BY <3>2
      <4>2. i - 1 = n /\ n \in 1..n + 1 /\ n # n + 1 /\ i # 1
        BY <3>2
      <4>3. g[n] = f[n]
        BY <4>2
      <4> QED
        BY <3>2, <4>1, <4>2, <4>3
    <3>3. CASE i # n + 1
      <4>1. i \in 1..n /\ g[i] = f[i]
        BY <3>3
      <4>2. f[i] = IF i = 1 THEN s[i] ELSE f[i - 1] \o s[i]
        BY <2>1, <4>1 DEF Flat
      <4>3. i # 1 => i - 1 \in 1..n + 1 /\ i - 1 # n + 1 /\ g[i - 1] = f[i - 1]
        BY <4>1
      <4> QED
        BY <4>1, <4>2, <4>3
    <3> QED
      BY <3>1, <3>2, <3>3
  <2>3. g = [i \in 1..n + 1 |-> g[i]]
    OBVIOUS
  <2> HIDE DEF g
  <2>4. Flat(g, s, n + 1)
    BY <2>2, <2>3 DEF Flat
  <2> QED
    BY <2>4
<1> HIDE DEF S
<1>3. Nat \subseteq S
  BY <1>1, <1>2, FromZero
<1> QED
  BY <1>3 DEF S

\* What it says of an element depends on the elements before it alone.
LEMMA FlatSame ==
  ASSUME NEW s, NEW t, NEW n \in Nat, NEW m \in Nat, n <= m, NEW f, NEW g,
         Flat(f, s, n), Flat(g, t, m), \A i \in 1..n : s[i] = t[i]
  PROVE  \A i \in 1..n : f[i] = g[i]
<1> DEFINE S == {k \in Nat : k \in 1..n => f[k] = g[k]}
<1>1. 0 \in S
  OBVIOUS
<1>2. ASSUME NEW k \in Nat, k \in S PROVE k + 1 \in S
  <2> SUFFICES ASSUME k + 1 \in 1..n PROVE f[k + 1] = g[k + 1]
    OBVIOUS
  <2>1. f[k + 1] = IF k + 1 = 1 THEN s[k + 1] ELSE f[k] \o s[k + 1]
    <3>1. (k + 1) - 1 = k
      OBVIOUS
    <3>2. f = [i \in 1..n |-> IF i = 1 THEN s[i] ELSE f[i - 1] \o s[i]]
      BY DEF Flat
    <3>3. f[k + 1] = IF k + 1 = 1 THEN s[k + 1] ELSE f[(k + 1) - 1] \o s[k + 1]
      BY <3>2
    <3> QED
      BY Zenon, <3>1, <3>3
  <2>2. g[k + 1] = IF k + 1 = 1 THEN t[k + 1] ELSE g[k] \o t[k + 1]
    <3>1. (k + 1) - 1 = k /\ k + 1 \in 1..m
      OBVIOUS
    <3> QED
      BY <3>1 DEF Flat
  <2>3. k + 1 # 1 => f[k] = g[k]
    BY <1>2
  <2> QED
    BY <2>1, <2>2, <2>3
<1> HIDE DEF S
<1>3. Nat \subseteq S
  BY <1>1, <1>2, FromZero
<1> QED
  BY <1>3 DEF S

LEMMA FlattenIs ==
  ASSUME NEW s, NEW n \in Nat \ {0}, Len(s) = n, NEW f, Flat(f, s, n)
  PROVE  FlattenSeq(s) = f[n]
<1> DEFINE g == CHOOSE h : h = [i \in 1..Len(s) |-> IF i = 1 THEN s[i] ELSE h[i - 1] \o s[i]]
<1>1. FlattenSeq(s) = g[Len(s)]
  BY DEF FlattenSeq
<1>2. Flat(g, s, n)
  BY DEF Flat
<1> HIDE DEF g
<1>3. \A i \in 1..n : g[i] = f[i]
  BY <1>2, FlatSame
<1> QED
  BY <1>1, <1>3

LEMMA FlattenMore ==
  ASSUME NEW s, NEW t, NEW n \in Nat, Len(s) = n, Len(t) = n + 1, \A i \in 1..n : t[i] = s[i]
  PROVE  FlattenSeq(t) = IF n = 0 THEN t[1] ELSE FlattenSeq(s) \o t[n + 1]
<1> n + 1 \in Nat \ {0}
  OBVIOUS
<1>1. PICK f : Flat(f, t, n + 1)
  BY FlatExists
<1>2. FlattenSeq(t) = f[n + 1]
  BY <1>1, FlattenIs
<1>3. CASE n = 0
  BY <1>1, <1>2, <1>3 DEF Flat
<1>4. CASE n # 0
  <2>1. PICK g : Flat(g, s, n)
    BY FlatExists
  <2>2. FlattenSeq(s) = g[n]
    BY <1>4, <2>1, FlattenIs
  <2>3. n <= n + 1 /\ n \in 1..n /\ \A i \in 1..n : s[i] = t[i]
    BY <1>4
  <2>4. g[n] = f[n]
    BY <1>1, <2>1, <2>3, FlatSame
  <2>5. f[n + 1] = f[n] \o t[n + 1]
    <3>1. n + 1 \in 1..n + 1 /\ n + 1 # 1 /\ (n + 1) - 1 = n
      BY <1>4
    <3> QED
      BY <1>1, <3>1 DEF Flat
  <2> QED
    BY <1>2, <1>4, <2>2, <2>4, <2>5
<1> QED
  BY <1>3, <1>4

LEMMA FlattenEmpty == FlattenSeq(<<>>) = <<>>
BY DEF FlattenSeq

LEMMA FlattenOne ==
  ASSUME NEW s, Len(s) = 1 PROVE FlattenSeq(s) = s[1]
<1>1. PICK f : Flat(f, s, 1)
  BY FlatExists
<1>2. f[1] = s[1]
  BY <1>1 DEF Flat
<1> QED
  BY <1>1, <1>2, FlattenIs

\* A sequence of sequences and one more.
LEMMA FlattenAppend ==
  ASSUME NEW T, NEW s \in Seq(Seq(T)), NEW x \in Seq(T), FlattenSeq(s) \in Seq(T)
  PROVE  FlattenSeq(Append(s, x)) = FlattenSeq(s) \o x
<1>1. /\ Len(s) \in Nat /\ Len(Append(s, x)) = Len(s) + 1 /\ Append(s, x)[Len(s) + 1] = x
      /\ \A i \in 1..Len(s) : Append(s, x)[i] = s[i]
  BY LenProperties, AppendProperties
<1>2. FlattenSeq(Append(s, x)) = IF Len(s) = 0 THEN Append(s, x)[1]
                                 ELSE FlattenSeq(s) \o Append(s, x)[Len(s) + 1]
  BY <1>1, FlattenMore
<1>3. CASE Len(s) = 0
  <2>1. s = <<>> /\ FlattenSeq(s) = <<>>
    BY <1>3, EmptySeq, FlattenEmpty
  <2> QED
    BY <1>1, <1>2, <1>3, <2>1, ConcatEmptySeq
<1>4. CASE Len(s) # 0
  BY <1>1, <1>2, <1>4
<1> QED
  BY <1>3, <1>4

LEMMA FlattenType ==
  ASSUME NEW T PROVE \A s \in Seq(Seq(T)) : FlattenSeq(s) \in Seq(T)
<1> DEFINE P == {s \in Seq(Seq(T)) : FlattenSeq(s) \in Seq(T)}
<1>1. <<>> \in P
  BY EmptySeq, FlattenEmpty
<1>2. ASSUME NEW s \in Seq(Seq(T)), NEW x \in Seq(T), s \in P
      PROVE  Append(s, x) \in P
  <2>1. FlattenSeq(Append(s, x)) = FlattenSeq(s) \o x /\ Append(s, x) \in Seq(Seq(T))
    BY <1>2, FlattenAppend, AppendProperties
  <2> QED
    BY <1>2, <2>1, ConcatProperties
<1> HIDE DEF P
<1>3. Seq(Seq(T)) \subseteq P
  BY <1>1, <1>2, OneMore
<1> QED
  BY <1>3 DEF P

LEMMA ConcatAppend ==
  ASSUME NEW T, NEW a \in Seq(T), NEW b \in Seq(T), NEW x \in T
  PROVE  a \o Append(b, x) = Append(a \o b, x)
<1>1. <<x>> \in Seq(T)
  OBVIOUS
<1>2. a \o b \in Seq(T)
  BY ConcatProperties
<1>3. Append(b, x) = b \o <<x>> /\ Append(a \o b, x) = (a \o b) \o <<x>>
  BY <1>2, AppendIsConcat
<1> QED
  BY <1>1, <1>3, ConcatAssociative

LEMMA ConcatThree ==
  ASSUME NEW T, NEW u \in Seq(T), NEW v \in Seq(T), NEW x \in Seq(T)
  PROVE  (u \o v) \o x = u \o (v \o x)
BY ConcatAssociative

LEMMA FlattenConcat ==
  ASSUME NEW T, NEW a \in Seq(Seq(T))
  PROVE  \A b \in Seq(Seq(T)) : FlattenSeq(a \o b) = FlattenSeq(a) \o FlattenSeq(b)
<1> DEFINE P == {b \in Seq(Seq(T)) : FlattenSeq(a \o b) = FlattenSeq(a) \o FlattenSeq(b)}
<1>1. <<>> \in P
  BY EmptySeq, FlattenEmpty, FlattenType, ConcatEmptySeq
<1>2. ASSUME NEW b \in Seq(Seq(T)), NEW x \in Seq(T), b \in P
      PROVE  Append(b, x) \in P
  <2>1. /\ a \o b \in Seq(Seq(T)) /\ Append(b, x) \in Seq(Seq(T))
        /\ FlattenSeq(a) \in Seq(T) /\ FlattenSeq(b) \in Seq(T) /\ FlattenSeq(a \o b) \in Seq(T)
    BY ConcatProperties, AppendProperties, FlattenType
  <2>2. a \o Append(b, x) = Append(a \o b, x)
    BY ConcatAppend
  <2>3. FlattenSeq(Append(a \o b, x)) = (FlattenSeq(a) \o FlattenSeq(b)) \o x
    BY <1>2, <2>1, FlattenAppend
  <2>4. FlattenSeq(Append(b, x)) = FlattenSeq(b) \o x
    BY <2>1, FlattenAppend
  <2>5. (FlattenSeq(a) \o FlattenSeq(b)) \o x = FlattenSeq(a) \o (FlattenSeq(b) \o x)
    <3>1. PICK u, v \in Seq(T) : u = FlattenSeq(a) /\ v = FlattenSeq(b)
      BY <2>1
    <3>2. (u \o v) \o x = u \o (v \o x)
      BY ConcatThree
    <3> QED
      BY Zenon, <3>1, <3>2
  <2> QED
    BY <2>1, <2>2, <2>3, <2>4, <2>5
<1> HIDE DEF P
<1>3. Seq(Seq(T)) \subseteq P
  BY <1>1, <1>2, OneMore
<1> QED
  BY <1>3 DEF P

-----------------------------------------------------------------------------
(***************************************************************************)
(* The loop over the rows.                                                 *)
(***************************************************************************)
\* The function that Reading defines, for n rows.
ReadBy(f, acc, rows, n) ==
  f = [k \in 0..n |-> IF k = 0 THEN acc ELSE Read(f[k - 1], rows[k])]

LEMMA ReadingExists ==
  ASSUME NEW acc, NEW rows PROVE \A n \in Nat : \E f : ReadBy(f, acc, rows, n)
<1> DEFINE S == {n \in Nat : \E f : ReadBy(f, acc, rows, n)}
<1>1. 0 \in S
  <2> DEFINE f == [k \in 0..0 |-> acc]
  <2>1. f = [k \in 0..0 |-> IF k = 0 THEN acc ELSE Read(f[k - 1], rows[k])]
    OBVIOUS
  <2>2. ReadBy(f, acc, rows, 0)
    BY <2>1 DEF ReadBy
  <2> QED
    BY <2>2
<1>2. ASSUME NEW n \in Nat, n \in S PROVE n + 1 \in S
  <2>1. PICK f : ReadBy(f, acc, rows, n)
    BY <1>2
  <2> DEFINE g == [k \in 0..n + 1 |-> IF k = n + 1 THEN Read(f[n], rows[n + 1]) ELSE f[k]]
  <2>2. ASSUME NEW k \in 0..n + 1
        PROVE  g[k] = IF k = 0 THEN acc ELSE Read(g[k - 1], rows[k])
    <3>1. CASE k = n + 1
      <4>1. g[k] = Read(f[n], rows[n + 1])
        BY <3>1
      <4>2. k - 1 = n /\ n \in 0..n + 1 /\ n # n + 1 /\ k # 0
        BY <3>1
      <4>3. g[n] = f[n]
        BY <4>2
      <4> QED
        BY <3>1, <4>1, <4>2, <4>3
    <3>2. CASE k # n + 1
      <4>1. k \in 0..n /\ g[k] = f[k]
        BY <3>2
      <4>2. f[k] = IF k = 0 THEN acc ELSE Read(f[k - 1], rows[k])
        BY <2>1, <4>1 DEF ReadBy
      <4>3. k # 0 => k - 1 \in 0..n + 1 /\ k - 1 # n + 1 /\ g[k - 1] = f[k - 1]
        BY <4>1
      <4> QED
        BY <4>1, <4>2, <4>3
    <3> QED
      BY <3>1, <3>2
  <2>3. g = [k \in 0..n + 1 |-> g[k]]
    OBVIOUS
  <2> HIDE DEF g
  <2>4. ReadBy(g, acc, rows, n + 1)
    BY <2>2, <2>3 DEF ReadBy
  <2> QED
    BY <2>4
<1> HIDE DEF S
<1>3. Nat \subseteq S
  BY <1>1, <1>2, FromZero
<1> QED
  BY <1>3 DEF S

\* What has been read after some rows depends on those rows alone.
LEMMA ReadingSame ==
  ASSUME NEW acc, NEW s, NEW t, NEW n \in Nat, NEW m \in Nat, n <= m, NEW f, NEW g,
         ReadBy(f, acc, s, n), ReadBy(g, acc, t, m), \A i \in 1..n : s[i] = t[i]
  PROVE  \A i \in 0..n : f[i] = g[i]
<1> DEFINE S == {k \in Nat : k \in 0..n => f[k] = g[k]}
<1>1. 0 \in S
  BY DEF ReadBy
<1>2. ASSUME NEW k \in Nat, k \in S PROVE k + 1 \in S
  <2> SUFFICES ASSUME k + 1 \in 0..n PROVE f[k + 1] = g[k + 1]
    OBVIOUS
  <2>1. /\ k \in 0..n /\ k + 1 \in 0..m /\ k + 1 \in 1..n
        /\ (k + 1) - 1 = k /\ k + 1 # 0
    OBVIOUS
  <2>2. f[k + 1] = Read(f[k], s[k + 1])
    BY <2>1 DEF ReadBy
  <2>3. g[k + 1] = Read(g[k], t[k + 1])
    BY <2>1 DEF ReadBy
  <2>4. f[k] = g[k]
    BY <1>2, <2>1
  <2> QED
    BY <2>1, <2>2, <2>3, <2>4
<1> HIDE DEF S
<1>3. Nat \subseteq S
  BY <1>1, <1>2, FromZero
<1> QED
  BY <1>3 DEF S

LEMMA ReadingIs ==
  ASSUME NEW acc, NEW rows, NEW n \in Nat, Len(rows) = n, NEW f, ReadBy(f, acc, rows, n)
  PROVE  Reading(acc, rows) = f[n]
<1> DEFINE g == CHOOSE h : h = [k \in 0..Len(rows) |-> IF k = 0 THEN acc
                                                       ELSE Read(h[k - 1], rows[k])]
<1>1. Reading(acc, rows) = g[Len(rows)]
  BY DEF Reading
<1>2. ReadBy(g, acc, rows, n)
  BY DEF ReadBy
<1> HIDE DEF g
<1>3. \A i \in 0..n : g[i] = f[i]
  BY <1>2, ReadingSame
<1> QED
  BY <1>1, <1>3

LEMMA ReadingEmpty == \A acc : Reading(acc, <<>>) = acc
<1> SUFFICES ASSUME NEW acc PROVE Reading(acc, <<>>) = acc
  OBVIOUS
<1>1. PICK f : ReadBy(f, acc, <<>>, 0)
  BY ReadingExists
<1>2. f[0] = acc
  BY <1>1 DEF ReadBy
<1> QED
  BY <1>1, <1>2, ReadingIs

LEMMA ReadingAppend ==
  ASSUME NEW T, NEW rows \in Seq(T), NEW r \in T, NEW acc
  PROVE  Reading(acc, Append(rows, r)) = Read(Reading(acc, rows), r)
<1>1. PICK n \in Nat : n = Len(rows)
  BY LenProperties
<1>2. PICK t : t = Append(rows, r)
  OBVIOUS
<1>3. PICK m \in Nat : m = n + 1
  OBVIOUS
<1>4. Len(t) = m /\ t[m] = r /\ \A i \in 1..n : rows[i] = t[i]
  BY <1>1, <1>2, <1>3, AppendProperties
<1>5. PICK f : ReadBy(f, acc, rows, n)
  BY ReadingExists
<1>6. PICK g : ReadBy(g, acc, t, m)
  BY ReadingExists
<1>7. Reading(acc, rows) = f[n] /\ Reading(acc, t) = g[m]
  BY <1>1, <1>4, <1>5, <1>6, ReadingIs
<1>8. g[m] = Read(g[n], r)
  <2>1. m \in 0..m /\ m - 1 = n /\ m # 0
    BY <1>3
  <2> QED
    BY <1>4, <1>6, <2>1 DEF ReadBy
<1>9. f[n] = g[n]
  <2>1. n <= m /\ n \in 0..n
    BY <1>3
  <2> QED
    BY <1>4, <1>5, <1>6, <2>1, ReadingSame
<1> QED
  BY <1>2, <1>7, <1>8, <1>9

LEMMA ReadingConcat ==
  ASSUME NEW T, NEW a \in Seq(T), NEW acc
  PROVE  \A b \in Seq(T) : Reading(acc, a \o b) = Reading(Reading(acc, a), b)
<1> DEFINE P == {b \in Seq(T) : Reading(acc, a \o b) = Reading(Reading(acc, a), b)}
<1>1. <<>> \in P
  BY EmptySeq, ReadingEmpty, ConcatEmptySeq
<1>2. ASSUME NEW b \in Seq(T), NEW x \in T, b \in P PROVE Append(b, x) \in P
  <2>1. a \o b \in Seq(T) /\ Append(b, x) \in Seq(T)
    BY ConcatProperties, AppendProperties
  <2>2. a \o Append(b, x) = Append(a \o b, x)
    BY ConcatAppend
  <2>3. Reading(acc, Append(a \o b, x)) = Read(Reading(acc, a \o b), x)
    BY <2>1, ReadingAppend
  <2>4. Reading(Reading(acc, a), Append(b, x)) = Read(Reading(Reading(acc, a), b), x)
    BY ReadingAppend
  <2> QED
    BY <1>2, <2>1, <2>2, <2>3, <2>4
<1> HIDE DEF P
<1>3. Seq(T) \subseteq P
  BY <1>1, <1>2, OneMore
<1> QED
  BY <1>3 DEF P

LEMMA ReadingOne ==
  ASSUME NEW T, NEW r \in T, NEW acc PROVE Reading(acc, <<r>>) = Read(acc, r)
<1>1. <<>> \in Seq(T) /\ <<r>> = Append(<<>>, r)
  OBVIOUS
<1>2. Reading(acc, Append(<<>>, r)) = Read(Reading(acc, <<>>), r)
  BY <1>1, ReadingAppend
<1> QED
  BY <1>1, <1>2, ReadingEmpty

-----------------------------------------------------------------------------
(***************************************************************************)
(* Types of what is read and rebuilt.                                      *)
(***************************************************************************)
Mime == STRING \cup {"none"}
Words == Seq(Nat \X STRING \X Nat \X BOOLEAN)
Part == [mime : STRING, size : Nat \ {0}, raw : BOOLEAN]
Said == {"stream", "error", "display", "result", "update"}
Message == [type : Said \cup {"clear"}, name : STRING, id : Nat, wait : BOOLEAN,
            body : Seq(Part)]
EventRow == [type : Said \cup {"clear"}, name : STRING, mime : Mime, id : Nat,
             wait : BOOLEAN, art : BOOLEAN, text : Words, trace : Words]
Shown1 == [type : Said, name : STRING, mime : Mime, id : Nat, art : BOOLEAN, text : Words]
\* A group that can still be extended has its output.
ReaderOK(acc) ==
  /\ acc = [outs |-> acc.outs, pending |-> acc.pending, at |-> acc.at, group |-> acc.group,
            failed |-> acc.failed]
  /\ acc.outs \in Seq(Shown1) /\ acc.pending \in BOOLEAN /\ acc.at \in Nat
  /\ acc.failed \in BOOLEAN
  /\ acc.group # NoGroup => acc.at \in 1..Len(acc.outs)

LEMMA StartOK == ReaderOK(Start)
<1>1. <<>> \in Seq(Shown1)
  BY EmptySeq
<1> QED
  BY <1>1 DEF ReaderOK, Start

LEMMA MessageTypes ==
  ASSUME NEW m \in Messages
  PROVE  /\ m \in Message /\ m.body \in Seq(Part) /\ m.type \in Said \cup {"clear"}
         /\ m.type \in {"stream", "error"} => m.id = 0 /\ Len(m.body) = 1
         /\ m.type = "clear" => m.id = 0 /\ m.body = <<>>
         /\ \A i, j \in 1..Len(m.body) : m.body[i].mime = m.body[j].mime => i = j
<1>1. Message = [type : {"stream", "error", "display", "result", "update", "clear"},
                 name : STRING, id : Nat, wait : BOOLEAN, body : Seq(Part)]
  BY DEF Message, Said
<1>2. m \in Message
  BY <1>1, MessagesAssumption DEF Part
<1>3. m.body \in Seq(Part) /\ m.type \in Said \cup {"clear"}
  BY <1>2 DEF Message
<1> QED
  BY <1>2, <1>3, MessagesAssumption

LEMMA Least ==
  ASSUME NEW U, U \subseteq Nat, U # {} PROVE \E u \in U : \A v \in U : u <= v
<1>1. IsWellFoundedOn(OpToRel(<, Nat), Nat)
  BY NatLessThanWellFounded
<1>2. PICK u \in U : \A v \in U : ~(<<v, u>> \in OpToRel(<, Nat))
  BY <1>1, WFMin
<1>3. \A v \in U : ~(v < u)
  BY <1>2 DEF OpToRel
<1>4. \A v \in U : u <= v
  <2> SUFFICES ASSUME NEW v \in U PROVE u <= v
    OBVIOUS
  <2>1. u \in Nat /\ v \in Nat /\ ~(v < u)
    BY <1>3
  <2> QED
    BY <2>1
<1> QED
  BY <1>4

LEMMA MaxIs ==
  ASSUME NEW S, S \subseteq Nat, S # {}, NEW n \in Nat, \A x \in S : x <= n
  PROVE  Max(S) \in S /\ \A x \in S : x <= Max(S)
<1> DEFINE U == {k \in Nat : \A x \in S : x <= k}
<1>1. U \subseteq Nat /\ U # {}
  OBVIOUS
<1>2. PICK u \in U : \A v \in U : u <= v
  <2> HIDE DEF U
  <2> QED
    BY <1>1, Least
<1>3. u \in S
  <2> SUFFICES ASSUME u \notin S PROVE FALSE
    OBVIOUS
  <2>1. u \in Nat /\ \A x \in S : x \in Nat /\ x <= u /\ x # u
    OBVIOUS
  <2>2. PICK y \in S : y \in Nat /\ y <= u /\ y # u
    BY <2>1
  <2>3. u - 1 \in Nat
    BY <2>1, <2>2
  <2>4. \A x \in S : x <= u - 1
    BY <2>1
  <2>5. u - 1 \in U
    BY <2>3, <2>4
  <2> QED
    BY <1>2, <2>1, <2>5
<1>4. \E x \in S : \A y \in S : x >= y
  BY <1>3
<1> QED
  BY <1>4 DEF Max

LEMMA TokensType ==
  ASSUME NEW n \in Nat, NEW b \in Part
  PROVE  /\ Tokens(n, b) \in Words /\ Len(Tokens(n, b)) = b.size
         /\ \A k \in 1..b.size : <<Tokens(n, b)[k]>> \in Words
<1>1. b.size \in Nat /\ b.mime \in STRING /\ b.raw \in BOOLEAN
  BY DEF Part
<1>2. Tokens(n, b) \in [1..b.size -> Nat \X STRING \X Nat \X BOOLEAN]
  BY <1>1 DEF Tokens
<1> QED
  BY <1>1, <1>2 DEF Words

LEMMA RowType ==
  ASSUME NEW m \in Message, NEW mime \in Mime, NEW art \in BOOLEAN, NEW text \in Words,
         NEW trace \in Words
  PROVE  RowOf(m, mime, art, text, trace) \in EventRow
BY DEF RowOf, Message, EventRow

(***************************************************************************)
(* One row.                                                                *)
(***************************************************************************)
LEMMA KeyTypes ==
  ASSUME NEW m, NEW mime
  PROVE  /\ KeyOf(m, mime)[1] = m.type
         /\ m.type \in Said => KeyOf(m, mime) # NoGroup
<1>1. KeyOf(m, mime)[1] = m.type
  BY DEF KeyOf
<1>2. NoGroup[1] = "none"
  BY DEF NoGroup
<1> QED
  BY <1>1, <1>2 DEF Said

LEMMA OutputType ==
  ASSUME NEW ev \in EventRow, ev.type \in Said PROVE OutputOf(ev) \in Shown1
<1>1. /\ ev.name \in STRING /\ ev.mime \in Mime /\ ev.id \in Nat /\ ev.art \in BOOLEAN
      /\ ev.text \in Words /\ ev.trace \in Words
  BY DEF EventRow
<1>2. "display" \in Said
  BY DEF Said
<1> QED
  BY <1>1, <1>2 DEF OutputOf, Shown1

LEMMA JoinedType ==
  ASSUME NEW ev \in EventRow, NEW o \in Shown1 PROVE Joined(o, ev) \in Shown1
<1>1. o.text \in Words /\ ev.text \in Words /\ ev.trace \in Words
  BY DEF EventRow, Shown1
<1>2. o.text \o ev.text \in Words
  BY <1>1, ConcatProperties DEF Words
<1>3. \A t \in Words : [o EXCEPT !.text = t] \in Shown1
                       /\ [o EXCEPT !.art = TRUE, !.text = t] \in Shown1
  BY DEF Shown1
<1> QED
  BY <1>1, <1>2, <1>3 DEF Joined

\* Where a new output goes.
Base(acc) == IF acc.pending THEN <<>> ELSE acc.outs
SameId(acc, ev) ==
  {i \in 1..Len(Base(acc)) : ev.type = "update" /\ ev.id # 0 /\ Base(acc)[i].id = ev.id}
PlaceOf(acc, ev) ==
  IF SameId(acc, ev) = {} THEN Len(Base(acc)) + 1 ELSE Max(SameId(acc, ev))
Placed(acc, ev) ==
  IF SameId(acc, ev) = {} THEN Append(Base(acc), OutputOf(ev))
  ELSE [Base(acc) EXCEPT ![PlaceOf(acc, ev)] = OutputOf(ev)]

LEMMA AddIs ==
  ASSUME NEW acc, NEW ev
  PROVE  Add(acc, ev) = [outs |-> Placed(acc, ev), pending |-> FALSE, at |-> PlaceOf(acc, ev),
                         group |-> KeyOf(ev, ev.mime), failed |-> Ended(acc)]
BY DEF Add, Placed, PlaceOf, SameId, Base

LEMMA BaseType ==
  ASSUME NEW acc, ReaderOK(acc) PROVE Base(acc) \in Seq(Shown1) /\ Len(Base(acc)) \in Nat
<1>1. acc.outs \in Seq(Shown1) /\ <<>> \in Seq(Shown1)
  BY EmptySeq DEF ReaderOK
<1> QED
  BY <1>1, LenProperties DEF Base

LEMMA PlaceIs ==
  ASSUME NEW acc, ReaderOK(acc), NEW ev
  PROVE  /\ SameId(acc, ev) # {} => /\ PlaceOf(acc, ev) \in SameId(acc, ev)
                                    /\ PlaceOf(acc, ev) \in 1..Len(Base(acc))
                                    /\ \A i \in SameId(acc, ev) : i <= PlaceOf(acc, ev)
         /\ PlaceOf(acc, ev) \in Nat
<1>1. Len(Base(acc)) \in Nat
  BY BaseType
<1>2. SameId(acc, ev) \subseteq 1..Len(Base(acc))
  BY DEF SameId
<1>3. ASSUME SameId(acc, ev) # {}
      PROVE  Max(SameId(acc, ev)) \in SameId(acc, ev)
             /\ \A i \in SameId(acc, ev) : i <= Max(SameId(acc, ev))
  <2>1. SameId(acc, ev) \subseteq Nat /\ \A i \in SameId(acc, ev) : i <= Len(Base(acc))
    BY <1>1, <1>2
  <2> QED
    BY <1>1, <1>3, <2>1, MaxIs
<1> QED
  BY <1>1, <1>2, <1>3 DEF PlaceOf

LEMMA PlacedIs ==
  ASSUME NEW acc, ReaderOK(acc), NEW ev \in EventRow, ev.type \in Said
  PROVE  /\ Placed(acc, ev) \in Seq(Shown1)
         /\ PlaceOf(acc, ev) \in 1..Len(Placed(acc, ev))
         /\ Placed(acc, ev)[PlaceOf(acc, ev)] = OutputOf(ev)
         /\ Len(Placed(acc, ev)) = IF SameId(acc, ev) = {} THEN Len(Base(acc)) + 1
                                   ELSE Len(Base(acc))
         /\ \A i \in 1..Len(Base(acc)) :
              i # PlaceOf(acc, ev) => Placed(acc, ev)[i] = Base(acc)[i]
<1>1. Base(acc) \in Seq(Shown1) /\ Len(Base(acc)) \in Nat /\ OutputOf(ev) \in Shown1
  BY BaseType, OutputType
<1>2. CASE SameId(acc, ev) = {}
  <2>1. /\ Placed(acc, ev) = Append(Base(acc), OutputOf(ev))
        /\ PlaceOf(acc, ev) = Len(Base(acc)) + 1
    BY <1>2 DEF Placed, PlaceOf
  <2> QED
    BY <1>1, <1>2, <2>1, AppendProperties
<1>3. CASE SameId(acc, ev) # {}
  <2>1. /\ Placed(acc, ev) = [Base(acc) EXCEPT ![PlaceOf(acc, ev)] = OutputOf(ev)]
        /\ PlaceOf(acc, ev) \in 1..Len(Base(acc))
    BY <1>3, PlaceIs DEF Placed
  <2> QED
    BY <1>1, <1>3, <2>1, ExceptSeq
<1> QED
  BY <1>2, <1>3

LEMMA ExtendIs ==
  ASSUME NEW acc, ReaderOK(acc), NEW ev \in EventRow, acc.at \in 1..Len(acc.outs)
  PROVE  /\ acc.outs \in Seq(Shown1) /\ acc.outs[acc.at] \in Shown1
         /\ Extend(acc, ev).outs \in Seq(Shown1)
         /\ Len(Extend(acc, ev).outs) = Len(acc.outs)
         /\ Extend(acc, ev).outs[acc.at] = Joined(acc.outs[acc.at], ev)
         /\ \A i \in 1..Len(acc.outs) : i # acc.at => Extend(acc, ev).outs[i] = acc.outs[i]
         /\ Extend(acc, ev) = [outs |-> Extend(acc, ev).outs, pending |-> acc.pending,
                               at |-> acc.at, group |-> acc.group, failed |-> acc.failed]
<1>1. acc.outs \in Seq(Shown1)
  BY DEF ReaderOK
<1>2. acc.outs[acc.at] \in Shown1
  BY <1>1, ElementOfSeq
<1>3. Joined(acc.outs[acc.at], ev) \in Shown1
  BY <1>2, JoinedType
<1>4. Extend(acc, ev).outs = [acc.outs EXCEPT ![acc.at] = Joined(acc.outs[acc.at], ev)]
  BY <1>1 DEF Extend, ReaderOK
<1>5. Extend(acc, ev) = [outs |-> Extend(acc, ev).outs, pending |-> acc.pending,
                         at |-> acc.at, group |-> acc.group, failed |-> acc.failed]
  <2>1. PICK e : e = Extend(acc, ev)
    OBVIOUS
  <2>2. PICK o : o = [acc.outs EXCEPT ![acc.at] = Joined(acc.outs[acc.at], ev)]
    OBVIOUS
  <2>3. e = [acc EXCEPT !.outs = o]
    BY <2>1, <2>2 DEF Extend
  <2>4. acc = [outs |-> acc.outs, pending |-> acc.pending, at |-> acc.at, group |-> acc.group,
               failed |-> acc.failed]
    BY DEF ReaderOK
  <2>5. e = [outs |-> o, pending |-> acc.pending, at |-> acc.at, group |-> acc.group,
             failed |-> acc.failed]
    BY <2>3, <2>4
  <2>6. e.outs = o
    BY <2>5
  <2> QED
    BY <2>1, <2>5, <2>6
<1> QED
  BY <1>1, <1>2, <1>3, <1>4, <1>5, ExceptSeq

LEMMA ReadCases ==
  ASSUME NEW acc, NEW ev \in EventRow
  PROVE  /\ ev.type \in Said /\ Continues(acc, ev) => Read(acc, ev) = Extend(acc, ev)
         /\ ev.type \in Said /\ ~Continues(acc, ev) => Read(acc, ev) = Add(acc, ev)
         /\ ev.type = "clear" /\ ev.wait =>
              Read(acc, ev) = [acc EXCEPT !.pending = TRUE, !.group = NoGroup,
                                          !.failed = Ended(acc)]
         /\ ev.type = "clear" /\ ~ev.wait => Read(acc, ev) = [Start EXCEPT !.failed = Ended(acc)]
BY DEF Read, Said

\* A reader that a clear has emptied.
LEMMA Emptied ==
  ASSUME NEW f \in BOOLEAN
  PROVE  /\ [Start EXCEPT !.failed = f] =
              [outs |-> <<>>, pending |-> FALSE, at |-> 0, group |-> NoGroup, failed |-> f]
         /\ ReaderOK([Start EXCEPT !.failed = f])
<1>1. <<>> \in Seq(Shown1)
  BY EmptySeq
<1> DEFINE new == [Start EXCEPT !.failed = f]
<1>2. Start \in [outs : {<<>>}, pending : {FALSE}, at : {0}, group : {NoGroup},
                 failed : BOOLEAN]
  BY DEF Start
<1>3. new \in [outs : {<<>>}, pending : {FALSE}, at : {0}, group : {NoGroup}, failed : {f}]
  BY <1>2
<1> HIDE DEF new
<1>4. new = [outs |-> <<>>, pending |-> FALSE, at |-> 0, group |-> NoGroup, failed |-> f]
  BY <1>3
<1>5. ReaderOK(new)
  BY <1>1, <1>4 DEF ReaderOK
<1> QED
  BY <1>4, <1>5 DEF new

LEMMA EndedType == ASSUME NEW acc, ReaderOK(acc) PROVE Ended(acc) \in BOOLEAN
BY DEF Ended, ReaderOK

LEMMA Waiting ==
  ASSUME NEW acc, ReaderOK(acc)
  PROVE  [acc EXCEPT !.pending = TRUE, !.group = NoGroup, !.failed = Ended(acc)] =
           [outs |-> acc.outs, pending |-> TRUE, at |-> acc.at, group |-> NoGroup,
            failed |-> Ended(acc)]
<1> DEFINE new == [acc EXCEPT !.pending = TRUE, !.group = NoGroup, !.failed = Ended(acc)]
<1>1. acc \in [outs : {acc.outs}, pending : BOOLEAN, at : Nat, group : {acc.group},
               failed : BOOLEAN]
  BY DEF ReaderOK
<1>2. new \in [outs : {acc.outs}, pending : {TRUE}, at : {acc.at}, group : {NoGroup},
               failed : {Ended(acc)}]
  BY <1>1
<1> HIDE DEF new
<1>3. new = [outs |-> acc.outs, pending |-> TRUE, at |-> acc.at, group |-> NoGroup,
             failed |-> Ended(acc)]
  BY <1>2
<1> QED
  BY <1>3 DEF new

LEMMA ReadOK ==
  ASSUME NEW acc, ReaderOK(acc), NEW ev \in EventRow
  PROVE  ReaderOK(Read(acc, ev))
<1>1. CASE ev.type \in Said /\ Continues(acc, ev)
  <2>1. acc.group # NoGroup /\ acc.at \in 1..Len(acc.outs)
    BY <1>1, KeyTypes DEF Continues, ReaderOK
  <2>2. Read(acc, ev) = Extend(acc, ev)
    BY <1>1, ReadCases
  <2>3. PICK o \in Seq(Shown1) : Len(o) = Len(acc.outs) /\ o = Extend(acc, ev).outs
    BY <2>1, ExtendIs
  <2>4. Read(acc, ev) = [outs |-> o, pending |-> acc.pending, at |-> acc.at,
                         group |-> acc.group, failed |-> acc.failed]
    BY <2>1, <2>2, <2>3, ExtendIs
  <2> QED
    BY <2>1, <2>3, <2>4 DEF ReaderOK
<1>2. CASE ev.type \in Said /\ ~Continues(acc, ev)
  <2>1. Read(acc, ev) = [outs |-> Placed(acc, ev), pending |-> FALSE,
                         at |-> PlaceOf(acc, ev), group |-> KeyOf(ev, ev.mime),
                         failed |-> Ended(acc)]
    BY <1>2, AddIs, ReadCases
  <2>2. Placed(acc, ev) \in Seq(Shown1) /\ PlaceOf(acc, ev) \in 1..Len(Placed(acc, ev))
        /\ PlaceOf(acc, ev) \in Nat
    BY <1>2, PlacedIs, PlaceIs
  <2> QED
    BY <1>2, <2>1, <2>2, KeyTypes, EndedType DEF ReaderOK
<1>3. CASE ev.type = "clear"
  <2>1. CASE ev.wait
    <3>1. Read(acc, ev) = [outs |-> acc.outs, pending |-> TRUE, at |-> acc.at,
                           group |-> NoGroup, failed |-> Ended(acc)]
      BY <1>3, <2>1, ReadCases, Waiting
    <3> QED
      BY <3>1, EndedType DEF ReaderOK
  <2>2. CASE ~ev.wait
    <3>1. Read(acc, ev) = [Start EXCEPT !.failed = Ended(acc)]
      BY <1>3, <2>2, ReadCases
    <3>2. Ended(acc) \in BOOLEAN
      BY EndedType
    <3> QED
      BY Zenon, <3>1, <3>2, Emptied
  <2> QED
    BY <2>1, <2>2
<1>4. ev.type \in Said \cup {"clear"}
  BY DEF EventRow
<1> QED
  BY <1>1, <1>2, <1>3, <1>4

LEMMA ReadingOK ==
  ASSUME NEW acc, ReaderOK(acc)
  PROVE  \A rows \in Seq(EventRow) : ReaderOK(Reading(acc, rows))
<1> DEFINE P == {rows \in Seq(EventRow) : ReaderOK(Reading(acc, rows))}
<1>1. <<>> \in P
  BY EmptySeq, ReadingEmpty
<1>2. ASSUME NEW rows \in Seq(EventRow), NEW r \in EventRow, rows \in P
      PROVE  Append(rows, r) \in P
  <2>1. Append(rows, r) \in Seq(EventRow)
    BY AppendProperties
  <2>2. Reading(acc, Append(rows, r)) = Read(Reading(acc, rows), r)
    BY ReadingAppend
  <2> QED
    BY <1>2, <2>1, <2>2, ReadOK
<1> HIDE DEF P
<1>3. Seq(EventRow) \subseteq P
  BY <1>1, <1>2, OneMore
<1> QED
  BY <1>3 DEF P

(***************************************************************************)
(* How text is cut does not show: reading the chunks of a representation   *)
(* is reading one row with all of its text.                                *)
(***************************************************************************)
LEMMA ReaderEqual ==
  ASSUME NEW a, NEW b, ReaderOK(a), ReaderOK(b), a.pending = b.pending, a.at = b.at,
         a.group = b.group, a.failed = b.failed, Len(a.outs) = Len(b.outs),
         \A i \in 1..Len(a.outs) : a.outs[i] = b.outs[i]
  PROVE  a = b
<1>1. a.outs = b.outs
  BY SeqEqual DEF ReaderOK
<1>2. /\ a = [outs |-> a.outs, pending |-> a.pending, at |-> a.at, group |-> a.group,
               failed |-> a.failed]
      /\ b = [outs |-> b.outs, pending |-> b.pending, at |-> b.at, group |-> b.group,
               failed |-> b.failed]
  BY Zenon DEF ReaderOK
<1> QED
  BY Zenon, <1>1, <1>2

\* Two rows of one group, and a row with the text of both.
SameGroup(e1, e2, e) ==
  /\ e1.type \in Said /\ ~e1.art /\ ~e2.art /\ ~e.art
  /\ e2.type = e1.type /\ e2.name = e1.name /\ e2.mime = e1.mime /\ e2.id = e1.id
  /\ e.type = e1.type /\ e.name = e1.name /\ e.mime = e1.mime /\ e.id = e1.id
  /\ e2.trace = <<>> /\ e.trace = e1.trace /\ e.text = e1.text \o e2.text

LEMMA WordsConcat ==
  ASSUME NEW x \in Words, NEW y \in Words
  PROVE  /\ x \o y \in Words
         /\ \A z \in Words : (x \o y) \o z = x \o (y \o z)
<1>1. PICK S : Words = Seq(S)
  BY DEF Words
<1> QED
  BY <1>1, ConcatProperties, ConcatAssociative

LEMMA JoinedIs ==
  ASSUME NEW ev \in EventRow, NEW o \in Shown1
  PROVE  LET j == Joined(o, ev) IN
         /\ j.type = o.type /\ j.name = o.name /\ j.mime = o.mime /\ j.id = o.id
         /\ j.art <=> ev.art \/ o.art
         /\ j.text = IF ev.art THEN ev.text
                     ELSE IF ev.type = "error" THEN IF ev.trace = <<>> THEN o.text ELSE ev.trace
                     ELSE IF o.art THEN o.text ELSE o.text \o ev.text
BY DEF Joined, Shown1

LEMMA Shown1Equal ==
  ASSUME NEW a \in Shown1, NEW b \in Shown1, a.type = b.type, a.name = b.name,
         a.mime = b.mime, a.id = b.id, a.art <=> b.art, a.text = b.text
  PROVE  a = b
<1>1. \A o \in Shown1 : o = [type |-> o.type, name |-> o.name, mime |-> o.mime, id |-> o.id,
                             art |-> o.art, text |-> o.text] /\ o.art \in BOOLEAN
  BY DEF Shown1
<1>2. a.art = b.art
  BY <1>1
<1> QED
  BY Zenon, <1>1, <1>2

LEMMA JoinedTwice ==
  ASSUME NEW e1 \in EventRow, NEW e2 \in EventRow, NEW e \in EventRow, SameGroup(e1, e2, e)
  PROVE  /\ \A o \in Shown1 : Joined(Joined(o, e1), e2) = Joined(o, e)
         /\ Joined(OutputOf(e1), e2) = OutputOf(e)
<1>1. /\ e1.text \in Words /\ e2.text \in Words /\ e.text \in Words
      /\ e1.trace \in Words
  BY DEF EventRow
<1>2. ASSUME NEW o \in Shown1 PROVE Joined(Joined(o, e1), e2) = Joined(o, e)
  <2>1. /\ Joined(o, e1) \in Shown1 /\ Joined(Joined(o, e1), e2) \in Shown1
        /\ Joined(o, e) \in Shown1 /\ o.text \in Words
    BY JoinedType DEF Shown1
  <2>2. (o.text \o e1.text) \o e2.text = o.text \o (e1.text \o e2.text)
    <3>1. \A z \in Words : (o.text \o e1.text) \o z = o.text \o (e1.text \o z)
      BY <1>1, <2>1, WordsConcat
    <3> QED
      BY <1>1, <3>1
  <2>3. PICK j : j = Joined(o, e1)
    OBVIOUS
  <2>4. /\ j.type = o.type /\ j.name = o.name /\ j.mime = o.mime /\ j.id = o.id
        /\ j.art <=> o.art
        /\ j.text = IF e1.type = "error" THEN IF e1.trace = <<>> THEN o.text ELSE e1.trace
                    ELSE IF o.art THEN o.text ELSE o.text \o e1.text
    BY <2>3, JoinedIs DEF SameGroup
  <2>5. PICK k : k = Joined(j, e2)
    OBVIOUS
  <2>6. /\ k.type = j.type /\ k.name = j.name /\ k.mime = j.mime /\ k.id = j.id
        /\ k.art <=> j.art
        /\ k.text = IF e1.type = "error" THEN j.text
                    ELSE IF j.art THEN j.text ELSE j.text \o e2.text
    BY <2>1, <2>3, <2>5, JoinedIs DEF SameGroup
  <2>7. PICK l : l = Joined(o, e)
    OBVIOUS
  <2>8. /\ l.type = o.type /\ l.name = o.name /\ l.mime = o.mime /\ l.id = o.id
        /\ l.art <=> o.art
        /\ l.text = IF e1.type = "error" THEN IF e1.trace = <<>> THEN o.text ELSE e1.trace
                    ELSE IF o.art THEN o.text ELSE o.text \o (e1.text \o e2.text)
    <3>1. /\ l.type = o.type /\ l.name = o.name /\ l.mime = o.mime /\ l.id = o.id
          /\ l.art <=> e.art \/ o.art
          /\ l.text = IF e.art THEN e.text
                      ELSE IF e.type = "error" THEN IF e.trace = <<>> THEN o.text ELSE e.trace
                      ELSE IF o.art THEN o.text ELSE o.text \o e.text
      BY <2>7, JoinedIs
    <3>2. ~e.art /\ e.type = e1.type /\ e.trace = e1.trace /\ e.text = e1.text \o e2.text
      BY DEF SameGroup
    <3> QED
      BY <3>1, <3>2
  <2>9. k.text = l.text
    BY <2>2, <2>4, <2>6, <2>8
  <2>10. k = l
    BY <2>1, <2>3, <2>4, <2>5, <2>6, <2>7, <2>8, <2>9, Shown1Equal
  <2> QED
    BY <2>3, <2>5, <2>7, <2>10
<1>3. Joined(OutputOf(e1), e2) = OutputOf(e)
  <2>1. e1.type \in Said /\ e.type \in Said
    BY DEF SameGroup
  <2>2. /\ OutputOf(e1) \in Shown1 /\ OutputOf(e) \in Shown1
        /\ Joined(OutputOf(e1), e2) \in Shown1
    BY <2>1, OutputType, JoinedType
  <2>3. PICK o : o = OutputOf(e1)
    OBVIOUS
  <2>4. PICK l : l = OutputOf(e)
    OBVIOUS
  <2>5. PICK j : j = Joined(o, e2)
    OBVIOUS
  <2>6. /\ l.type = o.type /\ l.name = o.name /\ l.mime = o.mime /\ l.id = o.id
        /\ ~l.art /\ ~o.art
        /\ l.text = IF e1.type = "error" THEN o.text ELSE o.text \o e2.text
    BY <2>3, <2>4 DEF OutputOf, SameGroup
  <2>7. /\ j.type = o.type /\ j.name = o.name /\ j.mime = o.mime /\ j.id = o.id
        /\ ~j.art
        /\ j.text = IF e1.type = "error" THEN o.text ELSE o.text \o e2.text
    BY <2>2, <2>3, <2>5, <2>6, JoinedIs DEF SameGroup
  <2>8. j = l
    BY <2>2, <2>3, <2>4, <2>5, <2>6, <2>7, Shown1Equal
  <2> QED
    BY <2>3, <2>4, <2>5, <2>8
<1> QED
  BY <1>2, <1>3

LEMMA Merge ==
  ASSUME NEW acc, ReaderOK(acc), NEW e1 \in EventRow, NEW e2 \in EventRow, NEW e \in EventRow,
         SameGroup(e1, e2, e)
  PROVE  Read(Read(acc, e1), e2) = Read(acc, e)
<1>1. /\ e1.type \in Said /\ e2.type \in Said /\ e.type \in Said
      /\ KeyOf(e2, e2.mime) = KeyOf(e1, e1.mime) /\ KeyOf(e, e.mime) = KeyOf(e1, e1.mime)
  BY DEF SameGroup, KeyOf
<1>2. PICK b : b = Read(acc, e1)
  OBVIOUS
<1>3. ReaderOK(b) /\ ReaderOK(Read(b, e2)) /\ ReaderOK(Read(acc, e))
  BY <1>2, ReadOK
<1>4. CASE Continues(acc, e1)
  <2>1. acc.at \in 1..Len(acc.outs) /\ Continues(acc, e)
    BY <1>1, <1>4, KeyTypes DEF Continues, ReaderOK
  <2>2. b = Extend(acc, e1) /\ Read(acc, e) = Extend(acc, e)
    BY <1>1, <1>2, <1>4, <2>1, ReadCases
  <2>3. /\ b.at = acc.at /\ b.group = acc.group /\ b.pending = acc.pending
        /\ b.failed = acc.failed
        /\ Len(b.outs) = Len(acc.outs) /\ b.outs[b.at] = Joined(acc.outs[acc.at], e1)
        /\ \A i \in 1..Len(b.outs) : i # b.at => b.outs[i] = acc.outs[i]
        /\ acc.outs[acc.at] \in Shown1
    BY <2>1, <2>2, ExtendIs
  <2>4. Continues(b, e2) /\ b.at \in 1..Len(b.outs)
    BY <1>1, <1>4, <2>1, <2>3 DEF Continues
  <2>5. Read(b, e2) = Extend(b, e2)
    BY <1>1, <2>4, ReadCases
  <2>6. PICK x : x = Extend(b, e2)
    OBVIOUS
  <2>7. PICK y : y = Extend(acc, e)
    OBVIOUS
  <2>8. /\ x.at = b.at /\ x.group = b.group /\ x.pending = b.pending /\ x.failed = b.failed
        /\ Len(x.outs) = Len(b.outs) /\ x.outs[b.at] = Joined(b.outs[b.at], e2)
        /\ \A i \in 1..Len(b.outs) : i # b.at => x.outs[i] = b.outs[i]
    BY <1>3, <2>4, <2>6, ExtendIs
  <2>9. /\ y.at = acc.at /\ y.group = acc.group /\ y.pending = acc.pending
        /\ y.failed = acc.failed
        /\ Len(y.outs) = Len(acc.outs) /\ y.outs[acc.at] = Joined(acc.outs[acc.at], e)
        /\ \A i \in 1..Len(acc.outs) : i # acc.at => y.outs[i] = acc.outs[i]
    BY <2>1, <2>7, ExtendIs
  <2>10. x.outs[b.at] = y.outs[b.at]
    BY <2>3, <2>8, <2>9, JoinedTwice
  <2>11. \A i \in 1..Len(x.outs) : x.outs[i] = y.outs[i]
    BY <2>3, <2>8, <2>9, <2>10
  <2>12. ReaderOK(x) /\ ReaderOK(y)
    BY <1>3, <2>2, <2>5, <2>6, <2>7
  <2>13. x = y
    BY <2>3, <2>8, <2>9, <2>11, <2>12, ReaderEqual
  <2> QED
    BY <1>2, <2>2, <2>5, <2>6, <2>7, <2>13
<1>5. CASE ~Continues(acc, e1)
  <2>1. ~Continues(acc, e)
    BY <1>1, <1>5 DEF Continues
  <2>2. b = Add(acc, e1) /\ Read(acc, e) = Add(acc, e)
    BY <1>1, <1>2, <1>5, <2>1, ReadCases
  <2>3. PlaceOf(acc, e) = PlaceOf(acc, e1) /\ SameId(acc, e) = SameId(acc, e1)
    BY DEF PlaceOf, SameId, SameGroup
  <2>4. /\ b.at = PlaceOf(acc, e1) /\ b.group = KeyOf(e1, e1.mime) /\ b.pending = FALSE
        /\ b.outs = Placed(acc, e1) /\ b.failed = Ended(acc)
    BY <2>2, AddIs
  <2>5. Continues(b, e2) /\ b.at \in 1..Len(b.outs) /\ b.outs[b.at] = OutputOf(e1)
    BY <1>1, <2>4, PlacedIs DEF Continues
  <2>6. Read(b, e2) = Extend(b, e2)
    BY <1>1, <2>5, ReadCases
  <2>7. PICK x : x = Extend(b, e2)
    OBVIOUS
  <2>8. PICK y : y = Add(acc, e)
    OBVIOUS
  <2>9. /\ x.at = b.at /\ x.group = b.group /\ x.pending = b.pending /\ x.failed = b.failed
        /\ Len(x.outs) = Len(b.outs) /\ x.outs[b.at] = Joined(b.outs[b.at], e2)
        /\ \A i \in 1..Len(b.outs) : i # b.at => x.outs[i] = b.outs[i]
    BY <1>3, <2>5, <2>7, ExtendIs
  <2>10. /\ y.at = b.at /\ y.group = b.group /\ y.pending = b.pending
         /\ y.outs = Placed(acc, e) /\ y.failed = b.failed
    BY <1>1, <2>3, <2>4, <2>8, AddIs
  <2>11. /\ Len(y.outs) = Len(b.outs) /\ y.outs[b.at] = OutputOf(e)
         /\ \A i \in 1..Len(Base(acc)) : i # b.at => y.outs[i] = b.outs[i]
    BY <1>1, <2>3, <2>4, <2>10, PlacedIs
  <2>12. \A i \in 1..Len(b.outs) : i # b.at => i \in 1..Len(Base(acc))
    <3>1. /\ Len(Base(acc)) \in Nat
          /\ Len(b.outs) = IF SameId(acc, e1) = {} THEN Len(Base(acc)) + 1 ELSE Len(Base(acc))
      BY <1>1, <2>4, BaseType, PlacedIs
    <3>2. SameId(acc, e1) = {} => b.at = Len(Base(acc)) + 1
      BY <2>4 DEF PlaceOf
    <3> QED
      BY <3>1, <3>2
  <2>13. x.outs[b.at] = y.outs[b.at]
    BY <2>5, <2>9, <2>11, JoinedTwice
  <2>14. \A i \in 1..Len(x.outs) : x.outs[i] = y.outs[i]
    BY <2>9, <2>11, <2>12, <2>13
  <2>15. ReaderOK(x) /\ ReaderOK(y)
    BY <1>3, <2>2, <2>6, <2>7, <2>8
  <2>16. x = y
    BY <2>9, <2>10, <2>11, <2>14, <2>15, ReaderEqual
  <2> QED
    BY <1>2, <2>2, <2>6, <2>7, <2>8, <2>16
<1> QED
  BY <1>4, <1>5

(***************************************************************************)
(* A message's rows read like one row for each of its representations.     *)
(***************************************************************************)
LEMMA OneElement ==
  ASSUME NEW T, NEW x \in T PROVE <<x>> \in Seq(T)
OBVIOUS

LEMMA FunctionAppend ==
  ASSUME NEW T, NEW k \in Nat, NEW f \in [1..k + 1 -> T]
  PROVE  /\ [j \in 1..k |-> f[j]] \in Seq(T)
         /\ f = Append([j \in 1..k |-> f[j]], f[k + 1])
         /\ f[k + 1] \in T
<1>1. PICK g : g = [j \in 1..k |-> f[j]]
  OBVIOUS
<1>2. g \in [1..k -> T] /\ f[k + 1] \in T
  BY <1>1
<1>3. g \in Seq(T) /\ Len(g) = k
  BY <1>2
<1>4. /\ Append(g, f[k + 1]) \in Seq(T) /\ Len(Append(g, f[k + 1])) = k + 1
      /\ \A j \in 1..k : Append(g, f[k + 1])[j] = g[j]
      /\ Append(g, f[k + 1])[k + 1] = f[k + 1]
  BY <1>2, <1>3, AppendProperties
<1>5. f \in Seq(T) /\ Len(f) = k + 1
  OBVIOUS
<1>6. \A j \in 1..k + 1 : f[j] = Append(g, f[k + 1])[j]
  BY <1>1, <1>4
<1>7. f = Append(g, f[k + 1])
  BY <1>4, <1>5, <1>6, SeqEqual
<1> QED
  BY <1>1, <1>2, <1>3, <1>7

\* The first k tokens of a representation, the row they are one of, and the
\* rows they are read from.
First(n, b, k) == [j \in 1..k |-> <<n, b.mime, j, b.raw>>]
Trace(m, n, b) == IF m.type = "error" THEN Tokens(n, b) ELSE <<>>
Piece(m, n, b, j) ==
  RowOf(m, b.mime, FALSE, <<Tokens(n, b)[j]>>, IF j = 1 THEN Trace(m, n, b) ELSE <<>>)
Pieces(m, n, b, k) == [j \in 1..k |-> Piece(m, n, b, j)]
Joint(m, n, b, k) == RowOf(m, b.mime, FALSE, First(n, b, k), Trace(m, n, b))

Whole(m, n, b) ==
  RowOf(m, b.mime, AsArtifact(m, b), Tokens(n, b), Trace(m, n, b))

LEMMA PieceTypes ==
  ASSUME NEW m \in Message, NEW n \in Nat, NEW b \in Part
  PROVE  /\ b.size \in Nat \ {0} /\ b.mime \in STRING /\ b.mime \in Mime
         /\ Trace(m, n, b) \in Words /\ <<>> \in Words
         /\ Whole(m, n, b) \in EventRow
         /\ \A j \in 1..b.size : Piece(m, n, b, j) \in EventRow
         /\ \A k \in Nat : First(n, b, k) \in Words /\ Joint(m, n, b, k) \in EventRow
<1>1. b.size \in Nat \ {0} /\ b.mime \in STRING /\ b.mime \in Mime
  BY DEF Part, Mime
<1>2. <<>> \in Words /\ Trace(m, n, b) \in Words
  BY TokensType, EmptySeq DEF Trace, Words
<1>3. \A k \in Nat : First(n, b, k) \in Words
  <2> SUFFICES ASSUME NEW k \in Nat PROVE First(n, b, k) \in Words
    OBVIOUS
  <2>1. First(n, b, k) \in [1..k -> Nat \X STRING \X Nat \X BOOLEAN]
    <3>1. b.raw \in BOOLEAN
      BY DEF Part
    <3> QED
      BY <1>1, <3>1 DEF First
  <2> QED
    BY <2>1 DEF Words
<1>4. \A k \in Nat : Joint(m, n, b, k) \in EventRow
  BY <1>1, <1>2, <1>3, RowType DEF Joint
<1>5. \A j \in 1..b.size : Piece(m, n, b, j) \in EventRow
  BY <1>1, <1>2, TokensType, RowType DEF Piece
<1>6. Whole(m, n, b) \in EventRow
  <2>1. AsArtifact(m, b) \in BOOLEAN
    BY Zenon DEF AsArtifact, Displays
  <2> QED
    BY <1>1, <1>2, <2>1, TokensType, RowType DEF Whole
<1> QED
  BY <1>1, <1>2, <1>3, <1>4, <1>5, <1>6

LEMMA ReadPieces ==
  ASSUME NEW m \in Message, m.type \in Said, NEW n \in Nat, NEW b \in Part,
         NEW acc, ReaderOK(acc), NEW k \in 1..b.size
  PROVE  /\ Pieces(m, n, b, k) \in Seq(EventRow)
         /\ Reading(acc, Pieces(m, n, b, k)) = Read(acc, Joint(m, n, b, k))
<1> DEFINE S == {j \in Nat : j + 1 \in 1..b.size =>
                   /\ Pieces(m, n, b, j + 1) \in Seq(EventRow)
                   /\ Reading(acc, Pieces(m, n, b, j + 1)) = Read(acc, Joint(m, n, b, j + 1))}
<1>1. b.size \in Nat /\ \A j \in 1..b.size : Tokens(n, b)[j] = <<n, b.mime, j, b.raw>>
  BY PieceTypes DEF Tokens
<1>2. 0 \in S
  <2> SUFFICES ASSUME 1 \in 1..b.size
               PROVE  /\ Pieces(m, n, b, 1) \in Seq(EventRow)
                      /\ Reading(acc, Pieces(m, n, b, 1)) = Read(acc, Joint(m, n, b, 1))
    OBVIOUS
  <2>1. First(n, b, 1) = <<Tokens(n, b)[1]>>
    BY <1>1 DEF First
  <2>2. Piece(m, n, b, 1) = Joint(m, n, b, 1)
    BY <2>1 DEF Piece, Joint
  <2>3. Pieces(m, n, b, 1) = <<Joint(m, n, b, 1)>> /\ Joint(m, n, b, 1) \in EventRow
    BY <2>2, PieceTypes DEF Pieces
  <2>4. <<Joint(m, n, b, 1)>> \in Seq(EventRow)
    BY <2>3, OneElement
  <2> QED
    BY <2>3, <2>4, ReadingOne
<1>3. ASSUME NEW i \in Nat, i \in S PROVE i + 1 \in S
  <2> SUFFICES ASSUME (i + 1) + 1 \in 1..b.size
               PROVE  /\ Pieces(m, n, b, (i + 1) + 1) \in Seq(EventRow)
                      /\ Reading(acc, Pieces(m, n, b, (i + 1) + 1)) =
                           Read(acc, Joint(m, n, b, (i + 1) + 1))
    OBVIOUS
  <2>1. PICK j \in Nat : j = i + 1 /\ j \in 1..b.size /\ j + 1 \in 1..b.size /\ j + 1 # 1
    BY <1>1
  <2>2. /\ Pieces(m, n, b, j) \in Seq(EventRow)
        /\ Reading(acc, Pieces(m, n, b, j)) = Read(acc, Joint(m, n, b, j))
    BY <1>3, <2>1
  <2>3. /\ Piece(m, n, b, j + 1) \in EventRow /\ Joint(m, n, b, j) \in EventRow
        /\ Joint(m, n, b, j + 1) \in EventRow
    BY <2>1, PieceTypes
  <2>4. Pieces(m, n, b, j + 1) = Append(Pieces(m, n, b, j), Piece(m, n, b, j + 1))
    <3>1. Pieces(m, n, b, j + 1) \in [1..j + 1 -> EventRow]
      <4>1. \A x \in 1..j + 1 : x \in 1..b.size
        BY <1>1, <2>1
      <4>2. \A x \in 1..j + 1 : Piece(m, n, b, x) \in EventRow
        BY <4>1, PieceTypes
      <4> QED
        BY <4>2 DEF Pieces
    <3>2. Pieces(m, n, b, j + 1)[j + 1] = Piece(m, n, b, j + 1)
      BY <2>1 DEF Pieces
    <3>3. [x \in 1..j |-> Pieces(m, n, b, j + 1)[x]] = Pieces(m, n, b, j)
      BY <2>1 DEF Pieces
    <3> QED
      BY <2>1, <3>1, <3>2, <3>3, FunctionAppend
  <2>5. Pieces(m, n, b, j + 1) \in Seq(EventRow)
    <3>1. Append(Pieces(m, n, b, j), Piece(m, n, b, j + 1)) \in Seq(EventRow)
      BY <2>2, <2>3, AppendProperties
    <3> QED
      BY Zenon, <2>4, <3>1
  <2>6. First(n, b, j + 1) = First(n, b, j) \o <<Tokens(n, b)[j + 1]>>
    <3> DEFINE T == Nat \X STRING \X Nat \X BOOLEAN
    <3>1. First(n, b, j + 1) \in [1..j + 1 -> T]
      <4>1. b.mime \in STRING /\ b.raw \in BOOLEAN
        BY DEF Part
      <4> QED
        BY <4>1 DEF First
    <3>2. First(n, b, j + 1)[j + 1] = Tokens(n, b)[j + 1]
      <4>1. First(n, b, j + 1)[j + 1] = <<n, b.mime, j + 1, b.raw>>
        BY <2>1 DEF First
      <4>2. Tokens(n, b)[j + 1] = <<n, b.mime, j + 1, b.raw>>
        BY <2>1 DEF Tokens
      <4> QED
        BY <4>1, <4>2
    <3>3. [x \in 1..j |-> First(n, b, j + 1)[x]] = First(n, b, j)
      BY <2>1 DEF First
    <3> HIDE DEF T
    <3>4. /\ First(n, b, j + 1) = Append(First(n, b, j), Tokens(n, b)[j + 1])
          /\ First(n, b, j) \in Seq(T) /\ Tokens(n, b)[j + 1] \in T
      <4>1. PICK f \in [1..j + 1 -> T] : f = First(n, b, j + 1)
        BY <3>1
      <4>2. /\ [x \in 1..j |-> f[x]] \in Seq(T) /\ f[j + 1] \in T
            /\ f = Append([x \in 1..j |-> f[x]], f[j + 1])
        BY FunctionAppend
      <4>3. [x \in 1..j |-> f[x]] = First(n, b, j) /\ f[j + 1] = Tokens(n, b)[j + 1]
        BY Zenon, <3>2, <3>3, <4>1
      <4> QED
        BY Zenon, <4>1, <4>2, <4>3
    <3> QED
      BY <3>4, AppendIsConcat
  <2>7. SameGroup(Joint(m, n, b, j), Piece(m, n, b, j + 1), Joint(m, n, b, j + 1))
    BY <2>1, <2>6 DEF SameGroup, Joint, Piece, RowOf
  <2>8. Reading(acc, Pieces(m, n, b, j + 1)) =
          Read(Read(acc, Joint(m, n, b, j)), Piece(m, n, b, j + 1))
    <3>1. PICK s \in Seq(EventRow) : s = Pieces(m, n, b, j)
      BY <2>2
    <3>2. PICK r \in EventRow : r = Piece(m, n, b, j + 1)
      BY <2>3
    <3>3. Reading(acc, Append(s, r)) = Read(Reading(acc, s), r)
      BY ReadingAppend
    <3>4. Pieces(m, n, b, j + 1) = Append(s, r)
      BY Zenon, <2>4, <3>1, <3>2
    <3> QED
      BY Zenon, <2>2, <3>1, <3>2, <3>3, <3>4
  <2> QED
    BY <2>1, <2>3, <2>5, <2>7, <2>8, Merge
<1> HIDE DEF S
<1>4. Nat \subseteq S
  BY <1>2, <1>3, FromZero
<1>5. k - 1 \in Nat /\ (k - 1) + 1 = k
  BY <1>1
<1> QED
  BY <1>4, <1>5 DEF S

LEMMA ReadBody ==
  ASSUME NEW m \in Message, m.type \in Said, NEW n \in Nat, NEW b \in Part,
         NEW acc, ReaderOK(acc)
  PROVE  /\ BodyRows(m, n, b) \in Seq(EventRow)
         /\ Reading(acc, BodyRows(m, n, b)) = Read(acc, Whole(m, n, b))
<1>1. b.size \in 1..b.size /\ Whole(m, n, b) \in EventRow
  BY PieceTypes
<1>2. CASE AsArtifact(m, b)
  <2>1. m.type # "error"
    BY <1>2 DEF AsArtifact, Displays
  <2>2. BodyRows(m, n, b) = <<Whole(m, n, b)>>
    BY <1>2, <2>1 DEF BodyRows, Whole, Trace
  <2> QED
    BY <1>1, <2>2, OneElement, ReadingOne
<1>3. CASE ~AsArtifact(m, b)
  <2>1. BodyRows(m, n, b) = Pieces(m, n, b, b.size)
    BY <1>3 DEF BodyRows, Pieces, Piece, Trace
  <2>2. First(n, b, b.size) = Tokens(n, b)
    BY DEF First, Tokens
  <2>3. AsArtifact(m, b) = FALSE
    BY Zenon, <1>3 DEF AsArtifact, Displays
  <2>4. Whole(m, n, b) = Joint(m, n, b, b.size)
    BY <2>2, <2>3 DEF Whole, Joint
  <2> QED
    BY <1>1, <2>1, <2>4, ReadPieces
<1> QED
  BY <1>2, <1>3

Bodies(m, n, k) == [i \in 1..k |-> BodyRows(m, n, m.body[i])]
Wholes(m, n, k) == [i \in 1..k |-> Whole(m, n, m.body[i])]
Bare(m) == RowOf(m, "none", FALSE, <<>>, <<>>)

\* A message's rows, with its representations whole.
PartRows(m, n) == IF m.body = <<>> THEN <<Bare(m)>> ELSE Wholes(m, n, Len(m.body))

LEMMA BareType == ASSUME NEW m \in Message PROVE Bare(m) \in EventRow
<1>1. <<>> \in Words
  BY EmptySeq DEF Words
<1>2. "none" \in Mime /\ FALSE \in BOOLEAN
  BY DEF Mime
<1>3. RowOf(m, "none", FALSE, <<>>, <<>>) \in EventRow
  BY ONLY <1>1, <1>2, RowType, m \in Message
<1> QED
  BY <1>3 DEF Bare

LEMMA ReadWholes ==
  ASSUME NEW m \in Message, m.type \in Said, NEW n \in Nat, NEW acc, ReaderOK(acc)
  PROVE  \A k \in Nat : k <= Len(m.body) =>
           /\ Bodies(m, n, k) \in Seq(Seq(EventRow)) /\ Wholes(m, n, k) \in Seq(EventRow)
           /\ Reading(acc, FlattenSeq(Bodies(m, n, k))) = Reading(acc, Wholes(m, n, k))
<1> DEFINE S == {k \in Nat : k <= Len(m.body) =>
                   /\ Bodies(m, n, k) \in Seq(Seq(EventRow)) /\ Wholes(m, n, k) \in Seq(EventRow)
                   /\ Reading(acc, FlattenSeq(Bodies(m, n, k))) = Reading(acc, Wholes(m, n, k))}
<1>1. m.body \in Seq(Part) /\ Len(m.body) \in Nat /\ \A i \in 1..Len(m.body) : m.body[i] \in Part
  BY LenProperties, ElementOfSeq DEF Message
<1>2. 0 \in S
  <2>1. Bodies(m, n, 0) = <<>> /\ Wholes(m, n, 0) = <<>>
    BY DEF Bodies, Wholes
  <2> QED
    BY <2>1, EmptySeq, FlattenEmpty
<1>3. ASSUME NEW k \in Nat, k \in S PROVE k + 1 \in S
  <2> SUFFICES ASSUME k + 1 <= Len(m.body)
               PROVE  /\ Bodies(m, n, k + 1) \in Seq(Seq(EventRow))
                      /\ Wholes(m, n, k + 1) \in Seq(EventRow)
                      /\ Reading(acc, FlattenSeq(Bodies(m, n, k + 1))) =
                           Reading(acc, Wholes(m, n, k + 1))
    OBVIOUS
  <2>1. k <= Len(m.body) /\ k + 1 \in 1..Len(m.body) /\ 1..k + 1 \subseteq 1..Len(m.body)
    BY <1>1
  <2>2. /\ Bodies(m, n, k) \in Seq(Seq(EventRow)) /\ Wholes(m, n, k) \in Seq(EventRow)
        /\ Reading(acc, FlattenSeq(Bodies(m, n, k))) = Reading(acc, Wholes(m, n, k))
    BY <1>3, <2>1
  <2>3. PICK b \in Part : b = m.body[k + 1]
    BY <1>1, <2>1
  <2>4. Bodies(m, n, k + 1) = Append(Bodies(m, n, k), BodyRows(m, n, b))
    <3>1. Bodies(m, n, k + 1) \in [1..k + 1 -> Seq(EventRow)]
      BY <1>1, <2>1, ReadBody DEF Bodies
    <3>2. Bodies(m, n, k + 1)[k + 1] = BodyRows(m, n, b)
      BY <2>3 DEF Bodies
    <3>3. [x \in 1..k |-> Bodies(m, n, k + 1)[x]] = Bodies(m, n, k)
      BY DEF Bodies
    <3> QED
      BY <3>1, <3>2, <3>3, FunctionAppend
  <2>5. Wholes(m, n, k + 1) = Append(Wholes(m, n, k), Whole(m, n, b))
    <3>1. Wholes(m, n, k + 1) \in [1..k + 1 -> EventRow]
      BY <1>1, <2>1, PieceTypes DEF Wholes
    <3>2. Wholes(m, n, k + 1)[k + 1] = Whole(m, n, b)
      BY <2>3 DEF Wholes
    <3>3. [x \in 1..k |-> Wholes(m, n, k + 1)[x]] = Wholes(m, n, k)
      BY DEF Wholes
    <3> QED
      BY <3>1, <3>2, <3>3, FunctionAppend
  <2>6. BodyRows(m, n, b) \in Seq(EventRow) /\ Whole(m, n, b) \in EventRow
    BY ReadBody, PieceTypes
  <2>7. PICK p : p = FlattenSeq(Bodies(m, n, k)) /\ p \in Seq(EventRow)
    BY <2>2, FlattenType
  <2>8. /\ FlattenSeq(Append(Bodies(m, n, k), BodyRows(m, n, b))) = p \o BodyRows(m, n, b)
        /\ Append(Bodies(m, n, k), BodyRows(m, n, b)) \in Seq(Seq(EventRow))
        /\ Append(Wholes(m, n, k), Whole(m, n, b)) \in Seq(EventRow)
    BY <2>2, <2>6, <2>7, FlattenAppend, AppendProperties
  <2>9. Reading(acc, p \o BodyRows(m, n, b)) = Reading(Reading(acc, p), BodyRows(m, n, b))
    BY <2>6, <2>7, ReadingConcat
  <2>10. Reading(Reading(acc, p), BodyRows(m, n, b)) = Read(Reading(acc, p), Whole(m, n, b))
    BY <2>7, ReadingOK, ReadBody
  <2>11. Reading(acc, Append(Wholes(m, n, k), Whole(m, n, b))) =
           Read(Reading(acc, Wholes(m, n, k)), Whole(m, n, b))
    BY <2>2, <2>6, ReadingAppend
  <2> QED
    BY Zenon, <2>2, <2>4, <2>5, <2>7, <2>8, <2>9, <2>10, <2>11
<1> HIDE DEF S
<1>4. Nat \subseteq S
  BY <1>2, <1>3, FromZero
<1> QED
  BY <1>4 DEF S

LEMMA ReadMessage ==
  ASSUME NEW m \in Messages, NEW n \in Nat, NEW acc, ReaderOK(acc)
  PROVE  /\ MessageRows(m, n) \in Seq(EventRow) /\ PartRows(m, n) \in Seq(EventRow)
         /\ Reading(acc, MessageRows(m, n)) = Reading(acc, PartRows(m, n))
<1>1. m \in Message /\ m.body \in Seq(Part)
  BY MessageTypes
<1>2. CASE m.body = <<>>
  <2>1. MessageRows(m, n) = <<Bare(m)>> /\ PartRows(m, n) = <<Bare(m)>>
    BY <1>2 DEF MessageRows, PartRows, Bare
  <2> QED
    BY <1>1, <2>1, BareType, OneElement
<1>3. CASE m.body # <<>>
  <2>1. m.type \in Said /\ Len(m.body) \in Nat /\ Len(m.body) <= Len(m.body)
    BY <1>1, <1>3, MessageTypes, LenProperties
  <2>2. MessageRows(m, n) = FlattenSeq(Bodies(m, n, Len(m.body)))
    BY <1>3 DEF MessageRows, Bodies
  <2>3. PartRows(m, n) = Wholes(m, n, Len(m.body))
    BY <1>3 DEF PartRows
  <2>4. /\ Bodies(m, n, Len(m.body)) \in Seq(Seq(EventRow))
        /\ Wholes(m, n, Len(m.body)) \in Seq(EventRow)
        /\ Reading(acc, FlattenSeq(Bodies(m, n, Len(m.body)))) =
             Reading(acc, Wholes(m, n, Len(m.body)))
    BY <1>1, <2>1, ReadWholes
  <2> QED
    BY <2>2, <2>3, <2>4, FlattenType
<1> QED
  BY <1>2, <1>3

(***************************************************************************)
(* A log and one more message.                                             *)
(***************************************************************************)
LEMMA LogGrows ==
  ASSUME log \in Seq(Messages), NEW m \in Messages, log' = Append(log, m)
  PROVE  /\ Len(log) \in Nat /\ Len(log') = Len(log) + 1
         /\ log'[Len(log) + 1] = m /\ \A n \in 1..Len(log) : log'[n] = log[n]
         /\ \A n \in 1..Len(log) : log[n] \in Messages
         /\ log' \in Seq(Messages)
BY LenProperties, ElementOfSeq, AppendProperties

LEMMA EventRowsType == log \in Seq(Messages) => EventRows \in Seq(EventRow)
<1> SUFFICES ASSUME log \in Seq(Messages) PROVE EventRows \in Seq(EventRow)
  OBVIOUS
<1>1. Len(log) \in Nat /\ \A n \in 1..Len(log) : log[n] \in Messages
  BY LenProperties, ElementOfSeq
<1>2. \A n \in 1..Len(log) : MessageRows(log[n], n) \in Seq(EventRow)
  <2>1. \A n \in 1..Len(log) : n \in Nat /\ log[n] \in Messages
    BY <1>1
  <2> QED
    BY <2>1, StartOK, ReadMessage
<1>3. [n \in 1..Len(log) |-> MessageRows(log[n], n)] \in [1..Len(log) -> Seq(EventRow)]
  BY <1>2
<1>4. [n \in 1..Len(log) |-> MessageRows(log[n], n)] \in Seq(Seq(EventRow))
  BY <1>1, <1>3
<1> QED
  BY <1>4, FlattenType DEF EventRows

LEMMA EventRowsGrow ==
  ASSUME log \in Seq(Messages), NEW m \in Messages, log' = Append(log, m)
  PROVE  /\ EventRows' = EventRows \o MessageRows(m, Len(log) + 1)
         /\ Reading(Start, EventRows') =
              Reading(Reading(Start, EventRows), PartRows(m, Len(log) + 1))
<1>1. PICK k \in Nat : k = Len(log)
  BY LogGrows
<1>2. /\ Len(log') = k + 1 /\ log'[k + 1] = m
      /\ \A n \in 1..k : log'[n] = log[n] /\ log[n] \in Messages
  BY <1>1, LogGrows
<1>3. PICK f : f = [n \in 1..k + 1 |-> MessageRows(log'[n], n)]
  OBVIOUS
<1>4. \A n \in 1..k + 1 : log'[n] \in Messages /\ n \in Nat
  BY <1>2
<1>5. f \in [1..k + 1 -> Seq(EventRow)]
  BY <1>3, <1>4, StartOK, ReadMessage
<1>6. PICK g : g = [n \in 1..k |-> MessageRows(log[n], n)]
  OBVIOUS
<1>7. [n \in 1..k |-> f[n]] = g
  BY <1>2, <1>3, <1>6
<1>8. g \in Seq(Seq(EventRow)) /\ f = Append(g, f[k + 1]) /\ f[k + 1] \in Seq(EventRow)
  BY <1>5, <1>7, FunctionAppend
<1>9. f[k + 1] = MessageRows(m, k + 1)
  BY <1>2, <1>3
<1>10. FlattenSeq(f) = FlattenSeq(g) \o MessageRows(m, k + 1) /\ FlattenSeq(g) \in Seq(EventRow)
  BY <1>8, <1>9, FlattenType, FlattenAppend
<1>11. EventRows' = FlattenSeq(f) /\ EventRows = FlattenSeq(g)
  BY <1>1, <1>2, <1>3, <1>6 DEF EventRows
<1>12. /\ MessageRows(m, k + 1) \in Seq(EventRow)
       /\ Reading(Reading(Start, EventRows), MessageRows(m, k + 1)) =
            Reading(Reading(Start, EventRows), PartRows(m, k + 1))
  BY <1>10, <1>11, StartOK, ReadingOK, ReadMessage
<1> QED
  BY <1>1, <1>10, <1>11, <1>12, ReadingConcat

\* The row of the whole text ends the reading, and shows nothing.
LEMMA WholeTextShowsNothing ==
  log \in Seq(Messages) => /\ NotebookOutputs = Reading(Start, EventRows).outs
                           /\ Raises <=> Ended(Reading(Start, EventRows))
<1> SUFFICES ASSUME log \in Seq(Messages)
             PROVE  /\ NotebookOutputs = Reading(Start, EventRows).outs
                    /\ Raises <=> Ended(Reading(Start, EventRows))
  OBVIOUS
<1>1. CASE Rows = EventRows
  BY <1>1 DEF NotebookOutputs, Raises
<1>2. CASE Rows # EventRows
  <2> DEFINE whole == [type |-> "artifact", name |-> "none", mime |-> "none", id |-> 0,
                       wait |-> FALSE, art |-> TRUE, text |-> <<>>, trace |-> <<>>]
             T == EventRow \cup {whole}
  <2>1. Rows = Append(EventRows, whole)
    BY <1>2 DEF Rows
  <2>2. whole.type = "artifact" /\ whole \in T /\ EventRow \subseteq T
    OBVIOUS
  <2> HIDE DEF whole
  <2>3. EventRows \in Seq(T)
    <3> HIDE DEF T
    <3> QED
      BY <2>2, EventRowsType, SeqMonotonic
  <2> HIDE DEF T
  <2>4. Reading(Start, Rows) = Read(Reading(Start, EventRows), whole)
    BY <2>1, <2>2, <2>3, ReadingAppend
  <2>5. PICK acc : acc = Reading(Start, EventRows) /\ ReaderOK(acc)
    BY StartOK, ReadingOK, EventRowsType
  <2>6. Read(acc, whole) = [acc EXCEPT !.group = NoGroup, !.failed = Ended(acc)]
    BY <2>2 DEF Read
  <2>7. PICK b : b = Read(acc, whole)
    OBVIOUS
  <2>8. b.outs = acc.outs /\ b.group = NoGroup /\ b.failed = Ended(acc)
    <3>1. acc \in [outs : {acc.outs}, pending : BOOLEAN, at : Nat, group : {acc.group},
                   failed : BOOLEAN]
      BY <2>5 DEF ReaderOK
    <3> QED
      BY <2>6, <2>7, <3>1
  <2>9. Ended(b) <=> Ended(acc)
    BY <2>5, <2>8, EndedType DEF Ended
  <2> QED
    BY <2>4, <2>5, <2>7, <2>8, <2>9 DEF NotebookOutputs, Raises
<1> QED
  BY <1>1, <1>2

-----------------------------------------------------------------------------
(***************************************************************************)
(* Why write-back fails: two displays of JSON in one group, or a string.   *)
(***************************************************************************)
Chained == {"stream", "error"}

\* The group being read is that of representation mime of m.
Grouped(acc, m, mime) ==
  /\ acc.group = KeyOf(m, mime) /\ acc.at \in 1..Len(acc.outs)
  /\ IF m.type \in Chained THEN acc.outs[acc.at].type \in Chained
     ELSE acc.outs[acc.at].mime = mime

\* A row may go on with the group of q, a representation of p; c is what
\* explains that something cannot be read.
LEMMA RowLoads ==
  ASSUME NEW acc, ReaderOK(acc), NEW m \in Message, m.type \in Said, NEW mime \in Mime,
         NEW ev \in EventRow, ev.type = m.type, ev.name = m.name, ev.id = m.id,
         ev.mime = mime, NEW c \in BOOLEAN, Ended(acc) => c,
         Displays(m) /\ mime \in Json /\ ~Loads(ev) => c,
         NEW p, NEW q,
         acc.group = KeyOf(m, mime) => Grouped(acc, p, q) /\ (Displays(p) /\ q \in Json => c)
  PROVE  /\ ReaderOK(Read(acc, ev)) /\ Grouped(Read(acc, ev), m, mime)
         /\ Ended(Read(acc, ev)) => c
<1>1. KeyOf(ev, ev.mime) = KeyOf(m, mime)
  BY DEF KeyOf
<1>2. PICK b : b = Read(acc, ev)
  OBVIOUS
<1>3. ReaderOK(b) /\ KeyOf(m, mime) # NoGroup
  BY <1>2, ReadOK, KeyTypes
<1>4. m.type \notin Chained => Displays(m) /\ KeyOf(m, mime)[2] = mime
  BY DEF Chained, Displays, Said, KeyOf
<1>5. CASE Continues(acc, ev)
  <2>1. acc.group = KeyOf(m, mime) /\ Grouped(acc, p, q) /\ (Displays(p) /\ q \in Json => c)
    BY <1>1, <1>5 DEF Continues
  <2>2. acc.at \in 1..Len(acc.outs) /\ KeyOf(p, q) = KeyOf(m, mime)
    BY <2>1 DEF Grouped
  <2>3. p.type = m.type
    <3>1. KeyOf(p, q)[1] = p.type /\ KeyOf(m, mime)[1] = m.type
      BY KeyTypes
    <3> QED
      BY <2>2, <3>1
  <2>4. m.type \notin Chained => q = mime /\ Displays(p)
    <3>1. p.type \notin Chained => KeyOf(p, q)[2] = q
      BY DEF Chained, KeyOf
    <3> QED
      BY <1>4, <2>2, <2>3, <3>1 DEF Displays
  <2>5. b = Extend(acc, ev)
    BY <1>2, <1>5, ReadCases
  <2>6. /\ acc.outs[acc.at] \in Shown1 /\ b.at = acc.at /\ b.group = acc.group
        /\ b.failed = acc.failed /\ Len(b.outs) = Len(acc.outs)
        /\ b.outs[b.at] = Joined(acc.outs[acc.at], ev)
    BY <2>2, <2>5, ExtendIs
  <2>7. PICK o \in Shown1 : o = acc.outs[acc.at]
    BY <2>6
  <2>8. PICK j : j = b.outs[b.at]
    OBVIOUS
  <2>9. j.type = o.type /\ j.mime = o.mime
    BY <2>6, <2>7, <2>8, JoinedIs
  <2>10. IF m.type \in Chained THEN o.type \in Chained ELSE o.mime = mime
    BY <2>1, <2>3, <2>4, <2>7 DEF Grouped
  <2>11. Grouped(b, m, mime)
    BY <2>1, <2>2, <2>6, <2>8, <2>9, <2>10 DEF Grouped
  <2>12. ASSUME Ended(b) PROVE c
    <3>1. CASE b.failed
      <4>1. Ended(acc)
        BY <2>6, <3>1 DEF Ended
      <4> QED
        BY <4>1
    <3>2. CASE ~b.failed
      <4>1. j.type \notin Chained /\ j.mime \in Json
        BY <2>8, <2>12, <3>2 DEF Ended, Chained
      <4>2. m.type \notin Chained /\ mime \in Json
        BY <2>9, <2>10, <4>1
      <4> QED
        BY <2>1, <2>4, <4>2
    <3> QED
      BY <3>1, <3>2
  <2> QED
    BY <1>2, <1>3, <2>11, <2>12
<1>6. CASE ~Continues(acc, ev)
  <2>1. b = Add(acc, ev) /\ ev.type \in Said
    BY <1>2, <1>6, ReadCases
  <2>2. /\ b.outs = Placed(acc, ev) /\ b.at = PlaceOf(acc, ev) /\ b.failed = Ended(acc)
        /\ b.group = KeyOf(m, mime)
    BY <1>1, <2>1, AddIs
  <2>3. PICK j : j = b.outs[b.at]
    OBVIOUS
  <2>4. b.at \in 1..Len(b.outs) /\ j = OutputOf(ev)
    BY <2>1, <2>2, <2>3, PlacedIs
  <2>5. /\ j.mime = mime /\ j.type = IF m.type = "update" THEN "display" ELSE m.type
        /\ m.type # "error" => j.text = ev.text
    BY <2>4 DEF OutputOf
  <2>6. j.type \in Chained <=> m.type \in Chained
    BY <2>5 DEF Chained
  <2>7. Grouped(b, m, mime)
    BY <2>2, <2>3, <2>4, <2>5, <2>6 DEF Grouped
  <2>8. ASSUME Ended(b) PROVE c
    <3>1. CASE b.failed
      BY <2>2, <3>1
    <3>2. CASE ~b.failed
      <4>1. j.type \notin Chained /\ j.mime \in Json /\ ~Loads(j)
        BY <2>3, <2>8, <3>2 DEF Ended, Chained
      <4>2. Displays(m) /\ mime \in Json /\ j.text = ev.text
        BY <1>4, <2>5, <2>6, <4>1 DEF Chained
      <4>3. ~Loads(ev)
        BY <4>1, <4>2 DEF Loads
      <4> QED
        BY <4>2, <4>3
    <3> QED
      BY <3>1, <3>2
  <2> QED
    BY <1>2, <1>3, <2>7, <2>8
<1> QED
  BY <1>5, <1>6

\* A representation that is no raw JSON loads.
LEMMA WholeLoads ==
  ASSUME NEW m \in Message, m.type \in Said, NEW n \in Nat, NEW b \in Part
  PROVE  LET ev == Whole(m, n, b) IN
         /\ ev \in EventRow /\ ev.type = m.type /\ ev.name = m.name /\ ev.id = m.id
         /\ ev.mime = b.mime /\ b.mime \in Mime
         /\ ~b.raw => Loads(ev)
<1>1. PICK ev \in EventRow : ev = Whole(m, n, b)
  BY PieceTypes
<1>2. /\ ev.type = m.type /\ ev.id = m.id /\ ev.text = Tokens(n, b) /\ ev.name = m.name
      /\ ev.mime = b.mime
  BY <1>1 DEF Whole, RowOf
<1>3. ASSUME ~b.raw PROVE Loads(ev)
  <2>1. Len(Tokens(n, b)) = b.size
    BY TokensType
  <2>2. \A i \in 1..b.size : Tokens(n, b)[i] = <<n, b.mime, i, b.raw>>
    BY DEF Tokens
  <2>3. \A i \in 1..Len(ev.text) : ev.text[i][1] = n /\ ev.text[i][4] = b.raw
    BY <1>2, <2>1, <2>2
  <2> QED
    BY <1>3, <2>3 DEF Loads
<1> QED
  BY <1>1, <1>2, <1>3, PieceTypes

\* The rows of a message after a group of q, a representation of p.
LEMMA WholesLoad ==
  ASSUME NEW m \in Messages, m.type \in Said, NEW n \in Nat, NEW acc, ReaderOK(acc),
         NEW c \in BOOLEAN, Ended(acc) => c,
         \A i \in 1..Len(m.body) :
           Displays(m) /\ m.body[i].mime \in Json /\ m.body[i].raw => c,
         NEW p, NEW q,
         acc.group = KeyOf(m, FirstMime(m)) =>
           Grouped(acc, p, q) /\ (Displays(p) /\ q \in Json => c)
  PROVE  \A k \in Nat : k + 1 <= Len(m.body) =>
           LET b == Reading(acc, Wholes(m, n, k + 1)) IN
           ReaderOK(b) /\ Grouped(b, m, m.body[k + 1].mime) /\ (Ended(b) => c)
<1> DEFINE Q(b, k) == ReaderOK(b) /\ Grouped(b, m, m.body[k].mime) /\ (Ended(b) => c)
           S == {k \in Nat : k + 1 <= Len(m.body) => Q(Reading(acc, Wholes(m, n, k + 1)), k + 1)}
<1>1. /\ m \in Message /\ Len(m.body) \in Nat
      /\ \A i \in 1..Len(m.body) : m.body[i] \in Part
      /\ m.type \in Chained => Len(m.body) = 1
      /\ \A i, j \in 1..Len(m.body) : m.body[i].mime = m.body[j].mime => i = j
  BY MessageTypes, LenProperties, ElementOfSeq DEF Chained
<1>2. \A k \in Nat : k <= Len(m.body) => Wholes(m, n, k) \in Seq(EventRow)
  BY <1>1, ReadWholes
<1>3. ASSUME NEW k \in Nat, k + 1 <= Len(m.body)
      PROVE  Reading(acc, Wholes(m, n, k + 1)) =
               Read(Reading(acc, Wholes(m, n, k)), Whole(m, n, m.body[k + 1]))
  <2>1. k + 1 \in 1..Len(m.body) /\ 1..k + 1 \subseteq 1..Len(m.body)
    BY <1>1, <1>3
  <2>2. PICK f : f = Wholes(m, n, k + 1)
    OBVIOUS
  <2>3. f \in [1..k + 1 -> EventRow]
    BY <1>1, <2>1, <2>2, PieceTypes DEF Wholes
  <2>4. f[k + 1] = Whole(m, n, m.body[k + 1]) /\ [i \in 1..k |-> f[i]] = Wholes(m, n, k)
    BY <2>2 DEF Wholes
  <2>5. PICK g : g = [i \in 1..k |-> f[i]]
    OBVIOUS
  <2>6. g \in Seq(EventRow) /\ f = Append(g, f[k + 1]) /\ f[k + 1] \in EventRow
    BY <2>3, <2>5, FunctionAppend
  <2>7. Reading(acc, Append(g, f[k + 1])) = Read(Reading(acc, g), f[k + 1])
    BY <2>6, ReadingAppend
  <2> QED
    BY Zenon, <2>2, <2>4, <2>5, <2>6, <2>7
<1>4. ASSUME NEW k \in Nat, k + 1 <= Len(m.body), NEW r, ReaderOK(r), Ended(r) => c,
             r.group = KeyOf(m, m.body[k + 1].mime) =>
               Grouped(r, p, q) /\ (Displays(p) /\ q \in Json => c)
      PROVE  Q(Read(r, Whole(m, n, m.body[k + 1])), k + 1)
  <2>1. k + 1 \in 1..Len(m.body)
    BY <1>1, <1>4
  <2>2. PICK b \in Part : b = m.body[k + 1]
    BY <1>1, <2>1
  <2>3. PICK ev \in EventRow : ev = Whole(m, n, b)
    BY <1>1, WholeLoads
  <2>4. /\ ev.type = m.type /\ ev.name = m.name /\ ev.id = m.id /\ ev.mime = b.mime
        /\ b.mime \in Mime /\ (~b.raw => Loads(ev))
    BY <1>1, <2>3, WholeLoads
  <2>5. Displays(m) /\ b.mime \in Json /\ ~Loads(ev) => c
    BY <2>1, <2>2, <2>4
  <2>6. r.group = KeyOf(m, b.mime) => Grouped(r, p, q) /\ (Displays(p) /\ q \in Json => c)
    BY <1>4, <2>2
  <2>7. /\ ReaderOK(Read(r, ev)) /\ Grouped(Read(r, ev), m, b.mime)
        /\ Ended(Read(r, ev)) => c
    BY <1>1, <1>4, <2>4, <2>5, <2>6, RowLoads
  <2> QED
    BY <2>2, <2>3, <2>7
<1>5. 0 \in S
  <2> SUFFICES ASSUME 0 + 1 <= Len(m.body) PROVE Q(Reading(acc, Wholes(m, n, 0 + 1)), 0 + 1)
    OBVIOUS
  <2>1. Wholes(m, n, 0) = <<>>
    BY DEF Wholes
  <2>2. m.body # <<>> /\ FirstMime(m) = m.body[0 + 1].mime
    BY <1>1 DEF FirstMime
  <2>3. Reading(acc, Wholes(m, n, 0)) = acc
    BY <2>1, ReadingEmpty
  <2>4. Q(Read(acc, Whole(m, n, m.body[0 + 1])), 0 + 1)
    <3> HIDE DEF Q
    <3> QED
      BY <1>4, <2>2
  <2> QED
    BY <1>3, <2>3, <2>4
<1>6. ASSUME NEW j \in Nat, j \in S PROVE j + 1 \in S
  <2> SUFFICES ASSUME (j + 1) + 1 <= Len(m.body)
               PROVE  Q(Reading(acc, Wholes(m, n, (j + 1) + 1)), (j + 1) + 1)
    OBVIOUS
  <2>1. PICK k \in Nat : k = j + 1 /\ k + 1 <= Len(m.body) /\ k \in 1..Len(m.body)
                         /\ k + 1 \in 1..Len(m.body) /\ k # k + 1 /\ Len(m.body) # 1
    BY <1>1
  <2>2. PICK r : r = Reading(acc, Wholes(m, n, k))
    OBVIOUS
  <2>3. Q(r, k)
    BY <1>6, <2>1, <2>2
  <2>4. ReaderOK(r) /\ r.group = KeyOf(m, m.body[k].mime) /\ (Ended(r) => c)
    BY <2>3 DEF Grouped
  <2>5. r.group # KeyOf(m, m.body[k + 1].mime)
    <3>1. m.type \notin Chained /\ m.body[k].mime # m.body[k + 1].mime
      BY <1>1, <2>1
    <3>2. \A x : KeyOf(m, x)[2] = x
      BY <3>1 DEF KeyOf, Chained
    <3>3. KeyOf(m, m.body[k].mime) # KeyOf(m, m.body[k + 1].mime)
      BY <3>1, <3>2
    <3> QED
      BY <2>4, <3>3
  <2>6. Q(Read(r, Whole(m, n, m.body[k + 1])), k + 1)
    <3> HIDE DEF Q
    <3> QED
      BY <1>4, <2>1, <2>4, <2>5
  <2>7. Reading(acc, Wholes(m, n, k + 1)) = Read(r, Whole(m, n, m.body[k + 1]))
    BY <1>3, <2>1, <2>2
  <2> HIDE DEF Q
  <2> QED
    BY Zenon, <2>1, <2>6, <2>7
<1> HIDE DEF S, Q
<1>7. Nat \subseteq S
  BY <1>5, <1>6, FromZero
<1> QED
  BY <1>7 DEF S, Q

LEMMA MessageLoads ==
  ASSUME NEW m \in Messages, NEW n \in Nat, NEW acc, ReaderOK(acc),
         NEW c \in BOOLEAN, Ended(acc) => c,
         \A i \in 1..Len(m.body) :
           Displays(m) /\ m.body[i].mime \in Json /\ m.body[i].raw => c,
         NEW p, NEW q,
         acc.group = KeyOf(m, FirstMime(m)) =>
           Grouped(acc, p, q) /\ (Displays(p) /\ q \in Json => c)
  PROVE  LET b == Reading(acc, PartRows(m, n)) IN
         /\ ReaderOK(b) /\ (Ended(b) => c)
         /\ IF m.type = "clear" THEN b.group = NoGroup ELSE Grouped(b, m, LastMime(m))
<1>1. /\ m \in Message /\ m.body \in Seq(Part) /\ Len(m.body) \in Nat
      /\ m.type \in Said \cup {"clear"} /\ (m.type = "clear" => m.body = <<>>)
  BY MessageTypes, LenProperties
<1>2. CASE m.body # <<>>
  <2>1. Len(m.body) # 0 /\ m.type \in Said /\ m.type # "clear"
    BY <1>1, <1>2, EmptySeq DEF Said
  <2>2. PICK k \in Nat : k + 1 = Len(m.body)
    <3>1. Len(m.body) - 1 \in Nat /\ (Len(m.body) - 1) + 1 = Len(m.body)
      BY <1>1, <2>1
    <3> QED
      BY <3>1
  <2>3. LastMime(m) = m.body[k + 1].mime /\ PartRows(m, n) = Wholes(m, n, k + 1)
    BY <1>2, <2>2 DEF LastMime, PartRows
  <2>4. k + 1 <= Len(m.body)
    BY <2>2
  <2>5. LET b == Reading(acc, Wholes(m, n, k + 1)) IN
        ReaderOK(b) /\ Grouped(b, m, m.body[k + 1].mime) /\ (Ended(b) => c)
    BY <2>1, <2>4, WholesLoad
  <2> QED
    BY <2>1, <2>3, <2>5
<1>3. CASE m.body = <<>>
  <2>1. PICK ev \in EventRow : ev = Bare(m)
    BY <1>1, BareType
  <2>2. /\ ev.type = m.type /\ ev.name = m.name /\ ev.id = m.id /\ ev.mime = "none"
        /\ ev.wait = m.wait
    BY <2>1 DEF Bare, RowOf
  <2>3. PICK b : b = Read(acc, ev) /\ b = Reading(acc, PartRows(m, n))
    BY <1>3, <2>1, ReadingOne DEF PartRows
  <2>4. FirstMime(m) = "none" /\ LastMime(m) = "none" /\ "none" \notin Json /\ "none" \in Mime
    BY <1>3, RenderingAssumption DEF FirstMime, LastMime, Mime
  <2>5. CASE m.type \in Said
    <3>1. m.type # "clear"
      BY <2>5 DEF Said
    <3>2. ReaderOK(b) /\ Grouped(b, m, "none") /\ (Ended(b) => c)
      BY <1>1, <2>2, <2>3, <2>4, <2>5, RowLoads
    <3> QED
      BY <2>3, <2>4, <3>1, <3>2
  <2>6. CASE m.type = "clear"
    <3>1. PICK f \in BOOLEAN : f = Ended(acc)
      BY EndedType
    <3>2. ReaderOK(b) /\ b.group = NoGroup /\ b.failed = f
      <4>1. CASE ev.wait
        <5>1. b = [outs |-> acc.outs, pending |-> TRUE, at |-> acc.at, group |-> NoGroup,
                   failed |-> Ended(acc)]
          <6>1. b = [acc EXCEPT !.pending = TRUE, !.group = NoGroup, !.failed = Ended(acc)]
            <7>1. ev.type = "clear"
              BY <2>2, <2>6
            <7> QED
              BY Zenon, <2>3, <4>1, <7>1, ReadCases
          <6> QED
            BY Zenon, <6>1, Waiting
        <5>2. b.group = NoGroup /\ b.failed = Ended(acc)
          BY <5>1
        <5>3. ReaderOK(b)
          BY <2>3, ReadOK
        <5> QED
          BY Zenon, <3>1, <5>2, <5>3
      <4>2. CASE ~ev.wait
        <5>1. b = [Start EXCEPT !.failed = Ended(acc)]
          <6>1. ev.type = "clear"
            BY <2>2, <2>6
          <6> QED
            BY Zenon, <2>3, <4>2, <6>1, ReadCases
        <5>2. b = [outs |-> <<>>, pending |-> FALSE, at |-> 0, group |-> NoGroup, failed |-> f]
          BY Zenon, <3>1, <5>1, Emptied
        <5>3. b.group = NoGroup /\ b.failed = f
          BY <5>2
        <5>4. ReaderOK(b)
          BY <2>3, ReadOK
        <5> QED
          BY Zenon, <5>3, <5>4
      <4> QED
        BY <4>1, <4>2
    <3>3. Ended(b) => c
      BY <3>1, <3>2 DEF Ended
    <3> QED
      BY <2>3, <2>6, <3>2, <3>3
  <2> QED
    BY <1>1, <2>5, <2>6
<1> QED
  BY <1>2, <1>3

\* The group being read is that of the last message, and what cannot be read
\* is explained by the log.
Explained(acc) ==
  /\ ReaderOK(acc) /\ (Ended(acc) => JsonClash)
  /\ acc.group # NoGroup => log # <<>> /\ Grouped(acc, log[Len(log)], LastMime(log[Len(log)]))

LoadsInv == log \in Seq(Messages) /\ Explained(Reading(Start, EventRows))

LEMMA LoadsInit == LogInit => LoadsInv
<1> SUFFICES ASSUME LogInit PROVE LoadsInv
  OBVIOUS
<1>1. log = <<>> /\ log \in Seq(Messages) /\ Len(log) = 0
  BY EmptySeq DEF LogInit
<1>2. EventRows = <<>>
  <2>1. [n \in 1..Len(log) |-> MessageRows(log[n], n)] = <<>>
    BY <1>1
  <2> QED
    BY <2>1, FlattenEmpty DEF EventRows
<1>3. Start.group = NoGroup /\ Start.failed = FALSE
  BY DEF Start
<1>4. ~Ended(Start)
  BY <1>3 DEF Ended
<1> QED
  BY <1>1, <1>2, <1>3, <1>4, StartOK, ReadingEmpty DEF LoadsInv, Explained

\* A message keeps what explained a failure, and may add to it.
LEMMA ClashStep ==
  ASSUME log \in Seq(Messages), NEW m \in Messages, log' = Append(log, m),
         NEW k \in Nat, k = Len(log)
  PROVE  /\ JsonClash => JsonClash'
         /\ \A i \in 1..Len(m.body) :
              Displays(m) /\ m.body[i].mime \in Json /\ m.body[i].raw => JsonClash'
         /\ k # 0 /\ Displays(log[k]) /\ LastMime(log[k]) \in Json
              /\ KeyOf(log[k], LastMime(log[k])) = KeyOf(m, FirstMime(m)) => JsonClash'
<1>1. /\ Len(log') = k + 1 /\ log'[k + 1] = m /\ \A n \in 1..k : log'[n] = log[n]
  BY LogGrows
<1>2. /\ k + 1 \in 1..k + 1 /\ \A n \in 1..k : n \in 1..k + 1 /\ n \in 1..(k + 1) - 1
      /\ \A n \in 1..k - 1 : n \in 1..k /\ n + 1 \in 1..k
  OBVIOUS
<1>3. JsonString' <=>
        \E n \in 1..k + 1 : Displays(log'[n]) /\ \E i \in 1..Len(log'[n].body) :
          log'[n].body[i].mime \in Json /\ log'[n].body[i].raw
  BY <1>1 DEF JsonString, Displays
<1>4. JsonClash' <=>
        \/ JsonString'
        \/ \E n \in 1..(k + 1) - 1 :
             /\ Displays(log'[n]) /\ LastMime(log'[n]) \in Json
             /\ KeyOf(log'[n], LastMime(log'[n])) = KeyOf(log'[n + 1], FirstMime(log'[n + 1]))
  BY <1>1 DEF JsonClash, Displays, KeyOf, LastMime, FirstMime
<1>5. ASSUME JsonClash PROVE JsonClash'
  <2>1. CASE JsonString
    <3>1. PICK n \in 1..k : Displays(log[n]) /\ \E i \in 1..Len(log[n].body) :
                              log[n].body[i].mime \in Json /\ log[n].body[i].raw
      BY <2>1 DEF JsonString
    <3>2. n \in 1..k + 1 /\ log'[n] = log[n]
      BY <1>1, <1>2
    <3> QED
      BY <1>3, <1>4, <3>1, <3>2
  <2>2. CASE ~JsonString
    <3>1. PICK n \in 1..k - 1 :
            /\ Displays(log[n]) /\ LastMime(log[n]) \in Json
            /\ KeyOf(log[n], LastMime(log[n])) = KeyOf(log[n + 1], FirstMime(log[n + 1]))
      BY <1>5, <2>2 DEF JsonClash
    <3>2. n \in 1..(k + 1) - 1 /\ log'[n] = log[n] /\ log'[n + 1] = log[n + 1]
      BY <1>1, <1>2
    <3> QED
      BY <1>4, <3>1, <3>2
  <2> QED
    BY <2>1, <2>2
<1>6. ASSUME NEW i \in 1..Len(m.body), Displays(m), m.body[i].mime \in Json, m.body[i].raw
      PROVE  JsonClash'
  <2>1. JsonString'
    BY <1>1, <1>2, <1>3, <1>6
  <2> QED
    BY <1>4, <2>1
<1>7. ASSUME k # 0, Displays(log[k]), LastMime(log[k]) \in Json,
             KeyOf(log[k], LastMime(log[k])) = KeyOf(m, FirstMime(m))
      PROVE  JsonClash'
  <2>1. k \in 1..k /\ k \in 1..(k + 1) - 1
    BY <1>7
  <2>2. log'[k] = log[k] /\ log'[k + 1] = m
    BY <1>1, <2>1
  <2> QED
    BY <1>4, <1>7, <2>1, <2>2
<1> QED
  BY <1>5, <1>6, <1>7

LEMMA LoadsNext == LoadsInv /\ [LogNext]_log => LoadsInv'
<1> SUFFICES ASSUME LoadsInv, [LogNext]_log PROVE LoadsInv'
  OBVIOUS
<1>1. CASE UNCHANGED log
  <2>1. EventRows' = EventRows /\ (JsonClash' <=> JsonClash)
    BY <1>1 DEF EventRows, JsonClash, JsonString
  <2>2. Reading(Start, EventRows)' = Reading(Start, EventRows')
    BY DEF Reading, Start
  <2> QED
    BY <1>1, <2>1, <2>2 DEF LoadsInv, Explained
<1>2. ASSUME NEW m \in Messages, Emit(m) PROVE LoadsInv'
  <2>1. log \in Seq(Messages) /\ log' = Append(log, m)
    BY <1>2 DEF Emit, LoadsInv
  <2>2. PICK k \in Nat : k = Len(log)
    BY <2>1, LogGrows
  <2>3. PICK acc : acc = Reading(Start, EventRows)
    OBVIOUS
  <2>4. /\ ReaderOK(acc) /\ (Ended(acc) => JsonClash)
        /\ acc.group # NoGroup => k # 0 /\ Grouped(acc, log[k], LastMime(log[k]))
    <3>1. log # <<>> => k # 0
      BY <2>1, <2>2, EmptySeq
    <3> QED
      BY <2>2, <2>3, <3>1 DEF LoadsInv, Explained
  <2>5. /\ Len(log') = k + 1 /\ log'[k + 1] = m /\ log' \in Seq(Messages) /\ log' # <<>>
    <3>1. Len(log') = k + 1 /\ log'[k + 1] = m /\ log' \in Seq(Messages)
      BY <2>1, <2>2, LogGrows
    <3> QED
      BY <3>1, EmptySeq
  <2>6. PICK b : b = Reading(acc, PartRows(m, k + 1))
    OBVIOUS
  <2>7. Reading(Start, EventRows)' = b
    <3>1. Reading(Start, EventRows') = b
      BY <2>1, <2>2, <2>3, <2>6, EventRowsGrow
    <3>2. Reading(Start, EventRows)' = Reading(Start, EventRows')
      BY DEF Reading, Start
    <3> QED
      BY <3>1, <3>2
  <2>8. PICK c \in BOOLEAN : c <=> JsonClash'
    <3>1. CASE JsonClash'
      BY <3>1
    <3>2. CASE ~JsonClash'
      BY <3>2
    <3> QED
      BY <3>1, <3>2
  <2>9. PICK p : p = log[k]
    OBVIOUS
  <2>10. /\ Ended(acc) => c
         /\ \A i \in 1..Len(m.body) :
              Displays(m) /\ m.body[i].mime \in Json /\ m.body[i].raw => c
         /\ acc.group = KeyOf(m, FirstMime(m)) =>
              Grouped(acc, p, LastMime(p)) /\ (Displays(p) /\ LastMime(p) \in Json => c)
    <3>1. Ended(acc) => c
      BY <2>1, <2>2, <2>4, <2>8, ClashStep
    <3>2. ASSUME NEW i \in 1..Len(m.body), Displays(m), m.body[i].mime \in Json, m.body[i].raw
          PROVE  c
      BY <2>1, <2>2, <2>8, <3>2, ClashStep
    <3>3. ASSUME acc.group = KeyOf(m, FirstMime(m))
          PROVE  Grouped(acc, p, LastMime(p)) /\ (Displays(p) /\ LastMime(p) \in Json => c)
      <4>1. acc.group # NoGroup
        <5>1. KeyOf(m, FirstMime(m))[1] = m.type /\ m.type # "none"
          BY KeyTypes, MessageTypes DEF Said
        <5>2. NoGroup[1] = "none"
          BY DEF NoGroup
        <5> QED
          BY <3>3, <5>1, <5>2
      <4>2. k # 0 /\ Grouped(acc, p, LastMime(p))
        BY <2>4, <2>9, <4>1
      <4>3. KeyOf(p, LastMime(p)) = KeyOf(m, FirstMime(m))
        BY <3>3, <4>2 DEF Grouped
      <4> QED
        BY <2>1, <2>2, <2>8, <2>9, <4>2, <4>3, ClashStep
    <3> QED
      BY <3>1, <3>2, <3>3
  <2>11. PICK n \in Nat : n = k + 1
    OBVIOUS
  <2>12. /\ ReaderOK(b) /\ (Ended(b) => c)
         /\ IF m.type = "clear" THEN b.group = NoGroup ELSE Grouped(b, m, LastMime(m))
    <3>1. PICK q : q = LastMime(p)
      OBVIOUS
    <3>2. LET e == Reading(acc, PartRows(m, n)) IN
          /\ ReaderOK(e) /\ (Ended(e) => c)
          /\ IF m.type = "clear" THEN e.group = NoGroup ELSE Grouped(e, m, LastMime(m))
      BY <2>4, <2>10, <3>1, MessageLoads
    <3> QED
      BY <2>6, <2>11, <3>2
  <2>13. Explained(b)'
    BY <2>5, <2>8, <2>12
       DEF Explained, ReaderOK, Shown1, Ended, Loads, Grouped, KeyOf, LastMime
  <2> QED
    BY <2>5, <2>7, <2>13 DEF LoadsInv
<1> QED
  BY <1>1, <1>2 DEF LogNext

-----------------------------------------------------------------------------
(***************************************************************************)
(* No text is lost.                                                        *)
(***************************************************************************)
LEMMA TextsOf ==
  ASSUME NEW outs \in Seq(Shown1)
  PROVE  /\ Texts(outs) \in Seq(Words) /\ Len(Texts(outs)) = Len(outs)
         /\ \A i \in 1..Len(outs) : Texts(outs)[i] = outs[i].text
<1>1. Len(outs) \in Nat /\ \A i \in 1..Len(outs) : outs[i] \in Shown1
  BY LenProperties, ElementOfSeq
<1>2. \A i \in 1..Len(outs) : outs[i].text \in Words
  BY <1>1 DEF Shown1
<1>3. Texts(outs) \in [1..Len(outs) -> Words]
  BY <1>2 DEF Texts
<1> QED
  BY <1>1, <1>3 DEF Texts

\* The text of all outputs is that of all but the last, and the last's.
LEMMA TextsSplit ==
  ASSUME NEW outs \in Seq(Shown1), NEW k \in Nat, Len(outs) = k + 1
  PROVE  LET front == [i \in 1..k |-> outs[i].text] IN
         /\ FlattenSeq(front) \in Words /\ outs[k + 1].text \in Words
         /\ FlattenSeq(Texts(outs)) = FlattenSeq(front) \o outs[k + 1].text
<1>1. PICK T : Words = Seq(T)
  BY DEF Words
<1>2. PICK f : f = Texts(outs)
  OBVIOUS
<1>3. f \in [1..k + 1 -> Seq(T)] /\ \A i \in 1..k + 1 : f[i] = outs[i].text
  <2>1. f \in Seq(Seq(T)) /\ Len(f) = k + 1
    BY <1>1, <1>2, TextsOf
  <2>2. f \in [1..k + 1 -> Seq(T)]
    BY <2>1, LenProperties
  <2> QED
    BY <1>2, <2>2, TextsOf
<1>4. PICK front : front = [i \in 1..k |-> f[i]]
  OBVIOUS
<1>5. front \in Seq(Seq(T)) /\ f = Append(front, f[k + 1]) /\ f[k + 1] \in Seq(T)
  BY <1>3, <1>4, FunctionAppend
<1>6. FlattenSeq(front) \in Seq(T) /\ FlattenSeq(f) = FlattenSeq(front) \o f[k + 1]
  BY <1>5, FlattenType, FlattenAppend
<1>7. front = [i \in 1..k |-> outs[i].text] /\ f[k + 1] = outs[k + 1].text
  BY <1>3, <1>4
<1> QED
  BY <1>1, <1>2, <1>5, <1>6, <1>7

\* The outputs so far have the text x, and the last message has type t.
Wrote(acc, t, x) ==
  /\ ReaderOK(acc) /\ ~acc.pending
  /\ \A i \in 1..Len(acc.outs) : ~acc.outs[i].art
  /\ acc.group # NoGroup => acc.at = Len(acc.outs) /\ acc.group[1] = t
  /\ FlattenSeq(Texts(acc.outs)) = x

LEMMA ReadWrites ==
  ASSUME NEW acc, NEW t, NEW x \in Words, Wrote(acc, t, x),
         NEW ev \in EventRow, ev.type \in Said, ev.type # "update", ~ev.art,
         ev.type = "error" => t # "error" /\ ev.trace = ev.text
  PROVE  Wrote(Read(acc, ev), ev.type, x \o ev.text)
<1>1. /\ ReaderOK(acc) /\ acc.outs \in Seq(Shown1) /\ Len(acc.outs) \in Nat
      /\ ReaderOK(Read(acc, ev)) /\ ev.text \in Words
  BY ReadOK, LenProperties DEF Wrote, ReaderOK, EventRow
<1>2. CASE Continues(acc, ev)
  <2>1. /\ acc.at = Len(acc.outs) /\ acc.at \in 1..Len(acc.outs) /\ acc.group[1] = t
        /\ ev.type = t
    BY <1>1, <1>2, KeyTypes DEF Wrote, Continues, ReaderOK
  <2>2. ev.type # "error"
    BY <2>1
  <2>3. PICK b : b = Read(acc, ev) /\ b = Extend(acc, ev)
    BY <1>2, ReadCases
  <2>4. /\ b.at = acc.at /\ b.group = acc.group /\ b.pending = acc.pending
        /\ Len(b.outs) = Len(acc.outs) /\ b.outs[acc.at] = Joined(acc.outs[acc.at], ev)
        /\ \A i \in 1..Len(acc.outs) : i # acc.at => b.outs[i] = acc.outs[i]
        /\ acc.outs[acc.at] \in Shown1 /\ b.outs \in Seq(Shown1)
    BY <1>1, <2>1, <2>3, ExtendIs
  <2>5. PICK k \in Nat : Len(acc.outs) = k + 1 /\ acc.at = k + 1
    <3>1. Len(acc.outs) - 1 \in Nat /\ Len(acc.outs) = (Len(acc.outs) - 1) + 1
      BY <1>1, <2>1
    <3> QED
      BY <2>1, <3>1
  <2>6. ~acc.outs[acc.at].art
    BY <2>1 DEF Wrote
  <2>7. /\ ~b.outs[acc.at].art /\ b.outs[acc.at].text = acc.outs[acc.at].text \o ev.text
    <3>1. PICK o \in Shown1 : o = acc.outs[acc.at] /\ b.outs[acc.at] = Joined(o, ev)
      BY <2>4
    <3>2. ~ev.art /\ ev.type # "error" /\ ~o.art
      BY <2>2, <2>6, <3>1
    <3>3. ~Joined(o, ev).art /\ Joined(o, ev).text = o.text \o ev.text
      BY <3>2, JoinedIs
    <3> QED
      BY <3>1, <3>3
  <2>8. PICK front : front = [i \in 1..k |-> acc.outs[i].text]
    OBVIOUS
  <2>9. front = [i \in 1..k |-> b.outs[i].text]
    <3>1. \A i \in 1..k : i \in 1..Len(acc.outs) /\ i # acc.at
      BY <2>5
    <3> QED
      BY <2>4, <2>8, <3>1
  <2>10. /\ FlattenSeq(front) \in Words /\ acc.outs[k + 1].text \in Words
         /\ FlattenSeq(Texts(acc.outs)) = FlattenSeq(front) \o acc.outs[k + 1].text
    BY <1>1, <2>5, <2>8, TextsSplit
  <2>11. FlattenSeq(Texts(b.outs)) = FlattenSeq(front) \o b.outs[k + 1].text
    BY <2>4, <2>5, <2>9, TextsSplit
  <2>12. FlattenSeq(Texts(b.outs)) = x \o ev.text
    <3>1. \A z \in Words : (FlattenSeq(front) \o acc.outs[k + 1].text) \o z =
                             FlattenSeq(front) \o (acc.outs[k + 1].text \o z)
      BY <2>10, WordsConcat
    <3>2. x = FlattenSeq(front) \o acc.outs[k + 1].text
      BY <2>10 DEF Wrote
    <3> QED
      BY <1>1, <2>5, <2>7, <2>11, <3>1, <3>2
  <2>13. \A i \in 1..Len(b.outs) : ~b.outs[i].art
    BY <2>4, <2>7 DEF Wrote
  <2> QED
    BY <1>1, <2>1, <2>3, <2>4, <2>12, <2>13 DEF Wrote
<1>3. CASE ~Continues(acc, ev)
  <2>1. PICK b : b = Read(acc, ev) /\ b = Add(acc, ev)
    BY <1>3, ReadCases
  <2>2. Base(acc) = acc.outs /\ SameId(acc, ev) = {}
    BY DEF Base, SameId, Wrote
  <2>3. /\ b.outs = Append(acc.outs, OutputOf(ev)) /\ b.at = Len(acc.outs) + 1
        /\ b.group = KeyOf(ev, ev.mime) /\ b.pending = FALSE
    <3>1. /\ b.outs = Placed(acc, ev) /\ b.at = PlaceOf(acc, ev)
          /\ b.group = KeyOf(ev, ev.mime) /\ b.pending = FALSE
      BY <2>1, AddIs
    <3> QED
      BY <2>2, <3>1 DEF Placed, PlaceOf
  <2>4. PICK o \in Shown1 : o = OutputOf(ev)
    BY OutputType
  <2>5. ~o.art /\ o.text = ev.text
    BY <2>4 DEF OutputOf
  <2>6. PICK k \in Nat : k = Len(acc.outs)
    BY <1>1
  <2>7. /\ b.outs \in Seq(Shown1) /\ Len(b.outs) = k + 1 /\ b.outs[k + 1] = o
        /\ \A i \in 1..k : b.outs[i] = acc.outs[i]
    BY <1>1, <2>3, <2>4, <2>6, AppendProperties
  <2>8. FlattenSeq(Texts(b.outs)) = x \o ev.text
    <3>1. [i \in 1..k |-> b.outs[i].text] = Texts(acc.outs)
      BY <2>6, <2>7 DEF Texts
    <3>2. FlattenSeq(Texts(b.outs)) = FlattenSeq(Texts(acc.outs)) \o b.outs[k + 1].text
      BY <2>7, <3>1, TextsSplit
    <3> QED
      BY <2>5, <2>7, <3>2 DEF Wrote
  <2>9. \A i \in 1..Len(b.outs) : ~b.outs[i].art
    BY <2>5, <2>6, <2>7 DEF Wrote
  <2>10. b.group[1] = ev.type
    BY <2>3, KeyTypes
  <2> QED
    BY <1>1, <2>1, <2>3, <2>6, <2>7, <2>8, <2>9, <2>10 DEF Wrote
<1> QED
  BY <1>2, <1>3

\* The text of a message, and of its first k representations.
TextOf(m, n, k) == FlattenSeq([i \in 1..k |-> Tokens(n, m.body[i])])

LEMMA TextOfIs ==
  ASSUME NEW m \in Message, NEW n \in Nat
  PROVE  /\ TextOf(m, n, 0) = <<>>
         /\ \A k \in Nat : k <= Len(m.body) => TextOf(m, n, k) \in Words
         /\ \A k \in Nat : k + 1 <= Len(m.body) =>
              TextOf(m, n, k + 1) = TextOf(m, n, k) \o Tokens(n, m.body[k + 1])
<1>1. Len(m.body) \in Nat /\ \A i \in 1..Len(m.body) : m.body[i] \in Part
  BY LenProperties, ElementOfSeq DEF Message
<1>2. PICK T : Words = Seq(T)
  BY DEF Words
<1>3. \A i \in 1..Len(m.body) : Tokens(n, m.body[i]) \in Seq(T)
  BY <1>1, <1>2, TokensType
<1>4. TextOf(m, n, 0) = <<>>
  <2>1. [i \in 1..0 |-> Tokens(n, m.body[i])] = <<>>
    OBVIOUS
  <2> QED
    BY <2>1, FlattenEmpty DEF TextOf
<1>5. ASSUME NEW k \in Nat, k <= Len(m.body)
      PROVE  [i \in 1..k |-> Tokens(n, m.body[i])] \in Seq(Seq(T))
  <2>1. \A i \in 1..k : i \in 1..Len(m.body)
    BY <1>1, <1>5
  <2>2. [i \in 1..k |-> Tokens(n, m.body[i])] \in [1..k -> Seq(T)]
    BY <1>3, <2>1
  <2> QED
    BY <2>2
<1>6. ASSUME NEW k \in Nat, k <= Len(m.body) PROVE TextOf(m, n, k) \in Words
  BY <1>2, <1>5, <1>6, FlattenType DEF TextOf
<1>7. ASSUME NEW k \in Nat, k + 1 <= Len(m.body)
      PROVE  TextOf(m, n, k + 1) = TextOf(m, n, k) \o Tokens(n, m.body[k + 1])
  <2>1. PICK f : f = [i \in 1..k + 1 |-> Tokens(n, m.body[i])]
    OBVIOUS
  <2>2. \A i \in 1..k + 1 : i \in 1..Len(m.body)
    BY <1>1, <1>7
  <2>3. f \in [1..k + 1 -> Seq(T)] /\ f[k + 1] = Tokens(n, m.body[k + 1])
    BY <1>3, <2>1, <2>2
  <2>4. PICK g : g = [i \in 1..k |-> f[i]]
    OBVIOUS
  <2>5. g \in Seq(Seq(T)) /\ f = Append(g, f[k + 1]) /\ f[k + 1] \in Seq(T)
    BY <2>3, <2>4, FunctionAppend
  <2>6. FlattenSeq(f) = FlattenSeq(g) \o f[k + 1]
    BY <2>5, FlattenType, FlattenAppend
  <2>7. g = [i \in 1..k |-> Tokens(n, m.body[i])]
    BY <2>1, <2>4
  <2> QED
    BY <2>1, <2>3, <2>6, <2>7 DEF TextOf
<1> QED
  BY <1>4, <1>6, <1>7

\* A message of type u, with the text of its first k representations, after
\* one of type t with the text x before it.
LEMMA WholesWrite ==
  ASSUME NEW m \in Messages, m.type \in Said, m.type # "update",
         \A i \in 1..Len(m.body) : ~AsArtifact(m, m.body[i]), NEW n \in Nat,
         NEW acc, NEW t, NEW x \in Words, Wrote(acc, t, x),
         m.type = "error" => t # "error"
  PROVE  \A k \in Nat : k <= Len(m.body) =>
           /\ Wholes(m, n, k) \in Seq(EventRow)
           /\ Wrote(Reading(acc, Wholes(m, n, k)), IF k = 0 THEN t ELSE m.type,
                    x \o TextOf(m, n, k))
<1> DEFINE S == {k \in Nat : k <= Len(m.body) =>
                   Wrote(Reading(acc, Wholes(m, n, k)), IF k = 0 THEN t ELSE m.type,
                         x \o TextOf(m, n, k))}
<1>1. /\ m \in Message /\ Len(m.body) \in Nat
      /\ \A i \in 1..Len(m.body) : m.body[i] \in Part
      /\ m.type = "error" => Len(m.body) = 1
  BY MessageTypes, LenProperties, ElementOfSeq
<1>2. \A k \in Nat : k <= Len(m.body) => Wholes(m, n, k) \in Seq(EventRow)
  BY <1>1, ReadWholes DEF Wrote
<1>3. 0 \in S
  <2>1. Wholes(m, n, 0) = <<>>
    BY DEF Wholes
  <2>2. x \o TextOf(m, n, 0) = x
    <3>1. x \o <<>> = x
      BY ConcatEmptySeq DEF Words
    <3> QED
      BY <1>1, <3>1, TextOfIs
  <2> QED
    BY <2>1, <2>2, ReadingEmpty
<1>4. ASSUME NEW k \in Nat, k \in S PROVE k + 1 \in S
  <2> SUFFICES ASSUME k + 1 <= Len(m.body)
               PROVE  Wrote(Reading(acc, Wholes(m, n, k + 1)), m.type,
                            x \o TextOf(m, n, k + 1))
    OBVIOUS
  <2>1. k <= Len(m.body) /\ k + 1 \in 1..Len(m.body) /\ 1..k + 1 \subseteq 1..Len(m.body)
    BY <1>1
  <2>2. PICK b \in Part : b = m.body[k + 1] /\ ~AsArtifact(m, b)
    BY <1>1, <2>1
  <2>3. PICK u : u = IF k = 0 THEN t ELSE m.type
    OBVIOUS
  <2>4. PICK r : r = Reading(acc, Wholes(m, n, k)) /\ Wrote(r, u, x \o TextOf(m, n, k))
    BY <1>4, <2>1, <2>3
  <2>5. m.type = "error" => u # "error"
    BY <1>1, <2>1, <2>3
  <2>6. /\ Whole(m, n, b) \in EventRow /\ Whole(m, n, b).type = m.type
        /\ Whole(m, n, b).text = Tokens(n, b)
        /\ m.type = "error" => Whole(m, n, b).trace = Tokens(n, b)
    BY <1>1, PieceTypes DEF Whole, RowOf, Trace
  <2>7. ~Whole(m, n, b).art
    BY <2>2 DEF Whole, RowOf
  <2>8. PICK ev \in EventRow : ev = Whole(m, n, b)
    BY <2>6
  <2>9. x \o TextOf(m, n, k) \in Words /\ TextOf(m, n, k) \in Words /\ Tokens(n, b) \in Words
    BY <1>1, <2>1, TextOfIs, TokensType, WordsConcat
  <2>10. Wrote(Read(r, ev), m.type, (x \o TextOf(m, n, k)) \o Tokens(n, b))
    <3>1. /\ ev.type \in Said /\ ev.type # "update" /\ ~ev.art
          /\ ev.type = "error" => u # "error" /\ ev.trace = ev.text
      BY <2>5, <2>6, <2>7, <2>8
    <3>2. Wrote(Read(r, ev), ev.type, (x \o TextOf(m, n, k)) \o ev.text)
      BY <2>4, <2>9, <3>1, ReadWrites
    <3> QED
      BY <2>6, <2>8, <3>2
  <2>11. (x \o TextOf(m, n, k)) \o Tokens(n, b) = x \o TextOf(m, n, k + 1)
    <3>1. TextOf(m, n, k + 1) = TextOf(m, n, k) \o Tokens(n, b)
      BY <1>1, <2>2, TextOfIs
    <3>2. \A z \in Words : (x \o TextOf(m, n, k)) \o z = x \o (TextOf(m, n, k) \o z)
      BY <2>9, WordsConcat
    <3> QED
      BY <2>9, <3>1, <3>2
  <2>12. Wholes(m, n, k + 1) = Append(Wholes(m, n, k), ev)
    <3>1. Wholes(m, n, k + 1) \in [1..k + 1 -> EventRow]
      <4>1. \A i \in 1..k + 1 : Whole(m, n, m.body[i]) \in EventRow
        BY <1>1, <2>1, PieceTypes
      <4> QED
        BY <4>1 DEF Wholes
    <3>2. Wholes(m, n, k + 1)[k + 1] = ev
      BY <2>2, <2>8 DEF Wholes
    <3>3. [i \in 1..k |-> Wholes(m, n, k + 1)[i]] = Wholes(m, n, k)
      BY DEF Wholes
    <3> QED
      BY <3>1, <3>2, <3>3, FunctionAppend
  <2>13. Reading(acc, Append(Wholes(m, n, k), ev)) = Read(r, ev)
    BY <1>2, <2>1, <2>4, ReadingAppend
  <2> QED
    BY <2>10, <2>11, <2>12, <2>13
<1> HIDE DEF S
<1>5. Nat \subseteq S
  BY <1>3, <1>4, FromZero
<1> QED
  BY <1>2, <1>5 DEF S

\* A message that is not a clear or an update adds its text.
LEMMA MessageWrites ==
  ASSUME NEW m \in Messages, m.type \notin {"clear", "update"},
         \A i \in 1..Len(m.body) : ~AsArtifact(m, m.body[i]), NEW n \in Nat,
         NEW acc, NEW t, NEW x \in Words, Wrote(acc, t, x),
         m.type = "error" => t # "error"
  PROVE  /\ Wrote(Reading(acc, PartRows(m, n)), m.type, x \o TextOf(m, n, Len(m.body)))
         /\ x \o TextOf(m, n, Len(m.body)) \in Words
<1>1. /\ m \in Message /\ m.body \in Seq(Part) /\ Len(m.body) \in Nat
      /\ m.type \in Said /\ Len(m.body) <= Len(m.body)
      /\ m.type = "error" => Len(m.body) = 1
  BY MessageTypes, LenProperties
<1>2. TextOf(m, n, Len(m.body)) \in Words /\ x \o TextOf(m, n, Len(m.body)) \in Words
  BY <1>1, TextOfIs, WordsConcat
<1>3. CASE m.body = <<>>
  <2>1. Len(m.body) = 0 /\ m.type # "error"
    BY <1>1, <1>3, EmptySeq
  <2>2. /\ Bare(m) \in EventRow /\ Bare(m).type = m.type /\ ~Bare(m).art
        /\ Bare(m).text = <<>>
    BY <1>1, BareType DEF Bare, RowOf
  <2>3. Wrote(Read(acc, Bare(m)), m.type, x \o <<>>)
    BY <1>1, <2>1, <2>2, ReadWrites
  <2>4. Reading(acc, PartRows(m, n)) = Read(acc, Bare(m))
    BY <1>3, <2>2, ReadingOne DEF PartRows
  <2> QED
    BY <1>1, <1>2, <2>1, <2>3, <2>4, TextOfIs
<1>4. CASE m.body # <<>>
  <2>1. Len(m.body) # 0
    BY <1>1, <1>4, EmptySeq
  <2>2. Wrote(Reading(acc, Wholes(m, n, Len(m.body))), m.type, x \o TextOf(m, n, Len(m.body)))
    BY <1>1, <2>1, WholesWrite
  <2> QED
    BY <1>2, <1>4, <2>2 DEF PartRows
<1> QED
  BY <1>3, <1>4

(***************************************************************************)
(* What a calm log says: no clears, updates, artifacts or errors in a row. *)
(***************************************************************************)
Calm ==
  /\ \A n \in 1..Len(log) - 1 : ~(log[n].type = "error" /\ log[n + 1].type = "error")
  /\ \A n \in 1..Len(log) :
       /\ log[n].type \notin {"clear", "update"}
       /\ \A i \in 1..Len(log[n].body) : ~AsArtifact(log[n], log[n].body[i])

SaidText ==
  FlattenSeq([n \in 1..Len(log) |-> FlattenSeq([i \in 1..Len(log[n].body) |-> BodyText(n, i)])])

LastType == IF log = <<>> THEN "none" ELSE log[Len(log)].type

\* All that a calm log says is in the outputs, in order.
NothingLostInv ==
  /\ log \in Seq(Messages)
  /\ SaidText \in Words
  /\ Calm => Wrote(Reading(Start, EventRows), LastType, SaidText)

LEMMA BodyTextIs ==
  ASSUME log \in Seq(Messages), NEW n \in 1..Len(log)
  PROVE  FlattenSeq([i \in 1..Len(log[n].body) |-> BodyText(n, i)]) =
           TextOf(log[n], n, Len(log[n].body))
<1>1. log[n] \in Messages /\ log[n].body \in Seq(Part)
  BY ElementOfSeq, MessageTypes
<1>2. \A i \in 1..Len(log[n].body) : log[n].body # <<>>
  BY <1>1, EmptySeq
<1>3. [i \in 1..Len(log[n].body) |-> BodyText(n, i)] =
        [i \in 1..Len(log[n].body) |-> Tokens(n, log[n].body[i])]
  BY <1>2 DEF BodyText
<1> QED
  BY <1>3 DEF TextOf

LEMMA SaidTextIs ==
  log \in Seq(Messages) =>
    SaidText = FlattenSeq([n \in 1..Len(log) |-> TextOf(log[n], n, Len(log[n].body))])
<1> SUFFICES ASSUME log \in Seq(Messages)
             PROVE  SaidText = FlattenSeq([n \in 1..Len(log) |->
                                             TextOf(log[n], n, Len(log[n].body))])
  OBVIOUS
<1>1. \A n \in 1..Len(log) : FlattenSeq([i \in 1..Len(log[n].body) |-> BodyText(n, i)]) =
                               TextOf(log[n], n, Len(log[n].body))
  BY BodyTextIs
<1> QED
  BY <1>1 DEF SaidText

LEMMA SaidTextGrows ==
  ASSUME log \in Seq(Messages), NEW m \in Messages, log' = Append(log, m), SaidText \in Words
  PROVE  SaidText' = SaidText \o TextOf(m, Len(log) + 1, Len(m.body))
<1>1. PICK k \in Nat : k = Len(log)
  BY LogGrows
<1>2. /\ Len(log') = k + 1 /\ log'[k + 1] = m /\ log' \in Seq(Messages)
      /\ \A n \in 1..k : log'[n] = log[n] /\ log[n] \in Messages
  BY <1>1, LogGrows
<1>3. PICK T : Words = Seq(T)
  BY DEF Words
<1>4. PICK f : f = [n \in 1..k + 1 |-> TextOf(log'[n], n, Len(log'[n].body))]
  OBVIOUS
<1>5. f \in [1..k + 1 -> Seq(T)]
  <2> SUFFICES ASSUME NEW n \in 1..k + 1
               PROVE  TextOf(log'[n], n, Len(log'[n].body)) \in Seq(T)
    BY <1>4
  <2>1. PICK r \in Messages : r = log'[n]
    BY <1>2
  <2>2. r \in Message /\ Len(r.body) \in Nat /\ Len(r.body) <= Len(r.body) /\ n \in Nat
    BY MessageTypes, LenProperties
  <2> QED
    BY <1>3, <2>1, <2>2, TextOfIs
<1>6. PICK g : g = [n \in 1..k |-> f[n]]
  OBVIOUS
<1>7. g \in Seq(Seq(T)) /\ f = Append(g, f[k + 1]) /\ f[k + 1] \in Seq(T)
  BY <1>5, <1>6, FunctionAppend
<1>8. FlattenSeq(f) = FlattenSeq(g) \o f[k + 1]
  BY <1>7, FlattenType, FlattenAppend
<1>9. g = [n \in 1..k |-> TextOf(log[n], n, Len(log[n].body))]
  BY <1>2, <1>4, <1>6
<1>10. f[k + 1] = TextOf(m, k + 1, Len(m.body))
  BY <1>2, <1>4
<1>11. SaidText = FlattenSeq(g)
  BY <1>1, <1>9, SaidTextIs
<1>12. SaidText' = FlattenSeq(f)
  <2>1. (log \in Seq(Messages) =>
           SaidText = FlattenSeq([n \in 1..Len(log) |-> TextOf(log[n], n, Len(log[n].body))]))'
    BY SaidTextIs, PTL
  <2> QED
    BY <1>2, <1>4, <2>1
<1> QED
  BY <1>1, <1>8, <1>10, <1>11, <1>12

LEMMA NothingLostInit == LogInit => NothingLostInv
<1> SUFFICES ASSUME LogInit PROVE NothingLostInv
  OBVIOUS
<1>1. log = <<>> /\ log \in Seq(Messages) /\ Len(log) = 0
  BY EmptySeq DEF LogInit
<1>2. SaidText = <<>> /\ EventRows = <<>>
  <2>1. /\ [n \in 1..Len(log) |-> TextOf(log[n], n, Len(log[n].body))] = <<>>
        /\ [n \in 1..Len(log) |-> MessageRows(log[n], n)] = <<>>
    BY <1>1
  <2> QED
    BY <1>1, <2>1, SaidTextIs, FlattenEmpty DEF EventRows
<1>3. <<>> \in Words
  BY EmptySeq DEF Words
<1>4. Wrote(Start, "none", <<>>)
  <2>1. Start.outs = <<>> /\ Start.group = NoGroup /\ ~Start.pending
    BY DEF Start
  <2>2. Texts(<<>>) = <<>> /\ Len(<<>>) = 0
    BY DEF Texts
  <2> QED
    BY <2>1, <2>2, StartOK, FlattenEmpty DEF Wrote
<1> QED
  BY <1>1, <1>2, <1>3, <1>4, ReadingEmpty DEF NothingLostInv, LastType

LEMMA NothingLostNext == NothingLostInv /\ [LogNext]_log => NothingLostInv'
<1> SUFFICES ASSUME NothingLostInv, [LogNext]_log PROVE NothingLostInv'
  OBVIOUS
<1>1. CASE UNCHANGED log
  <2>1. /\ EventRows' = EventRows /\ SaidText' = SaidText /\ (Calm' <=> Calm)
        /\ LastType' = LastType
    BY <1>1 DEF EventRows, SaidText, Calm, LastType, BodyText
  <2> QED
    BY <1>1, <2>1 DEF NothingLostInv
<1>2. ASSUME NEW m \in Messages, Emit(m) PROVE NothingLostInv'
  <2>1. log \in Seq(Messages) /\ log' = Append(log, m) /\ SaidText \in Words
    BY <1>2 DEF Emit, NothingLostInv
  <2>2. PICK k \in Nat : k = Len(log)
    BY <2>1, LogGrows
  <2>3. /\ Len(log') = k + 1 /\ log'[k + 1] = m /\ \A n \in 1..k : log'[n] = log[n]
        /\ log' \in Seq(Messages)
    BY <2>1, <2>2, LogGrows
  <2>4. /\ SaidText' = SaidText \o TextOf(m, k + 1, Len(m.body))
        /\ Reading(Start, EventRows') = Reading(Reading(Start, EventRows), PartRows(m, k + 1))
    BY <2>1, <2>2, SaidTextGrows, EventRowsGrow
  <2>5. SaidText' \in Words
    <3>1. m \in Message /\ Len(m.body) \in Nat /\ Len(m.body) <= Len(m.body) /\ k + 1 \in Nat
      BY MessageTypes, LenProperties
    <3> QED
      BY <2>1, <2>4, <3>1, TextOfIs, WordsConcat
  <2>6. LastType' = m.type
    <3>1. log' # <<>>
      BY <2>3, EmptySeq
    <3> QED
      BY <2>3, <3>1 DEF LastType
  <2>7. ASSUME Calm' PROVE Wrote(Reading(Start, EventRows'), LastType', SaidText')
    <3>1. /\ \A n \in 1..(k + 1) - 1 : ~(log'[n].type = "error" /\ log'[n + 1].type = "error")
          /\ \A n \in 1..k + 1 :
               /\ log'[n].type \notin {"clear", "update"}
               /\ \A i \in 1..Len(log'[n].body) : ~AsArtifact(log'[n], log'[n].body[i])
      BY <2>3, <2>7 DEF Calm
    <3>2. Calm
      <4>1. \A n \in 1..k - 1 : n \in 1..k /\ n + 1 \in 1..k /\ n \in 1..(k + 1) - 1
        OBVIOUS
      <4>2. \A n \in 1..k : n \in 1..k + 1
        OBVIOUS
      <4> QED
        BY <2>2, <2>3, <3>1, <4>1, <4>2 DEF Calm
    <3>3. Wrote(Reading(Start, EventRows), LastType, SaidText)
      BY <3>2 DEF NothingLostInv
    <3>4. /\ m.type \notin {"clear", "update"}
          /\ \A i \in 1..Len(m.body) : ~AsArtifact(m, m.body[i])
      <4>1. k + 1 \in 1..k + 1
        OBVIOUS
      <4> QED
        BY <2>3, <3>1, <4>1
    <3>5. m.type = "error" => LastType # "error"
      <4>1. CASE k = 0
        BY <2>1, <2>2, <4>1, EmptySeq DEF LastType
      <4>2. CASE k # 0
        <5>1. k \in 1..(k + 1) - 1 /\ k \in 1..k
          BY <4>2
        <5> QED
          BY <2>1, <2>2, <2>3, <3>1, <4>2, <5>1, EmptySeq DEF LastType
      <4> QED
        BY <4>1, <4>2
    <3>6. PICK acc : acc = Reading(Start, EventRows)
      OBVIOUS
    <3>7. PICK x \in Words : x = SaidText
      BY <2>1
    <3>8. PICK n \in Nat : n = k + 1
      OBVIOUS
    <3>9. Wrote(acc, LastType, x)
      BY Zenon, <3>3, <3>6, <3>7
    <3>10. Wrote(Reading(acc, PartRows(m, n)), m.type, x \o TextOf(m, n, Len(m.body)))
      BY ONLY <3>4, <3>5, <3>9, MessageWrites, m \in Messages, n \in Nat, x \in Words
    <3> QED
      BY Zenon, <2>4, <2>6, <3>6, <3>7, <3>8, <3>10
  <2>8. Reading(Start, EventRows)' = Reading(Start, EventRows')
    BY DEF Reading, Start
  <2> QED
    BY <2>3, <2>5, <2>7 DEF NothingLostInv
<1> QED
  BY <1>1, <1>2 DEF LogNext

\* NothingLost: even where rows do not tell messages apart, the outputs that
\* _notebook_outputs rebuilds hold every chunk that append_output_event stored,
\* once and in order, unless something cleared, replaced or withheld it; and
\* json.loads makes it raise only for JSON beside JSON, or for a string.
THEOREM TextKept == LogSpec => []NothingLost
<1>1. NothingLostInv /\ LoadsInv => NothingLost
  <2> SUFFICES ASSUME NothingLostInv, LoadsInv PROVE NothingLost
    OBVIOUS
  <2>1. Calm => FlattenSeq(Texts(NotebookOutputs)) = SaidText
    BY WholeTextShowsNothing DEF NothingLostInv, Wrote
  <2>2. Raises => JsonClash
    BY WholeTextShowsNothing DEF LoadsInv, Explained
  <2> QED
    BY <2>1, <2>2 DEF NothingLost, Calm, SaidText
<1> QED
  BY <1>1, NothingLostInit, NothingLostNext, LoadsInit, LoadsNext, PTL DEF LogSpec

-----------------------------------------------------------------------------
(***************************************************************************)
(* Sequences of sequences.                                                 *)
(***************************************************************************)
\* The first k elements of f, one after the other.
Upto(f, k) == FlattenSeq([i \in 1..k |-> f[i]])

LEMMA UptoIs ==
  ASSUME NEW T, NEW n \in Nat, NEW f \in [1..n -> Seq(T)]
  PROVE  /\ Upto(f, 0) = <<>> /\ Upto(f, n) = FlattenSeq(f)
         /\ \A k \in Nat : k <= n => Upto(f, k) \in Seq(T)
         /\ \A k \in Nat : k + 1 <= n => Upto(f, k + 1) = Upto(f, k) \o f[k + 1]
<1>1. Upto(f, 0) = <<>>
  <2>1. [i \in 1..0 |-> f[i]] = <<>>
    OBVIOUS
  <2> QED
    BY <2>1, FlattenEmpty DEF Upto
<1>2. Upto(f, n) = FlattenSeq(f)
  BY DEF Upto
<1>3. ASSUME NEW k \in Nat, k <= n PROVE [i \in 1..k |-> f[i]] \in Seq(Seq(T))
  <2>1. \A i \in 1..k : i \in 1..n
    BY <1>3
  <2>2. [i \in 1..k |-> f[i]] \in [1..k -> Seq(T)]
    BY <2>1
  <2> QED
    BY <2>2
<1>4. ASSUME NEW k \in Nat, k <= n PROVE Upto(f, k) \in Seq(T)
  BY <1>3, <1>4, FlattenType DEF Upto
<1>5. ASSUME NEW k \in Nat, k + 1 <= n PROVE Upto(f, k + 1) = Upto(f, k) \o f[k + 1]
  <2>1. PICK g : g = [i \in 1..k + 1 |-> f[i]]
    OBVIOUS
  <2>2. \A i \in 1..k + 1 : i \in 1..n
    BY <1>5
  <2>3. g \in [1..k + 1 -> Seq(T)] /\ g[k + 1] = f[k + 1]
    BY <2>1, <2>2
  <2>4. PICK h : h = [i \in 1..k |-> g[i]]
    OBVIOUS
  <2>5. h \in Seq(Seq(T)) /\ g = Append(h, g[k + 1]) /\ g[k + 1] \in Seq(T)
    BY <2>3, <2>4, FunctionAppend
  <2>6. FlattenSeq(g) = FlattenSeq(h) \o g[k + 1]
    BY <2>5, FlattenType, FlattenAppend
  <2>7. h = [i \in 1..k |-> f[i]]
    BY <2>1, <2>4
  <2> QED
    BY <2>1, <2>3, <2>6, <2>7 DEF Upto
<1> QED
  BY <1>1, <1>2, <1>4, <1>5

LEMMA UptoSame ==
  ASSUME NEW f, NEW g, NEW k \in Nat, \A i \in 1..k : f[i] = g[i]
  PROVE  Upto(f, k) = Upto(g, k)
<1>1. [i \in 1..k |-> f[i]] = [i \in 1..k |-> g[i]]
  OBVIOUS
<1> QED
  BY <1>1 DEF Upto

\* What only has empty elements after the first j of them.
LEMMA UptoNone ==
  ASSUME NEW T, NEW n \in Nat, NEW f \in [1..n -> Seq(T)], NEW j \in 0..n,
         \A i \in j + 1..n : f[i] = <<>>
  PROVE  Upto(f, n) = Upto(f, j)
<1> DEFINE S == {k \in Nat : j <= k /\ k <= n => Upto(f, k) = Upto(f, j)}
<1>1. 0 \in S
  OBVIOUS
<1>2. ASSUME NEW k \in Nat, k \in S PROVE k + 1 \in S
  <2> SUFFICES ASSUME j <= k + 1, k + 1 <= n PROVE Upto(f, k + 1) = Upto(f, j)
    OBVIOUS
  <2>1. CASE j = k + 1
    BY <2>1
  <2>2. CASE j # k + 1
    <3>1. j <= k /\ k <= n /\ k + 1 \in j + 1..n
      BY <2>2
    <3>2. Upto(f, k) = Upto(f, j) /\ f[k + 1] = <<>>
      BY <1>2, <3>1
    <3>3. Upto(f, k + 1) = Upto(f, k) \o f[k + 1] /\ Upto(f, k) \in Seq(T)
      BY <3>1, UptoIs
    <3> QED
      BY <3>2, <3>3, ConcatEmptySeq
  <2> QED
    BY <2>1, <2>2
<1> HIDE DEF S
<1>3. Nat \subseteq S
  BY <1>1, <1>2, FromZero
<1>4. n \in S /\ j <= n
  BY <1>3
<1> QED
  BY <1>4 DEF S

\* x is an element of one of those from a to b.
Among(f, a, b, x) == \E i \in a..b : \E h \in 1..Len(f[i]) : x = f[i][h]

\* Where an element comes from.
LEMMA UptoMember ==
  ASSUME NEW T, NEW n \in Nat, NEW f \in [1..n -> Seq(T)]
  PROVE  \A k \in Nat : k <= n =>
           \A j \in 1..Len(Upto(f, k)) : Among(f, 1, k, Upto(f, k)[j])
<1> DEFINE Q(k) == \A j \in 1..Len(Upto(f, k)) : \E i \in 1..k : \E h \in 1..Len(f[i]) :
                     Upto(f, k)[j] = f[i][h]
           S == {k \in Nat : k <= n => Q(k)}
<1>1. 0 \in S
  <2>1. Upto(f, 0) = <<>>
    BY UptoIs
  <2> QED
    BY <2>1
<1>2. ASSUME NEW k \in Nat, k \in S PROVE k + 1 \in S
  <2> SUFFICES ASSUME k + 1 <= n, NEW j \in 1..Len(Upto(f, k + 1))
               PROVE  \E i \in 1..k + 1 : \E h \in 1..Len(f[i]) :
                        Upto(f, k + 1)[j] = f[i][h]
    OBVIOUS
  <2>1. k <= n /\ k + 1 \in 1..n
    OBVIOUS
  <2>2. Q(k)
    BY <1>2, <2>1
  <2>3. PICK a \in Seq(T) : a = Upto(f, k)
    BY <2>1, UptoIs
  <2>4. PICK b \in Seq(T) : b = f[k + 1]
    BY <2>1
  <2>5. Upto(f, k + 1) = a \o b
    BY <2>3, <2>4, UptoIs
  <2>6. /\ Len(a) \in Nat /\ Len(b) \in Nat /\ Len(a \o b) = Len(a) + Len(b)
        /\ \A i \in 1..Len(a) + Len(b) :
             (a \o b)[i] = IF i <= Len(a) THEN a[i] ELSE b[i - Len(a)]
    BY LenProperties, ConcatProperties
  <2>7. CASE j <= Len(a)
    <3>1. j \in 1..Len(a) /\ (a \o b)[j] = a[j]
      BY <2>5, <2>6, <2>7
    <3>2. PICK i \in 1..k : \E h \in 1..Len(f[i]) : a[j] = f[i][h]
      BY <2>2, <2>3, <3>1
    <3>3. i \in 1..k + 1
      OBVIOUS
    <3> QED
      BY <2>5, <3>1, <3>2, <3>3
  <2>8. CASE ~(j <= Len(a))
    <3>1. j - Len(a) \in 1..Len(b) /\ (a \o b)[j] = b[j - Len(a)]
      BY <2>5, <2>6, <2>8
    <3>2. k + 1 \in 1..k + 1
      OBVIOUS
    <3> QED
      BY <2>4, <2>5, <3>1, <3>2
  <2> QED
    BY <2>7, <2>8
<1> HIDE DEF S
<1>3. Nat \subseteq S
  BY <1>1, <1>2, FromZero
<1> QED
  BY <1>3 DEF S, Among

LEMMA FlattenMember ==
  ASSUME NEW T, NEW n \in Nat, NEW f \in [1..n -> Seq(T)], NEW j \in 1..Len(Upto(f, n))
  PROVE  Among(f, 1, n, Upto(f, n)[j])
<1>1. \A k \in Nat : k <= n => \A i \in 1..Len(Upto(f, k)) : Among(f, 1, k, Upto(f, k)[i])
  BY UptoMember
<1>2. n <= n
  OBVIOUS
<1> QED
  BY <1>1, <1>2

LEMMA ConcatReplaced ==
  ASSUME NEW T, NEW a \in Seq(T), NEW b \in Seq(T), NEW p \in 1..Len(a), NEW y \in T
  PROVE  /\ p \in 1..Len(a \o b) /\ (a \o b)[p] = a[p]
         /\ [a EXCEPT ![p] = y] \o b = [a \o b EXCEPT ![p] = y]
<1>1. PICK c : c = [a EXCEPT ![p] = y]
  OBVIOUS
<1>2. /\ c \in Seq(T) /\ Len(c) = Len(a) /\ Len(a) \in Nat /\ Len(b) \in Nat
      /\ \A j \in 1..Len(a) : c[j] = IF j = p THEN y ELSE a[j]
  BY <1>1, ExceptSeq, LenProperties
<1>3. PICK u \in Seq(T) : u = a \o b
  BY ConcatProperties
<1>4. PICK v \in Seq(T) : v = c \o b
  BY <1>2, ConcatProperties
<1>5. /\ Len(u) = Len(a) + Len(b)
      /\ \A i \in 1..Len(a) + Len(b) : u[i] = IF i <= Len(a) THEN a[i] ELSE b[i - Len(a)]
  BY <1>3, ConcatProperties
<1>6. /\ Len(v) = Len(a) + Len(b)
      /\ \A i \in 1..Len(a) + Len(b) : v[i] = IF i <= Len(a) THEN c[i] ELSE b[i - Len(a)]
  <2>1. /\ Len(c \o b) = Len(c) + Len(b)
        /\ \A i \in 1..Len(c) + Len(b) :
             (c \o b)[i] = IF i <= Len(c) THEN c[i] ELSE b[i - Len(c)]
    <3>1. c \in Seq(T)
      BY <1>2
    <3> QED
      BY <3>1, ConcatProperties
  <2> QED
    BY <1>2, <1>4, <2>1
<1>7. p \in 1..Len(u) /\ u[p] = a[p]
  BY <1>2, <1>5
<1>8. PICK w : w = [u EXCEPT ![p] = y]
  OBVIOUS
<1>9. /\ w \in Seq(T) /\ Len(w) = Len(u)
      /\ \A i \in 1..Len(u) : w[i] = IF i = p THEN y ELSE u[i]
  BY <1>7, <1>8, ExceptSeq
<1>10. \A i \in 1..Len(v) : v[i] = w[i]
  <2> SUFFICES ASSUME NEW i \in 1..Len(v) PROVE v[i] = w[i]
    OBVIOUS
  <2>1. CASE i <= Len(a)
    <3>1. v[i] = c[i] /\ u[i] = a[i] /\ i \in 1..Len(a)
      BY <1>2, <1>5, <1>6, <2>1
    <3> QED
      BY <1>2, <1>5, <1>6, <1>9, <3>1
  <2>2. CASE ~(i <= Len(a))
    <3>1. i # p /\ i \in 1..Len(a) + Len(b)
      BY <1>6, <2>2
    <3>2. v[i] = b[i - Len(a)] /\ u[i] = b[i - Len(a)]
      BY <1>5, <1>6, <2>2, <3>1
    <3> QED
      BY <1>5, <1>6, <1>9, <3>1, <3>2
  <2> QED
    BY <2>1, <2>2
<1>11. v = w
  BY <1>4, <1>5, <1>6, <1>9, <1>10, SeqEqual
<1> QED
  BY <1>1, <1>3, <1>4, <1>7, <1>8, <1>11

\* One element of one: where it is, what comes after it, and what another in
\* its place makes.
Replaced(f, g, n, t, x, y, p) ==
  /\ p \in 1..Len(Upto(f, n)) /\ p = Len(Upto(f, t)) /\ Upto(f, n)[p] = x
  /\ Upto(g, n) = [Upto(f, n) EXCEPT ![p] = y]
  /\ \A j \in p + 1..Len(Upto(f, n)) : Among(f, t + 1, n, Upto(f, n)[j])

LEMMA UptoReplaced ==
  ASSUME NEW T, NEW n \in Nat, NEW f \in [1..n -> Seq(T)], NEW g \in [1..n -> Seq(T)],
         NEW t \in 1..n, NEW x \in T, NEW y \in T, f[t] = <<x>>, g[t] = <<y>>,
         \A i \in 1..n : i # t => g[i] = f[i]
  PROVE  \E p : Replaced(f, g, n, t, x, y, p)
<1> DEFINE p == Len(Upto(f, t))
           Q(k) == /\ p \in 1..Len(Upto(f, k)) /\ Upto(f, k)[p] = x
                   /\ Upto(g, k) = [Upto(f, k) EXCEPT ![p] = y]
                   /\ \A j \in p + 1..Len(Upto(f, k)) :
                        \E i \in t + 1..k : \E h \in 1..Len(f[i]) : Upto(f, k)[j] = f[i][h]
           S == {k \in Nat : t <= k /\ k <= n => Q(k)}
<1>1. Q(t) /\ p \in Nat
  <2>1. t - 1 \in Nat /\ (t - 1) + 1 = t /\ t - 1 <= n /\ t <= n
    OBVIOUS
  <2>2. PICK a \in Seq(T) : a = Upto(f, t - 1)
    BY <2>1, UptoIs
  <2>3. Upto(g, t - 1) = a
    <3>1. \A i \in 1..t - 1 : f[i] = g[i]
      OBVIOUS
    <3> QED
      BY <2>1, <2>2, <3>1, UptoSame
  <2>4. Upto(f, t) = Append(a, x)
    <3>1. Upto(f, (t - 1) + 1) = Upto(f, t - 1) \o f[(t - 1) + 1]
      BY <2>1, UptoIs
    <3> QED
      BY <2>1, <2>2, <3>1, AppendIsConcat
  <2>5. Upto(g, t) = Append(a, y)
    <3>1. Upto(g, (t - 1) + 1) = Upto(g, t - 1) \o g[(t - 1) + 1]
      BY <2>1, UptoIs
    <3> QED
      BY <2>1, <2>3, <3>1, AppendIsConcat
  <2>6. /\ Len(a) \in Nat /\ Append(a, x) \in Seq(T) /\ Append(a, y) \in Seq(T)
        /\ Len(Append(a, x)) = Len(a) + 1 /\ Len(Append(a, y)) = Len(a) + 1
        /\ Append(a, x)[Len(a) + 1] = x /\ Append(a, y)[Len(a) + 1] = y
        /\ \A i \in 1..Len(a) : Append(a, x)[i] = a[i] /\ Append(a, y)[i] = a[i]
    BY LenProperties, AppendProperties
  <2>7. p = Len(a) + 1 /\ p \in 1..Len(Upto(f, t)) /\ Upto(f, t)[p] = x
    BY <2>4, <2>6
  <2>8. Append(a, y) = [Append(a, x) EXCEPT ![Len(a) + 1] = y]
    <3>1. PICK u \in Seq(T) : u = Append(a, x)
      BY <2>6
    <3>2. Len(a) + 1 \in 1..Len(u)
      BY <2>6, <3>1
    <3>3. /\ [u EXCEPT ![Len(a) + 1] = y] \in Seq(T)
          /\ Len([u EXCEPT ![Len(a) + 1] = y]) = Len(u)
          /\ \A i \in 1..Len(u) :
               [u EXCEPT ![Len(a) + 1] = y][i] = IF i = Len(a) + 1 THEN y ELSE u[i]
      BY <3>2, ExceptSeq
    <3>4. \A i \in 1..Len(u) : Append(a, y)[i] = [u EXCEPT ![Len(a) + 1] = y][i]
      BY <2>6, <3>1, <3>3
    <3>5. Append(a, y) = [u EXCEPT ![Len(a) + 1] = y]
      BY <2>6, <3>1, <3>3, <3>4, SeqEqual
    <3> QED
      BY <3>1, <3>5
  <2>9. Upto(g, t) = [Upto(f, t) EXCEPT ![p] = y]
    <3> HIDE DEF p
    <3> QED
      BY <2>4, <2>5, <2>7, <2>8
  <2>10. \A j \in p + 1..Len(Upto(f, t)) :
           \E i \in t + 1..t : \E h \in 1..Len(f[i]) : Upto(f, t)[j] = f[i][h]
    BY <2>6, <2>7
  <2> QED
    BY <2>6, <2>7, <2>9, <2>10
<1> HIDE DEF p, Q
<1>2. ASSUME NEW k \in Nat, t <= k, k + 1 <= n, Q(k) PROVE Q(k + 1)
  <2>1. k <= n /\ k + 1 \in 1..n /\ k + 1 # t
    BY <1>2
  <2>2. PICK a \in Seq(T) : a = Upto(f, k)
    BY <2>1, UptoIs
  <2>3. PICK b \in Seq(T) : b = f[k + 1] /\ b = g[k + 1]
    BY <2>1
  <2>4. PICK c \in Seq(T) : c = Upto(g, k)
    BY <2>1, UptoIs
  <2>5. Upto(f, k + 1) = a \o b /\ Upto(g, k + 1) = c \o b
    <3>1. Upto(f, k + 1) = Upto(f, k) \o f[k + 1]
      BY <2>1, <1>2, UptoIs
    <3>2. Upto(g, k + 1) = Upto(g, k) \o g[k + 1]
      BY <2>1, <1>2, UptoIs
    <3> QED
      BY <2>2, <2>3, <2>4, <3>1, <3>2
  <2>6. p \in 1..Len(a) /\ a[p] = x /\ c = [a EXCEPT ![p] = y]
    BY <1>2, <2>2, <2>4 DEF Q
  <2>7. /\ Len(a) \in Nat /\ Len(b) \in Nat /\ Len(a \o b) = Len(a) + Len(b)
        /\ \A i \in 1..Len(a) + Len(b) :
             (a \o b)[i] = IF i <= Len(a) THEN a[i] ELSE b[i - Len(a)]
    BY LenProperties, ConcatProperties
  <2>8. p \in 1..Len(a \o b) /\ (a \o b)[p] = x
    BY <2>6, ConcatReplaced
  <2>9. c \o b = [a \o b EXCEPT ![p] = y]
    BY <2>6, ConcatReplaced
  <2>10. ASSUME NEW j \in p + 1..Len(a \o b)
         PROVE  \E i \in t + 1..k + 1 : \E h \in 1..Len(f[i]) : (a \o b)[j] = f[i][h]
    <3>1. CASE j <= Len(a)
      <4>1. j \in p + 1..Len(a) /\ (a \o b)[j] = a[j]
        BY <2>6, <2>7, <3>1
      <4>2. PICK i \in t + 1..k : \E h \in 1..Len(f[i]) : a[j] = f[i][h]
        BY <1>2, <2>2, <4>1 DEF Q
      <4>3. i \in t + 1..k + 1
        OBVIOUS
      <4> QED
        BY <4>1, <4>2, <4>3
    <3>2. CASE ~(j <= Len(a))
      <4>1. j - Len(a) \in 1..Len(b) /\ (a \o b)[j] = b[j - Len(a)]
        BY <2>6, <2>7, <3>2
      <4>2. k + 1 \in t + 1..k + 1
        BY <1>2
      <4> QED
        BY <2>3, <4>1, <4>2
    <3> QED
      BY <3>1, <3>2
  <2> QED
    <3>1. c = Upto(g, k) /\ Upto(g, k + 1) = [Upto(f, k + 1) EXCEPT ![p] = y]
      BY Zenon, <2>4, <2>5, <2>9
    <3>2. p \in 1..Len(Upto(f, k + 1)) /\ Upto(f, k + 1)[p] = x
      BY Zenon, <2>5, <2>8
    <3>3. \A j \in p + 1..Len(Upto(f, k + 1)) :
            \E i \in t + 1..k + 1 : \E h \in 1..Len(f[i]) : Upto(f, k + 1)[j] = f[i][h]
      BY Zenon, <2>5, <2>10
    <3> QED
      BY Zenon, <3>1, <3>2, <3>3 DEF Q
<1>3. 0 \in S
  OBVIOUS
<1>4. ASSUME NEW k \in Nat, k \in S PROVE k + 1 \in S
  <2> SUFFICES ASSUME t <= k + 1, k + 1 <= n PROVE Q(k + 1)
    OBVIOUS
  <2>1. CASE t = k + 1
    BY <1>1, <2>1
  <2>2. CASE t # k + 1
    <3>1. t <= k /\ k <= n
      BY <2>2
    <3>2. Q(k)
      BY <1>4, <3>1
    <3> QED
      BY <1>2, <3>1, <3>2
  <2> QED
    BY <2>1, <2>2
<1> HIDE DEF S
<1>5. Nat \subseteq S
  BY <1>3, <1>4, FromZero
<1>6. n \in S /\ t <= n
  BY <1>5
<1>7. Q(n)
  BY <1>6 DEF S
<1>8. p = Len(Upto(f, t))
  BY DEF p
<1>9. \A j \in p + 1..Len(Upto(f, n)) : Among(f, t + 1, n, Upto(f, n)[j])
  BY <1>7 DEF Q, Among
<1>10. Replaced(f, g, n, t, x, y, p)
  BY <1>7, <1>8, <1>9 DEF Q, Replaced
<1> QED
  BY <1>10

-----------------------------------------------------------------------------
(***************************************************************************)
(* What a message shows: items, the texts of outputs with their ids.       *)
(***************************************************************************)
Item == [text : Words, id : Nat]
ItemOf(o) == [text |-> o.text, id |-> o.id]
Items(outs) == [i \in 1..Len(outs) |-> ItemOf(outs[i])]

LEMMA ItemsType ==
  ASSUME NEW outs \in Seq(Shown1)
  PROVE  /\ Items(outs) \in Seq(Item) /\ Len(Items(outs)) = Len(outs) /\ Len(outs) \in Nat
         /\ \A i \in 1..Len(outs) : Items(outs)[i] = ItemOf(outs[i]) /\ ItemOf(outs[i]) \in Item
<1>1. Len(outs) \in Nat /\ \A i \in 1..Len(outs) : outs[i] \in Shown1
  BY LenProperties, ElementOfSeq
<1>2. \A i \in 1..Len(outs) : ItemOf(outs[i]) \in Item
  BY <1>1 DEF Shown1, Item, ItemOf
<1>3. Items(outs) \in [1..Len(outs) -> Item]
  BY <1>2 DEF Items
<1> QED
  BY <1>1, <1>2, <1>3 DEF Items

LEMMA ItemsAppend ==
  ASSUME NEW outs \in Seq(Shown1), NEW o \in Shown1
  PROVE  Items(Append(outs, o)) = Append(Items(outs), ItemOf(o))
<1>1. PICK u \in Seq(Shown1) : u = Append(outs, o)
  BY AppendProperties
<1>2. /\ Len(outs) \in Nat /\ Len(u) = Len(outs) + 1 /\ u[Len(outs) + 1] = o
      /\ \A i \in 1..Len(outs) : u[i] = outs[i]
  BY <1>1, AppendProperties, LenProperties
<1>3. /\ Items(u) \in Seq(Item) /\ Len(Items(u)) = Len(outs) + 1
      /\ \A i \in 1..Len(outs) + 1 : Items(u)[i] = ItemOf(u[i])
      /\ ItemOf(u[Len(outs) + 1]) \in Item
  BY <1>2, ItemsType
<1>4. Items(outs) \in Seq(Item) /\ Len(Items(outs)) = Len(outs)
      /\ \A i \in 1..Len(outs) : Items(outs)[i] = ItemOf(outs[i])
  BY ItemsType
<1>5. PICK v \in Seq(Item) : v = Append(Items(outs), ItemOf(o))
  BY <1>2, <1>3, <1>4, AppendProperties
<1>6. /\ Len(v) = Len(outs) + 1 /\ v[Len(outs) + 1] = ItemOf(o)
      /\ \A i \in 1..Len(outs) : v[i] = Items(outs)[i]
  <2>1. ItemOf(o) \in Item
    BY <1>2, <1>3
  <2> QED
    BY <1>4, <1>5, <2>1, AppendProperties
<1>7. \A i \in 1..Len(outs) + 1 : Items(u)[i] = v[i]
  <2> SUFFICES ASSUME NEW i \in 1..Len(outs) + 1 PROVE Items(u)[i] = v[i]
    OBVIOUS
  <2>1. CASE i = Len(outs) + 1
    BY <1>2, <1>3, <1>6, <2>1
  <2>2. CASE i # Len(outs) + 1
    <3>1. i \in 1..Len(outs)
      BY <1>2, <2>2
    <3> QED
      BY <1>2, <1>3, <1>4, <1>6, <3>1
  <2> QED
    BY <2>1, <2>2
<1>8. Items(u) = v
  BY <1>3, <1>6, <1>7, SeqEqual
<1> QED
  BY <1>1, <1>5, <1>8

LEMMA ItemsReplaced ==
  ASSUME NEW a \in Seq(Shown1), NEW b \in Seq(Shown1), Len(a) = Len(b), NEW p \in 1..Len(a),
         \A i \in 1..Len(a) : i # p => b[i] = a[i]
  PROVE  Items(b) = [Items(a) EXCEPT ![p] = ItemOf(b[p])]
<1>1. /\ Items(a) \in Seq(Item) /\ Len(Items(a)) = Len(a) /\ Len(a) \in Nat
      /\ \A i \in 1..Len(a) : Items(a)[i] = ItemOf(a[i])
  BY ItemsType
<1>2. /\ Items(b) \in Seq(Item) /\ Len(Items(b)) = Len(a)
      /\ \A i \in 1..Len(a) : Items(b)[i] = ItemOf(b[i])
      /\ ItemOf(b[p]) \in Item
  BY ItemsType
<1>3. PICK u \in Seq(Item) : u = Items(a)
  BY <1>1
<1>4. p \in 1..Len(u)
  BY <1>1, <1>3
<1>5. PICK w : w = [u EXCEPT ![p] = ItemOf(b[p])]
  OBVIOUS
<1>6. /\ w \in Seq(Item) /\ Len(w) = Len(u)
      /\ \A i \in 1..Len(u) : w[i] = IF i = p THEN ItemOf(b[p]) ELSE u[i]
  BY <1>2, <1>4, <1>5, ExceptSeq
<1>7. \A i \in 1..Len(a) : Items(b)[i] = w[i]
  <2> SUFFICES ASSUME NEW i \in 1..Len(a) PROVE Items(b)[i] = w[i]
    OBVIOUS
  <2>1. CASE i = p
    BY <1>1, <1>2, <1>3, <1>6, <2>1
  <2>2. CASE i # p
    BY <1>1, <1>2, <1>3, <1>6, <2>2
  <2> QED
    BY <2>1, <2>2
<1>8. Items(b) = w
  BY <1>1, <1>2, <1>3, <1>6, <1>7, SeqEqual
<1> QED
  BY <1>3, <1>5, <1>8

\* A row of another group that does not update an output adds one.
LEMMA RowAppends ==
  ASSUME NEW acc, ReaderOK(acc), NEW ev \in EventRow, ev.type \in Said,
         ~Continues(acc, ev), SameId(acc, ev) = {}
  PROVE  LET b == Read(acc, ev) IN
         /\ ReaderOK(b) /\ ~b.pending /\ b.group = KeyOf(ev, ev.mime)
         /\ Items(b.outs) = Append(Items(Base(acc)), ItemOf(OutputOf(ev)))
         /\ b.at = Len(b.outs) /\ b.outs[b.at] = OutputOf(ev)
<1>1. PICK b : b = Read(acc, ev) /\ b = Add(acc, ev)
  BY ReadCases
<1>2. Base(acc) \in Seq(Shown1) /\ OutputOf(ev) \in Shown1 /\ ReaderOK(b)
  BY <1>1, BaseType, OutputType, ReadOK
<1>3. /\ b.outs = Append(Base(acc), OutputOf(ev)) /\ b.at = Len(Base(acc)) + 1
      /\ b.group = KeyOf(ev, ev.mime) /\ b.pending = FALSE
  BY <1>1, AddIs DEF Placed, PlaceOf
<1>4. Items(b.outs) = Append(Items(Base(acc)), ItemOf(OutputOf(ev)))
  BY <1>2, <1>3, ItemsAppend
<1>5. Len(b.outs) = Len(Base(acc)) + 1 /\ b.outs[b.at] = OutputOf(ev)
  BY <1>2, <1>3, AppendProperties
<1> QED
  BY <1>1, <1>2, <1>3, <1>4, <1>5

Shows1(m, n, i) == [text |-> Tokens(n, m.body[i]), id |-> m.id]

\* What a message shows when it does not join or update: its representations.
Showing(m, n) ==
  IF m.body = <<>> THEN <<[text |-> <<>>, id |-> m.id]>>
  ELSE [i \in 1..Len(m.body) |-> Shows1(m, n, i)]

\* The rows of m begin a group, and update nothing of acc.
BeginsIn(acc, m) ==
  /\ acc.group # KeyOf(m, FirstMime(m))
  /\ m.id # 0 => Len(m.body) = 1
  /\ m.type = "update" /\ m.id # 0 =>
       \A i \in 1..Len(Base(acc)) : Base(acc)[i].id # m.id

LEMMA WholeIs ==
  ASSUME NEW m \in Message, NEW n \in Nat, NEW b \in Part
  PROVE  LET ev == Whole(m, n, b) IN
         /\ ev \in EventRow /\ ev.type = m.type /\ ev.id = m.id /\ ev.text = Tokens(n, b)
         /\ m.type = "error" => ev.trace = Tokens(n, b)
         /\ ev.art <=> AsArtifact(m, b)
         /\ KeyOf(ev, ev.mime) = KeyOf(m, b.mime)
         /\ ItemOf(OutputOf(ev)) = [text |-> Tokens(n, b), id |-> m.id]
         /\ OutputOf(ev).art = ev.art
<1>1. PICK ev \in EventRow : ev = Whole(m, n, b)
  BY PieceTypes
<1>2. /\ ev.type = m.type /\ ev.id = m.id /\ ev.text = Tokens(n, b) /\ ev.name = m.name
      /\ ev.mime = b.mime /\ ev.trace = Trace(m, n, b)
      /\ ev.art <=> AsArtifact(m, b)
  BY <1>1 DEF Whole, RowOf
<1>3. KeyOf(ev, ev.mime) = KeyOf(m, b.mime)
  BY <1>2 DEF KeyOf
<1>4. m.type = "error" => ev.trace = Tokens(n, b)
  BY <1>2 DEF Trace
<1>5. OutputOf(ev).text = Tokens(n, b) /\ OutputOf(ev).id = m.id /\ OutputOf(ev).art = ev.art
  BY <1>2, <1>4 DEF OutputOf
<1> QED
  BY <1>1, <1>2, <1>3, <1>4, <1>5 DEF ItemOf

\* b is acc with the items shown added, the last of them of that MIME type.
Added(b, acc, m, mime, shown) ==
  /\ ReaderOK(b) /\ ~b.pending /\ b.group = KeyOf(m, mime)
  /\ Items(b.outs) = Items(Base(acc)) \o shown
  /\ m.type = "stream" => b.at = Len(b.outs) /\ ~b.outs[b.at].art

LEMMA WholesShow ==
  ASSUME NEW m \in Messages, m.type \in Said, NEW n \in Nat, NEW acc, ReaderOK(acc),
         BeginsIn(acc, m)
  PROVE  \A k \in Nat : k + 1 <= Len(m.body) =>
           Added(Reading(acc, Wholes(m, n, k + 1)), acc, m, m.body[k + 1].mime,
                 [i \in 1..k + 1 |-> Shows1(m, n, i)])
<1> DEFINE Q(k) == Added(Reading(acc, Wholes(m, n, k + 1)), acc, m, m.body[k + 1].mime,
                         [i \in 1..k + 1 |-> Shows1(m, n, i)])
           S == {k \in Nat : k + 1 <= Len(m.body) => Q(k)}
<1>1. /\ m \in Message /\ Len(m.body) \in Nat
      /\ \A i \in 1..Len(m.body) : m.body[i] \in Part
      /\ m.type \in {"stream", "error"} => Len(m.body) = 1
      /\ \A i, j \in 1..Len(m.body) : m.body[i].mime = m.body[j].mime => i = j
  BY MessageTypes, LenProperties, ElementOfSeq
<1>2. \A i \in 1..Len(m.body) : Shows1(m, n, i) \in Item
  <2> SUFFICES ASSUME NEW i \in 1..Len(m.body) PROVE Shows1(m, n, i) \in Item
    OBVIOUS
  <2>1. Tokens(n, m.body[i]) \in Words /\ m.id \in Nat
    BY <1>1, TokensType DEF Message
  <2> QED
    BY <2>1 DEF Shows1, Item
<1>3. Items(Base(acc)) \in Seq(Item) /\ Base(acc) \in Seq(Shown1)
  BY BaseType, ItemsType
<1>4. \A k \in Nat : k <= Len(m.body) => [i \in 1..k |-> Shows1(m, n, i)] \in Seq(Item)
  <2> SUFFICES ASSUME NEW k \in Nat, k <= Len(m.body)
               PROVE  [i \in 1..k |-> Shows1(m, n, i)] \in Seq(Item)
    OBVIOUS
  <2>1. \A i \in 1..k : i \in 1..Len(m.body)
    BY <1>1
  <2>2. [i \in 1..k |-> Shows1(m, n, i)] \in [1..k -> Item]
    BY <1>2, <2>1
  <2> QED
    BY <2>2
<1>5. 0 \in S
  <2> SUFFICES ASSUME 1 <= Len(m.body) PROVE Q(0)
    OBVIOUS
  <2>1. 1 \in 1..Len(m.body) /\ m.body # <<>>
    BY <1>1
  <2>2. PICK p \in Part : p = m.body[1]
    BY <1>1, <2>1
  <2>3. PICK ev \in EventRow : ev = Whole(m, n, p)
    BY <1>1, WholeIs
  <2>4. /\ ev.type = m.type /\ ev.id = m.id /\ KeyOf(ev, ev.mime) = KeyOf(m, p.mime)
        /\ ev.art <=> AsArtifact(m, p)
        /\ ItemOf(OutputOf(ev)) = Shows1(m, n, 1) /\ OutputOf(ev).art = ev.art
    BY <1>1, <2>2, <2>3, WholeIs DEF Shows1
  <2>5. FirstMime(m) = p.mime
    BY <2>1, <2>2 DEF FirstMime
  <2>6. ~Continues(acc, ev) /\ SameId(acc, ev) = {}
    BY <2>4, <2>5 DEF BeginsIn, Continues, SameId
  <2>7. Wholes(m, n, 0 + 1) = <<ev>>
    BY <2>2, <2>3 DEF Wholes
  <2>8. Reading(acc, Wholes(m, n, 0 + 1)) = Read(acc, ev)
    BY <2>7, ReadingOne
  <2>9. PICK b : b = Read(acc, ev)
    OBVIOUS
  <2>10. /\ ReaderOK(b) /\ ~b.pending /\ b.group = KeyOf(ev, ev.mime)
         /\ Items(b.outs) = Append(Items(Base(acc)), ItemOf(OutputOf(ev)))
         /\ b.at = Len(b.outs) /\ b.outs[b.at] = OutputOf(ev)
    BY <2>4, <2>6, <2>9, RowAppends
  <2>11. Items(b.outs) = Items(Base(acc)) \o [i \in 1..0 + 1 |-> Shows1(m, n, i)]
    <3>1. [i \in 1..0 + 1 |-> Shows1(m, n, i)] = <<Shows1(m, n, 1)>>
      OBVIOUS
    <3>2. Append(Items(Base(acc)), Shows1(m, n, 1)) = Items(Base(acc)) \o <<Shows1(m, n, 1)>>
      BY <1>2, <1>3, <2>1, AppendIsConcat
    <3> QED
      BY <2>4, <2>10, <3>1, <3>2
  <2>12. m.type = "stream" => ~b.outs[b.at].art
    BY <2>4, <2>10 DEF AsArtifact, Displays
  <2> QED
    BY <2>2, <2>4, <2>8, <2>9, <2>10, <2>11, <2>12 DEF Added
<1>6. ASSUME NEW j \in Nat, j \in S PROVE j + 1 \in S
  <2> SUFFICES ASSUME (j + 1) + 1 <= Len(m.body) PROVE Q(j + 1)
    OBVIOUS
  <2>1. PICK k \in Nat : /\ k = j + 1 /\ k <= Len(m.body) /\ k \in 1..Len(m.body)
                         /\ k + 1 \in 1..Len(m.body) /\ k # k + 1
    BY <1>1
  <2>2. PICK r : r = Reading(acc, Wholes(m, n, k))
    OBVIOUS
  <2>3. /\ ReaderOK(r) /\ ~r.pending /\ r.group = KeyOf(m, m.body[k].mime)
        /\ Items(r.outs) = Items(Base(acc)) \o [i \in 1..k |-> Shows1(m, n, i)]
    BY <1>6, <2>1, <2>2 DEF Added
  <2>4. m.type \notin {"stream", "error"} /\ m.id = 0
    BY <1>1, <2>1 DEF BeginsIn, Message
  <2>5. PICK p \in Part : p = m.body[k + 1]
    BY <1>1, <2>1
  <2>6. PICK ev \in EventRow : ev = Whole(m, n, p)
    BY <1>1, WholeIs
  <2>7. /\ ev.type = m.type /\ ev.id = m.id /\ KeyOf(ev, ev.mime) = KeyOf(m, p.mime)
        /\ ItemOf(OutputOf(ev)) = Shows1(m, n, k + 1)
    BY <1>1, <2>5, <2>6, WholeIs DEF Shows1
  <2>8. KeyOf(m, p.mime) # KeyOf(m, m.body[k].mime)
    <3>1. p.mime # m.body[k].mime
      BY <1>1, <2>1, <2>5
    <3>2. \A x : KeyOf(m, x)[2] = x
      BY <2>4 DEF KeyOf
    <3> QED
      BY <3>1, <3>2
  <2>9. ~Continues(r, ev) /\ SameId(r, ev) = {} /\ Base(r) = r.outs
    BY <2>3, <2>4, <2>7, <2>8 DEF Continues, SameId, Base
  <2>10. PICK b : b = Read(r, ev)
    OBVIOUS
  <2>11. /\ ReaderOK(b) /\ ~b.pending /\ b.group = KeyOf(ev, ev.mime)
         /\ Items(b.outs) = Append(Items(r.outs), ItemOf(OutputOf(ev)))
    BY <2>3, <2>7, <2>9, <2>10, RowAppends
  <2>12. Wholes(m, n, k + 1) = Append(Wholes(m, n, k), ev) /\ Wholes(m, n, k) \in Seq(EventRow)
    <3>1. Wholes(m, n, k + 1) \in [1..k + 1 -> EventRow]
      <4>1. \A i \in 1..k + 1 : i \in 1..Len(m.body)
        BY <1>1, <2>1
      <4>2. \A i \in 1..k + 1 : Whole(m, n, m.body[i]) \in EventRow
        BY <1>1, <4>1, PieceTypes
      <4> QED
        BY <4>2 DEF Wholes
    <3>2. Wholes(m, n, k + 1)[k + 1] = ev
      BY <2>5, <2>6 DEF Wholes
    <3>3. [i \in 1..k |-> Wholes(m, n, k + 1)[i]] = Wholes(m, n, k)
      BY DEF Wholes
    <3> QED
      <4>1. PICK f \in [1..k + 1 -> EventRow] : f = Wholes(m, n, k + 1)
        BY <3>1
      <4>2. /\ [i \in 1..k |-> f[i]] \in Seq(EventRow)
            /\ f = Append([i \in 1..k |-> f[i]], f[k + 1])
        BY FunctionAppend
      <4>3. [i \in 1..k |-> f[i]] = Wholes(m, n, k) /\ f[k + 1] = ev
        BY Zenon, <3>2, <3>3, <4>1
      <4> QED
        BY Zenon, <4>1, <4>2, <4>3
  <2>13. Reading(acc, Wholes(m, n, k + 1)) = b
    BY <2>2, <2>10, <2>12, ReadingAppend
  <2>14. Items(b.outs) = Items(Base(acc)) \o [i \in 1..k + 1 |-> Shows1(m, n, i)]
    <3>1. PICK g \in Seq(Item) : g = [i \in 1..k |-> Shows1(m, n, i)]
      BY <1>4, <2>1
    <3>2. PICK h : h = [i \in 1..k + 1 |-> Shows1(m, n, i)]
      OBVIOUS
    <3>3. \A i \in 1..k + 1 : i \in 1..Len(m.body)
      BY <1>1, <2>1
    <3>4. h \in [1..k + 1 -> Item] /\ h[k + 1] = Shows1(m, n, k + 1)
      BY <1>2, <3>2, <3>3
    <3>5. [i \in 1..k |-> h[i]] = g
      BY <3>1, <3>2
    <3>6. h = Append(g, Shows1(m, n, k + 1)) /\ Shows1(m, n, k + 1) \in Item
      BY <3>4, <3>5, FunctionAppend
    <3>7. Items(Base(acc)) \o Append(g, Shows1(m, n, k + 1)) =
            Append(Items(Base(acc)) \o g, Shows1(m, n, k + 1))
      BY <1>3, <3>6, ConcatAppend
    <3> QED
      BY <2>3, <2>7, <2>11, <3>1, <3>2, <3>6, <3>7
  <2> QED
    BY <2>1, <2>4, <2>5, <2>7, <2>11, <2>13, <2>14 DEF Added
<1> HIDE DEF S, Q
<1>7. Nat \subseteq S
  BY <1>5, <1>6, FromZero
<1> QED
  BY <1>7 DEF S, Q

LEMMA MessageShows ==
  ASSUME NEW m \in Messages, m.type \in Said, NEW n \in Nat, NEW acc, ReaderOK(acc),
         BeginsIn(acc, m)
  PROVE  Added(Reading(acc, PartRows(m, n)), acc, m, LastMime(m), Showing(m, n))
<1>1. /\ m \in Message /\ m.body \in Seq(Part) /\ Len(m.body) \in Nat
      /\ m.type \in {"stream", "error"} => Len(m.body) = 1
  BY MessageTypes, LenProperties
<1>2. CASE m.body = <<>>
  <2>1. m.type \notin {"stream", "error"} /\ m.id = 0
    BY <1>1, <1>2, EmptySeq DEF BeginsIn, Message
  <2>2. PICK ev \in EventRow : ev = Bare(m)
    BY <1>1, BareType
  <2>3. /\ ev.type = m.type /\ ev.id = m.id /\ ev.mime = "none" /\ ev.text = <<>>
        /\ ev.name = m.name
    BY <2>2 DEF Bare, RowOf
  <2>4. KeyOf(ev, ev.mime) = KeyOf(m, "none") /\ FirstMime(m) = "none" /\ LastMime(m) = "none"
    BY <1>2, <2>3 DEF KeyOf, FirstMime, LastMime
  <2>5. ItemOf(OutputOf(ev)) = [text |-> <<>>, id |-> m.id]
    BY <2>1, <2>3 DEF ItemOf, OutputOf
  <2>6. ~Continues(acc, ev) /\ SameId(acc, ev) = {}
    BY <2>1, <2>3, <2>4 DEF BeginsIn, Continues, SameId
  <2>7. PICK b : b = Read(acc, ev)
    OBVIOUS
  <2>8. /\ ReaderOK(b) /\ ~b.pending /\ b.group = KeyOf(ev, ev.mime)
        /\ Items(b.outs) = Append(Items(Base(acc)), ItemOf(OutputOf(ev)))
    BY <2>3, <2>6, <2>7, RowAppends
  <2>9. Reading(acc, PartRows(m, n)) = b
    BY <1>2, <2>2, <2>7, ReadingOne DEF PartRows
  <2>10. Items(b.outs) = Items(Base(acc)) \o Showing(m, n)
    <3>1. [text |-> <<>>, id |-> m.id] \in Item
      <4>1. <<>> \in Words
        BY EmptySeq DEF Words
      <4> QED
        BY <1>1, <4>1 DEF Item, Message
    <3>2. Items(Base(acc)) \in Seq(Item)
      BY BaseType, ItemsType
    <3> QED
      BY <1>2, <2>5, <2>8, <3>1, <3>2, AppendIsConcat DEF Showing
  <2> QED
    BY <2>1, <2>4, <2>8, <2>9, <2>10 DEF Added
<1>3. CASE m.body # <<>>
  <2>1. Len(m.body) # 0
    BY <1>1, <1>3, EmptySeq
  <2>2. PICK k \in Nat : k + 1 = Len(m.body)
    <3>1. Len(m.body) - 1 \in Nat /\ (Len(m.body) - 1) + 1 = Len(m.body)
      BY <1>1, <2>1
    <3> QED
      BY <3>1
  <2>3. /\ LastMime(m) = m.body[k + 1].mime /\ PartRows(m, n) = Wholes(m, n, k + 1)
        /\ Showing(m, n) = [i \in 1..k + 1 |-> Shows1(m, n, i)]
    BY <1>3, <2>2 DEF LastMime, PartRows, Showing
  <2>4. k + 1 <= Len(m.body)
    BY <2>2
  <2>5. Added(Reading(acc, Wholes(m, n, k + 1)), acc, m, m.body[k + 1].mime,
              [i \in 1..k + 1 |-> Shows1(m, n, i)])
    BY <2>4, WholesShow
  <2> QED
    BY <2>3, <2>5
<1> QED
  BY <1>2, <1>3

\* b is acc with the text of message m added to the last output.
JoinedTo(b, acc, m, n) ==
  /\ ReaderOK(b) /\ b.pending = acc.pending /\ b.group = acc.group
  /\ b.at = Len(b.outs) /\ ~b.outs[b.at].art
  /\ Items(b.outs) = [Items(acc.outs) EXCEPT ![Len(acc.outs)] =
                        [text |-> acc.outs[Len(acc.outs)].text \o Tokens(n, m.body[1]),
                         id |-> acc.outs[Len(acc.outs)].id]]

\* b is acc with message m shown at p.
UpdatedAt(b, acc, m, n, p) ==
  /\ ReaderOK(b) /\ ~b.pending /\ b.group = KeyOf(m, LastMime(m))
  /\ Items(b.outs) = [Items(acc.outs) EXCEPT ![p] =
                        [text |-> Tokens(n, m.body[1]), id |-> m.id]]

\* More of a stream is added to its output.
LEMMA MessageJoins ==
  ASSUME NEW m \in Messages, m.type = "stream", NEW n \in Nat, NEW acc, ReaderOK(acc),
         acc.group = KeyOf(m, FirstMime(m)), acc.at = Len(acc.outs), ~acc.outs[acc.at].art
  PROVE  JoinedTo(Reading(acc, PartRows(m, n)), acc, m, n)
<1>1. m \in Message /\ m.body \in Seq(Part) /\ Len(m.body) = 1 /\ m.type \in Said
  BY MessageTypes DEF Said
<1>2. PICK p \in Part : p = m.body[1]
  BY <1>1, ElementOfSeq
<1>3. PICK ev \in EventRow : ev = Whole(m, n, p)
  BY <1>1, WholeIs
<1>4. /\ ev.type = "stream" /\ KeyOf(ev, ev.mime) = KeyOf(m, p.mime) /\ ev.text = Tokens(n, p)
      /\ ~ev.art
  <2>1. ~AsArtifact(m, p)
    BY DEF AsArtifact, Displays
  <2>2. /\ ev.type = m.type /\ KeyOf(ev, ev.mime) = KeyOf(m, p.mime) /\ ev.text = Tokens(n, p)
        /\ ev.art <=> AsArtifact(m, p)
    BY <1>1, <1>3, WholeIs
  <2> QED
    BY <2>1, <2>2
<1>5. FirstMime(m) = p.mime
  BY <1>1, <1>2, EmptySeq DEF FirstMime
<1>6. Continues(acc, ev) /\ acc.at \in 1..Len(acc.outs)
  <2>1. Continues(acc, ev)
    BY <1>4, <1>5 DEF Continues
  <2>2. acc.group # NoGroup
    BY <1>1, KeyTypes
  <2> QED
    BY <2>1, <2>2 DEF ReaderOK
<1>7. PartRows(m, n) = <<ev>>
  <2>1. m.body # <<>>
    <3>1. PICK s : s = m.body
      OBVIOUS
    <3>2. s \in Seq(Part) /\ Len(s) = 1
      BY Zenon, <1>1, <3>1
    <3>3. s = <<>> <=> Len(s) = 0
      BY <3>2, EmptySeq
    <3>4. Len(s) # 0
      BY <3>2
    <3> QED
      BY Zenon, <3>1, <3>3, <3>4
  <2> QED
    BY <1>1, <1>2, <1>3, <2>1 DEF PartRows, Wholes
<1>8. PICK b : b = Read(acc, ev) /\ b = Extend(acc, ev) /\ b = Reading(acc, PartRows(m, n))
  <2>1. ev.type \in Said
    BY <1>4 DEF Said
  <2>2. Read(acc, ev) = Extend(acc, ev)
    BY <1>6, <2>1, ReadCases
  <2>3. Reading(acc, <<ev>>) = Read(acc, ev)
    BY ReadingOne
  <2> QED
    BY Zenon, <1>7, <2>2, <2>3
<1>9. PICK o \in Shown1 : o = acc.outs[acc.at] /\ o = acc.outs[Len(acc.outs)] /\ ~o.art
  BY <1>6, ExtendIs
<1>10. /\ acc.outs \in Seq(Shown1) /\ b.outs \in Seq(Shown1) /\ Len(b.outs) = Len(acc.outs)
       /\ b.outs[acc.at] = Joined(o, ev) /\ b.pending = acc.pending /\ b.at = acc.at
       /\ b.group = acc.group
       /\ \A i \in 1..Len(acc.outs) : i # acc.at => b.outs[i] = acc.outs[i]
  <2>1. PICK e : e = Extend(acc, ev)
    OBVIOUS
  <2>2. /\ acc.outs \in Seq(Shown1) /\ e.outs \in Seq(Shown1) /\ Len(e.outs) = Len(acc.outs)
        /\ e.outs[acc.at] = Joined(acc.outs[acc.at], ev)
        /\ \A i \in 1..Len(acc.outs) : i # acc.at => e.outs[i] = acc.outs[i]
    BY <1>6, <2>1, ExtendIs
  <2>3. e.pending = acc.pending /\ e.at = acc.at /\ e.group = acc.group
    BY <1>6, <2>1, ExtendIs
  <2>4. b = e
    BY <1>8, <2>1
  <2> QED
    BY <1>9, <2>2, <2>3, <2>4
<1>11. ~Joined(o, ev).art /\ Joined(o, ev).text = o.text \o ev.text /\ Joined(o, ev).id = o.id
  <2>1. ev.type # "error"
    BY <1>4
  <2> QED
    BY <1>4, <1>9, <2>1, JoinedIs
<1>12. Items(b.outs) = [Items(acc.outs) EXCEPT ![acc.at] = ItemOf(b.outs[acc.at])]
  <2>1. PICK q : q = acc.at
    OBVIOUS
  <2>2. q \in 1..Len(acc.outs) /\ \A i \in 1..Len(acc.outs) : i # q => b.outs[i] = acc.outs[i]
    BY <1>6, <1>10, <2>1
  <2>3. acc.outs \in Seq(Shown1) /\ b.outs \in Seq(Shown1) /\ Len(acc.outs) = Len(b.outs)
    BY <1>10
  <2>4. Items(b.outs) = [Items(acc.outs) EXCEPT ![q] = ItemOf(b.outs[q])]
    BY <2>2, <2>3, ItemsReplaced
  <2> QED
    BY <2>1, <2>4
<1>13. ItemOf(b.outs[acc.at]) = [text |-> o.text \o Tokens(n, m.body[1]), id |-> o.id]
  BY <1>2, <1>4, <1>10, <1>11 DEF ItemOf
<1>14. ReaderOK(b)
  BY <1>8, ReadOK
<1>15. JoinedTo(b, acc, m, n)
  <2>1. b.at = Len(b.outs) /\ ~b.outs[b.at].art
    BY <1>10, <1>11
  <2>2. PICK q : q = acc.at /\ q = Len(acc.outs)
    OBVIOUS
  <2>3. Items(b.outs) = [Items(acc.outs) EXCEPT ![q] =
                           [text |-> o.text \o Tokens(n, m.body[1]), id |-> o.id]]
    BY Zenon, <1>12, <1>13, <2>2
  <2>4. o = acc.outs[q]
    BY <1>9, <2>2
  <2>5. Items(b.outs) = [Items(acc.outs) EXCEPT ![q] =
                           [text |-> acc.outs[q].text \o Tokens(n, m.body[1]),
                            id |-> acc.outs[q].id]]
    BY Zenon, <2>3, <2>4
  <2> QED
    BY Zenon, <1>10, <1>14, <2>1, <2>2, <2>5 DEF JoinedTo
<1> QED
  BY <1>8, <1>15

\* An update takes the place of the last output of its display id.
LEMMA MessageUpdates ==
  ASSUME NEW m \in Messages, m.type = "update", m.id # 0, Len(m.body) = 1, NEW n \in Nat,
         NEW acc, ReaderOK(acc), ~acc.pending, acc.group # KeyOf(m, FirstMime(m)),
         NEW p \in 1..Len(acc.outs), acc.outs[p].id = m.id,
         \A j \in p + 1..Len(acc.outs) : acc.outs[j].id # m.id
  PROVE  UpdatedAt(Reading(acc, PartRows(m, n)), acc, m, n, p)
<1>1. m \in Message /\ m.body \in Seq(Part) /\ m.type \in Said /\ m.body # <<>>
  BY MessageTypes, EmptySeq DEF Said
<1>2. PICK part \in Part : part = m.body[1]
  BY <1>1, ElementOfSeq
<1>3. PICK ev \in EventRow : ev = Whole(m, n, part)
  BY <1>1, WholeIs
<1>4. /\ ev.type = "update" /\ ev.id = m.id /\ KeyOf(ev, ev.mime) = KeyOf(m, part.mime)
      /\ ItemOf(OutputOf(ev)) = [text |-> Tokens(n, part), id |-> m.id]
  BY <1>1, <1>3, WholeIs
<1>5. FirstMime(m) = part.mime /\ LastMime(m) = part.mime
  BY <1>1, <1>2 DEF FirstMime, LastMime
<1>6. ~Continues(acc, ev) /\ ev.type \in Said
  BY <1>1, <1>4, <1>5 DEF Continues
<1>7. PartRows(m, n) = <<ev>>
  BY <1>1, <1>2, <1>3 DEF PartRows, Wholes
<1>8. PICK b : b = Read(acc, ev) /\ b = Add(acc, ev) /\ b = Reading(acc, PartRows(m, n))
  <2>1. Read(acc, ev) = Add(acc, ev)
    BY <1>6, ReadCases
  <2>2. Reading(acc, PartRows(m, n)) = Read(acc, ev)
    BY <1>7, ReadingOne
  <2> QED
    BY <2>1, <2>2
<1>9. /\ Base(acc) = acc.outs /\ acc.outs \in Seq(Shown1)
      /\ SameId(acc, ev) = {i \in 1..Len(acc.outs) : acc.outs[i].id = m.id}
  BY <1>4 DEF Base, SameId, ReaderOK
<1>10. PlaceOf(acc, ev) = p
  <2>1. p \in SameId(acc, ev) /\ SameId(acc, ev) # {} /\ p \in Nat /\ Len(acc.outs) \in Nat
    BY <1>9, LenProperties
  <2>2. PICK q : q = PlaceOf(acc, ev)
    OBVIOUS
  <2>3. q \in SameId(acc, ev) /\ q \in 1..Len(acc.outs) /\ p <= q
    BY <1>9, <2>1, <2>2, PlaceIs
  <2>4. acc.outs[q].id = m.id
    BY <1>9, <2>3
  <2>5. ~(q \in p + 1..Len(acc.outs))
    BY <2>4
  <2> QED
    BY <2>1, <2>2, <2>3, <2>5
<1>11. /\ b.outs = Placed(acc, ev) /\ b.pending = FALSE /\ b.group = KeyOf(ev, ev.mime)
  <2>1. PICK e : e = Add(acc, ev)
    OBVIOUS
  <2>2. e.outs = Placed(acc, ev) /\ e.pending = FALSE /\ e.group = KeyOf(ev, ev.mime)
    BY <2>1, AddIs
  <2> QED
    BY <1>8, <2>1, <2>2
<1>12. /\ b.outs \in Seq(Shown1) /\ Len(b.outs) = Len(acc.outs) /\ b.outs[p] = OutputOf(ev)
       /\ \A i \in 1..Len(acc.outs) : i # p => b.outs[i] = acc.outs[i]
  <2>1. SameId(acc, ev) # {}
    BY <1>9
  <2> QED
    <3>1. PICK s : s = Placed(acc, ev)
      OBVIOUS
    <3>2. /\ s \in Seq(Shown1) /\ s[PlaceOf(acc, ev)] = OutputOf(ev)
          /\ Len(s) = IF SameId(acc, ev) = {} THEN Len(Base(acc)) + 1 ELSE Len(Base(acc))
          /\ \A i \in 1..Len(Base(acc)) : i # PlaceOf(acc, ev) => s[i] = Base(acc)[i]
      BY <1>6, <3>1, PlacedIs
    <3>3. /\ s \in Seq(Shown1) /\ s[p] = OutputOf(ev) /\ Len(s) = Len(acc.outs)
          /\ \A i \in 1..Len(acc.outs) : i # p => s[i] = acc.outs[i]
      BY Zenon, <1>9, <1>10, <2>1, <3>2
    <3> QED
      BY <1>11, <3>1, <3>3
<1>13. Items(b.outs) = [Items(acc.outs) EXCEPT ![p] = ItemOf(b.outs[p])]
  <2>1. acc.outs \in Seq(Shown1) /\ b.outs \in Seq(Shown1) /\ Len(acc.outs) = Len(b.outs)
    BY <1>9, <1>12
  <2>2. PICK s \in Seq(Shown1) : s = acc.outs
    BY <2>1
  <2>3. PICK t \in Seq(Shown1) : t = b.outs
    BY <2>1
  <2>4. Len(s) = Len(t) /\ p \in 1..Len(s) /\ \A i \in 1..Len(s) : i # p => t[i] = s[i]
    BY <1>12, <2>2, <2>3
  <2>5. Items(t) = [Items(s) EXCEPT ![p] = ItemOf(t[p])]
    BY <2>4, ItemsReplaced
  <2> QED
    BY <2>2, <2>3, <2>5
<1>14. ReaderOK(b)
  BY <1>8, ReadOK
<1>15. UpdatedAt(b, acc, m, n, p)
  <2>1. ItemOf(b.outs[p]) = [text |-> Tokens(n, m.body[1]), id |-> m.id]
    BY Zenon, <1>2, <1>4, <1>12
  <2>2. b.group = KeyOf(m, LastMime(m)) /\ ~b.pending
    BY <1>4, <1>5, <1>11
  <2> QED
    BY Zenon, <1>13, <1>14, <2>1, <2>2 DEF UpdatedAt
<1> QED
  BY <1>8, <1>15

-----------------------------------------------------------------------------
(***************************************************************************)
(* What the messages say should be shown.                                  *)
(***************************************************************************)
LEMMA MaxUnique ==
  ASSUME NEW S, S \subseteq Nat, NEW x \in S, \A y \in S : y <= x
  PROVE  Max(S) = x
<1>1. x \in Nat /\ S # {}
  OBVIOUS
<1>2. Max(S) \in S /\ \A y \in S : y <= Max(S)
  BY <1>1, MaxIs
<1>3. PICK z : z = Max(S)
  OBVIOUS
<1>4. z \in Nat /\ z <= x /\ x <= z
  BY <1>2, <1>3
<1> QED
  BY <1>1, <1>3, <1>4

\* A clear that took effect.
Effective(c) ==
  /\ c \in 1..Len(log) /\ log[c].type = "clear"
  /\ log[c].wait => \E n \in c + 1..Len(log) : Shows(log[n])

LEMMA ClearedIs ==
  ASSUME Len(log) \in Nat
  PROVE  /\ Cleared \in 0..Len(log) /\ (Cleared # 0 => Effective(Cleared))
         /\ \A c : Effective(c) => c <= Cleared
         /\ \A x \in 0..Len(log) : (x = 0 \/ Effective(x)) /\ (\A c : Effective(c) => c <= x)
              => Cleared = x
<1> DEFINE S == {0} \cup {c \in 1..Len(log) : log[c].type = "clear" /\
                            (log[c].wait => \E n \in c + 1..Len(log) : Shows(log[n]))}
<1>1. Cleared = Max(S)
  BY DEF Cleared
<1>2. \A x : x \in S <=> x = 0 \/ Effective(x)
  BY DEF Effective
<1>3. S \subseteq 0..Len(log) /\ 0 \in S
  OBVIOUS
<1> HIDE DEF S
<1>4. S \subseteq Nat /\ S # {} /\ \A x \in S : x <= Len(log)
  BY <1>3
<1>5. Max(S) \in S /\ \A x \in S : x <= Max(S)
  BY <1>4, MaxIs
<1>6. ASSUME NEW x \in 0..Len(log), x = 0 \/ Effective(x), \A c : Effective(c) => c <= x
      PROVE  Cleared = x
  <2>1. x \in S /\ \A y \in S : y <= x
    BY <1>2, <1>6
  <2> QED
    BY <1>1, <1>4, <2>1, MaxUnique
<1> QED
  BY <1>1, <1>2, <1>3, <1>5, <1>6

LEMMA LiveIs ==
  ASSUME Len(log) \in Nat, NEW n
  PROVE  n \in Live <=> n \in 1..Len(log) /\ n > Cleared /\ Shows(log[n])
BY ClearedIs DEF Live

\* A clear waits for something to be shown.
Pending == \E c \in 1..Len(log) : c > Cleared /\ log[c].type = "clear"

\* What a live message that begins nothing is joined to, and what it reaches.
Reaches(s, u) ==
  /\ u \in Live /\ u > s /\ Updates(u) /\ log[u].id = log[s].id
  /\ \A t \in Slots : s < t /\ t < u => log[t].id # log[s].id
Runs(s, n) == n \in Live /\ n >= s /\ \A k \in s + 1..n : k \in Live /\ Joins(k)

LEMMA ContentIs ==
  ASSUME Len(log) \in Nat, NEW s \in 1..Len(log)
  PROVE  /\ Content(s) \in 1..Len(log) /\ (Content(s) = s \/ Reaches(s, Content(s)))
         /\ \A u : Reaches(s, u) => u <= Content(s)
         /\ \A x : (x = s \/ Reaches(s, x)) /\ s <= x /\ (\A u : Reaches(s, u) => u <= x)
              => Content(s) = x
<1> DEFINE S == {s} \cup {u \in Live : u > s /\ Updates(u) /\ log[u].id = log[s].id
                            /\ \A t \in Slots : s < t /\ t < u => log[t].id # log[s].id}
<1>1. Content(s) = Max(S)
  BY DEF Content
<1>2. \A x : x \in S <=> x = s \/ Reaches(s, x)
  BY DEF Reaches
<1>3. S \subseteq 1..Len(log) /\ s \in S
  BY LiveIs
<1> HIDE DEF S
<1>4. S \subseteq Nat /\ S # {} /\ \A x \in S : x <= Len(log)
  BY <1>3
<1>5. Max(S) \in S /\ \A x \in S : x <= Max(S)
  BY <1>4, MaxIs
<1>6. ASSUME NEW x, x = s \/ Reaches(s, x), s <= x, \A u : Reaches(s, u) => u <= x
      PROVE  Content(s) = x
  <2>1. x \in S /\ \A y \in S : y <= x
    BY <1>2, <1>6
  <2> QED
    BY <1>1, <1>4, <2>1, MaxUnique
<1> QED
  BY <1>1, <1>2, <1>3, <1>5, <1>6

LEMMA RunEndIs ==
  ASSUME Len(log) \in Nat, NEW s \in Live
  PROVE  /\ RunEnd(s) \in 1..Len(log) /\ Runs(s, RunEnd(s))
         /\ \A n : Runs(s, n) => n <= RunEnd(s)
         /\ \A x : Runs(s, x) /\ (\A n : Runs(s, n) => n <= x) => RunEnd(s) = x
<1> DEFINE S == {n \in Live : n >= s /\ \A k \in s + 1..n : k \in Live /\ Joins(k)}
<1>1. RunEnd(s) = Max(S)
  BY DEF RunEnd
<1>2. \A x : x \in S <=> Runs(s, x)
  BY DEF Runs
<1>3. S \subseteq 1..Len(log) /\ s \in S /\ s \in Nat
  BY LiveIs
<1> HIDE DEF S
<1>4. S \subseteq Nat /\ S # {} /\ \A x \in S : x <= Len(log)
  BY <1>3
<1>5. Max(S) \in S /\ \A x \in S : x <= Max(S)
  BY <1>4, MaxIs
<1>6. ASSUME NEW x, Runs(s, x), \A n : Runs(s, n) => n <= x PROVE RunEnd(s) = x
  <2>1. x \in S /\ \A y \in S : y <= x
    BY <1>2, <1>6
  <2> QED
    BY <1>1, <1>4, <2>1, MaxUnique
<1> QED
  BY <1>1, <1>2, <1>3, <1>5, <1>6

-----------------------------------------------------------------------------
(***************************************************************************)
(* What a slot shows.                                                      *)
(***************************************************************************)
\* The text of the messages from s to e of the log l, when all are streams.
RunText(l, s, e) == FlattenSeq([k \in 1..e - s + 1 |-> Tokens(s + k - 1, l[s + k - 1].body[1])])

LEMMA BodyOne ==
  ASSUME NEW m \in Messages, m.type = "stream", NEW n \in Nat
  PROVE  m.body # <<>> /\ Len(m.body) = 1 /\ m.body[1] \in Part /\ Tokens(n, m.body[1]) \in Words
<1>1. m.body \in Seq(Part) /\ Len(m.body) = 1
  BY MessageTypes
<1>2. PICK s \in Seq(Part) : s = m.body /\ Len(s) = 1
  BY Zenon, <1>1
<1>3. s = <<>> <=> Len(s) = 0
  BY <1>2, EmptySeq
<1>4. Len(s) # 0
  BY <1>2
<1>5. s[1] \in Part
  BY <1>2, ElementOfSeq
<1>6. m.body # <<>>
  BY Zenon, <1>2, <1>3, <1>4
<1> QED
  BY <1>1, <1>2, <1>5, <1>6, TokensType

LEMMA RunTextIs ==
  ASSUME NEW l \in Seq(Messages), NEW s \in Nat, NEW e \in Nat, 1 <= s, s <= e, e <= Len(l),
         \A n \in s..e : l[n].type = "stream"
  PROVE  /\ RunText(l, s, e) \in Words
         /\ s = e => RunText(l, s, e) = Tokens(s, l[s].body[1])
         /\ s < e => RunText(l, s, e) = RunText(l, s, e - 1) \o Tokens(e, l[e].body[1])
<1>1. PICK T : Words = Seq(T)
  BY DEF Words
<1>2. PICK k \in Nat : k + 1 = e - s + 1 /\ s + k = e
  <2>1. e - s \in Nat /\ s + (e - s) = e
    OBVIOUS
  <2> QED
    BY <2>1
<1>3. PICK f : f = [i \in 1..k + 1 |-> Tokens(s + i - 1, l[s + i - 1].body[1])]
  OBVIOUS
<1>4. ASSUME NEW i \in 1..k + 1 PROVE Tokens(s + i - 1, l[s + i - 1].body[1]) \in Seq(T)
  <2>1. PICK n \in Nat : n = s + i - 1 /\ n \in s..e /\ n \in 1..Len(l)
    <3>1. s + i - 1 \in Nat /\ s + i - 1 \in s..e /\ Len(l) \in Nat
      BY <1>2, LenProperties
    <3>2. s + i - 1 \in 1..Len(l)
      BY <3>1
    <3> QED
      BY <3>1, <3>2
  <2>2. l[n] \in Messages /\ l[n].type = "stream"
    BY <2>1, ElementOfSeq
  <2>3. Tokens(n, l[n].body[1]) \in Words
    BY <2>2, BodyOne
  <2> QED
    BY <1>1, <2>1, <2>3
<1>5. f \in [1..k + 1 -> Seq(T)] /\ k + 1 \in Nat
  <2>1. f \in [1..k + 1 -> Seq(T)]
    BY Zenon, <1>3, <1>4
  <2>2. k + 1 \in Nat
    OBVIOUS
  <2> QED
    BY <2>1, <2>2
<1>6. /\ Upto(f, 0) = <<>> /\ Upto(f, k + 1) = FlattenSeq(f)
      /\ Upto(f, k + 1) \in Seq(T) /\ Upto(f, k) \in Seq(T)
      /\ Upto(f, k + 1) = Upto(f, k) \o f[k + 1]
  <2>1. k + 1 <= k + 1 /\ k <= k + 1
    OBVIOUS
  <2> QED
    <3>1. PICK n \in Nat : n = k + 1
      BY <1>5
    <3>2. /\ Upto(f, 0) = <<>> /\ Upto(f, n) = FlattenSeq(f)
          /\ \A j \in Nat : j <= n => Upto(f, j) \in Seq(T)
          /\ \A j \in Nat : j + 1 <= n => Upto(f, j + 1) = Upto(f, j) \o f[j + 1]
      <4>1. f \in [1..n -> Seq(T)]
        BY <1>5, <3>1
      <4> QED
        BY Zenon, <4>1, UptoIs
    <3> QED
      BY <2>1, <3>1, <3>2
<1>7. FlattenSeq(f) = RunText(l, s, e)
  BY <1>2, <1>3 DEF RunText
<1>8. f[k + 1] = Tokens(e, l[e].body[1]) /\ f[k + 1] \in Seq(T)
  <2>1. k + 1 \in 1..k + 1 /\ s + (k + 1) - 1 = e
    BY <1>2
  <2> QED
    BY <1>3, <1>5, <2>1
<1>9. CASE s = e
  <2>1. k = 0
    BY <1>2, <1>9
  <2>2. <<>> \o f[k + 1] = f[k + 1]
    BY <1>8, ConcatEmptySeq
  <2>3. ~(s < e)
    BY <1>9
  <2>4. RunText(l, s, e) = Tokens(s, l[s].body[1])
    BY Zenon, <1>6, <1>7, <1>8, <1>9, <2>1, <2>2
  <2> QED
    BY Zenon, <1>1, <1>6, <1>7, <2>3, <2>4
<1>10. CASE s < e
  <2>1. Upto(f, k) = RunText(l, s, e - 1)
    <3>1. (e - 1) - s + 1 = k
      BY <1>2
    <3>2. [i \in 1..k |-> f[i]] = [i \in 1..k |-> Tokens(s + i - 1, l[s + i - 1].body[1])]
      BY <1>3
    <3> QED
      BY <3>1, <3>2 DEF Upto, RunText
  <2>2. s # e
    BY <1>10
  <2> QED
    BY <1>1, <1>6, <1>7, <1>8, <2>1, <2>2
<1> QED
  BY <1>9, <1>10

LEMMA RunTextSame ==
  ASSUME NEW l, NEW h, NEW s \in Nat, NEW e \in Nat, \A n \in s..e : l[n] = h[n]
  PROVE  RunText(l, s, e) = RunText(h, s, e)
<1>1. \A k \in 1..e - s + 1 : s + k - 1 \in s..e
  OBVIOUS
<1>2. \A k \in 1..e - s + 1 : l[s + k - 1] = h[s + k - 1]
  BY <1>1
<1>3. [k \in 1..e - s + 1 |-> Tokens(s + k - 1, l[s + k - 1].body[1])] =
        [k \in 1..e - s + 1 |-> Tokens(s + k - 1, h[s + k - 1].body[1])]
  BY <1>2
<1> QED
  BY <1>3 DEF RunText

LEMMA ShowingType ==
  ASSUME NEW m \in Messages, NEW n \in Nat
  PROVE  /\ Showing(m, n) \in Seq(Item)
         /\ \A i \in 1..Len(Showing(m, n)) : Showing(m, n)[i].id = m.id
         /\ Len(m.body) = 1 => Showing(m, n) = <<[text |-> Tokens(n, m.body[1]), id |-> m.id]>>
<1>1. /\ m \in Message /\ Len(m.body) \in Nat /\ m.id \in Nat
      /\ \A i \in 1..Len(m.body) : m.body[i] \in Part
      /\ m.body \in Seq(Part)
  BY MessageTypes, LenProperties, ElementOfSeq DEF Message
<1>2. CASE m.body = <<>>
  <2>1. [text |-> <<>>, id |-> m.id] \in Item
    <3>1. <<>> \in Words
      BY EmptySeq DEF Words
    <3> QED
      BY <1>1, <3>1 DEF Item
  <2>2. Showing(m, n) = <<[text |-> <<>>, id |-> m.id]>> /\ Len(m.body) = 0
    BY <1>1, <1>2, EmptySeq DEF Showing
  <2> QED
    BY <2>1, <2>2
<1>3. CASE m.body # <<>>
  <2>1. Showing(m, n) = [i \in 1..Len(m.body) |-> Shows1(m, n, i)]
    BY <1>3 DEF Showing
  <2>2. \A i \in 1..Len(m.body) : Shows1(m, n, i) \in Item /\ Shows1(m, n, i).id = m.id
    BY <1>1, TokensType DEF Shows1, Item
  <2>3. Showing(m, n) \in [1..Len(m.body) -> Item]
    BY <2>1, <2>2
  <2>4. Showing(m, n) \in Seq(Item) /\ Len(Showing(m, n)) = Len(m.body)
    BY <1>1, <2>3
  <2>5. \A i \in 1..Len(Showing(m, n)) : Showing(m, n)[i].id = m.id
    BY <2>1, <2>2, <2>4
  <2>6. Len(m.body) = 1 => Showing(m, n) = <<Shows1(m, n, 1)>>
    <3>1. [i \in 1..1 |-> Shows1(m, n, i)] = <<Shows1(m, n, 1)>>
      OBVIOUS
    <3> QED
      BY <2>1, <3>1
  <2> QED
    BY <2>4, <2>5, <2>6 DEF Shows1
<1> QED
  BY <1>2, <1>3

\* What slot n shows, as items.
SlotItems(n) ==
  IF n \in Slots
  THEN [i \in 1..Len(SlotShows(n)) |-> [text |-> SlotShows(n)[i], id |-> log[n].id]]
  ELSE <<>>

LEMMA StreamSlot ==
  ASSUME log \in Seq(Messages), NEW s \in Slots, log[s].type = "stream"
  PROVE  /\ SlotItems(s) = <<[text |-> RunText(log, s, RunEnd(s)), id |-> log[s].id]>>
         /\ RunText(log, s, RunEnd(s)) \in Words /\ SlotShows(s) \in Seq(Words)
         /\ \A n \in s..RunEnd(s) : log[n].type = "stream"
<1>1. Len(log) \in Nat /\ s \in Live /\ s \in 1..Len(log)
  BY LenProperties, LiveIs DEF Slots
<1>2. PICK e : e = RunEnd(s) /\ e \in 1..Len(log) /\ e >= s
               /\ \A k \in s + 1..e : k \in Live /\ Joins(k)
  BY <1>1, RunEndIs DEF Runs
<1>3. \A n \in s..e : log[n].type = "stream" /\ n \in 1..Len(log)
  <2> SUFFICES ASSUME NEW n \in s..e PROVE log[n].type = "stream" /\ n \in 1..Len(log)
    OBVIOUS
  <2>1. n \in 1..Len(log)
    BY <1>1, <1>2
  <2>2. CASE n = s
    BY <2>1, <2>2
  <2>3. CASE n # s
    <3>1. n \in s + 1..e
      BY <1>1, <1>2, <2>3
    <3> QED
      BY <1>2, <2>1, <3>1 DEF Joins
  <2> QED
    BY <2>2, <2>3
<1>4. \A n \in s..e : BodyText(n, 1) = Tokens(n, log[n].body[1])
  <2> SUFFICES ASSUME NEW n \in s..e PROVE BodyText(n, 1) = Tokens(n, log[n].body[1])
    OBVIOUS
  <2>1. log[n] \in Messages /\ n \in Nat /\ log[n].type = "stream"
    BY <1>1, <1>3, ElementOfSeq
  <2>2. log[n].body # <<>>
    BY <2>1, BodyOne
  <2> QED
    BY <2>2 DEF BodyText
<1>5. [k \in 1..e - s + 1 |-> BodyText(s + k - 1, 1)] =
        [k \in 1..e - s + 1 |-> Tokens(s + k - 1, log[s + k - 1].body[1])]
  <2>1. \A k \in 1..e - s + 1 : s + k - 1 \in s..e
    BY <1>1, <1>2
  <2> QED
    BY <1>4, <2>1
<1>6. SlotShows(s) = <<RunText(log, s, e)>>
  BY <1>2, <1>5 DEF SlotShows, RunText
<1>7. RunText(log, s, e) \in Words
  <2>1. PICK l \in Seq(Messages) : l = log
    OBVIOUS
  <2>2. s \in Nat /\ e \in Nat /\ 1 <= s /\ s <= e /\ e <= Len(l)
    BY <1>1, <1>2, <2>1
  <2>3. \A n \in s..e : l[n].type = "stream"
    BY <1>3, <2>1
  <2>4. RunText(l, s, e) \in Words
    BY <2>2, <2>3, RunTextIs
  <2> QED
    BY <2>1, <2>4
<1>8. SlotItems(s) = <<[text |-> RunText(log, s, e), id |-> log[s].id]>>
  <2>1. PICK x : x = RunText(log, s, e)
    OBVIOUS
  <2>2. [i \in 1..Len(<<x>>) |-> [text |-> <<x>>[i], id |-> log[s].id]] =
          <<[text |-> x, id |-> log[s].id]>>
    OBVIOUS
  <2> QED
    BY <1>6, <2>1, <2>2 DEF SlotItems
<1>9. SlotShows(s) \in Seq(Words)
  <2>1. PICK x \in Words : x = RunText(log, s, e)
    BY <1>7
  <2>2. <<x>> \in Seq(Words)
    OBVIOUS
  <2> QED
    BY <1>6, <2>1, <2>2
<1> QED
  BY <1>2, <1>3, <1>7, <1>8, <1>9

LEMMA OtherSlot ==
  ASSUME log \in Seq(Messages), NEW s \in Slots, log[s].type # "stream"
  PROVE  /\ SlotItems(s) = Showing(log[Content(s)], Content(s))
         /\ Content(s) \in 1..Len(log) /\ log[Content(s)].id = log[s].id
         /\ SlotShows(s) \in Seq(Words)
<1>1. Len(log) \in Nat /\ s \in Live /\ s \in 1..Len(log)
  BY LenProperties, LiveIs DEF Slots
<1>2. PICK n : n = Content(s) /\ n \in 1..Len(log) /\ log[n].id = log[s].id
  <2>1. Content(s) \in 1..Len(log) /\ (Content(s) = s \/ Reaches(s, Content(s)))
    BY <1>1, ContentIs
  <2>2. log[Content(s)].id = log[s].id
    BY <2>1 DEF Reaches
  <2> QED
    BY <2>1, <2>2
<1>3. PICK m \in Messages : m = log[n]
  BY <1>2, ElementOfSeq
<1>4. CASE m.body = <<>>
  <2>1. SlotShows(s) = <<<<>>>>
    BY Zenon, <1>2, <1>3, <1>4 DEF SlotShows
  <2>2. [i \in 1..Len(<<<<>>>>) |-> [text |-> <<<<>>>>[i], id |-> log[s].id]] =
          <<[text |-> <<>>, id |-> log[s].id]>>
    OBVIOUS
  <2>3. SlotShows(s) \in Seq(Words)
    <3>1. <<>> \in Words
      BY EmptySeq DEF Words
    <3>2. PICK x \in Words : x = <<>>
      BY <3>1
    <3>3. <<x>> \in Seq(Words)
      OBVIOUS
    <3> QED
      BY <2>1, <3>2, <3>3
  <2>4. SlotItems(s) = Showing(log[Content(s)], Content(s))
    BY <1>2, <1>3, <1>4, <2>1, <2>2 DEF SlotItems, Showing
  <2> QED
    BY <1>2, <2>3, <2>4
<1>5. CASE m.body # <<>>
  <2>1. Len(m.body) \in Nat
    BY MessageTypes, LenProperties
  <2>2. PICK f : f = [i \in 1..Len(m.body) |-> Tokens(n, m.body[i])]
    OBVIOUS
  <2>3. SlotShows(s) = f
    BY <1>2, <1>3, <1>5, <2>2 DEF SlotShows, BodyText
  <2>4. Len(f) = Len(m.body) /\ \A i \in 1..Len(m.body) : f[i] = Tokens(n, m.body[i])
    BY <2>1, <2>2
  <2>5. [i \in 1..Len(f) |-> [text |-> f[i], id |-> log[s].id]] =
          [i \in 1..Len(m.body) |-> Shows1(m, n, i)]
    BY <1>2, <1>3, <2>4 DEF Shows1
  <2>6. SlotShows(s) \in Seq(Words)
    <3>1. n \in Nat /\ \A i \in 1..Len(m.body) : m.body[i] \in Part
      BY <1>1, <1>2, MessageTypes, ElementOfSeq
    <3>2. \A i \in 1..Len(m.body) : Tokens(n, m.body[i]) \in Words
      BY <3>1, TokensType
    <3>3. f \in [1..Len(m.body) -> Words]
      BY <2>2, <3>2
    <3> QED
      BY <2>1, <2>3, <3>3
  <2>7. SlotItems(s) = Showing(log[Content(s)], Content(s))
    BY <1>2, <1>3, <1>5, <2>3, <2>5 DEF SlotItems, Showing
  <2> QED
    BY <1>2, <2>6, <2>7
<1> QED
  BY <1>2, <1>3, <1>4, <1>5

\* All of this about the log, and about the log after a step.
LogFacts ==
  /\ Cleared \in 0..Len(log) /\ (Cleared # 0 => Effective(Cleared))
  /\ \A c : Effective(c) => c <= Cleared
  /\ \A x \in 0..Len(log) : (x = 0 \/ Effective(x)) /\ (\A c : Effective(c) => c <= x)
       => Cleared = x
  /\ \A n : n \in Live <=> n \in 1..Len(log) /\ n > Cleared /\ Shows(log[n])
ContentFacts ==
  \A s \in 1..Len(log) :
    /\ Content(s) \in 1..Len(log) /\ (Content(s) = s \/ Reaches(s, Content(s)))
    /\ \A u : Reaches(s, u) => u <= Content(s)
    /\ \A x : (x = s \/ Reaches(s, x)) /\ s <= x /\ (\A u : Reaches(s, u) => u <= x)
         => Content(s) = x
RunFacts ==
  \A s \in Live :
    /\ RunEnd(s) \in 1..Len(log) /\ Runs(s, RunEnd(s))
    /\ \A n : Runs(s, n) => n <= RunEnd(s)
    /\ \A x : Runs(s, x) /\ (\A n : Runs(s, n) => n <= x) => RunEnd(s) = x
SlotFacts ==
  /\ \A s \in Slots : log[s].type = "stream" =>
       /\ SlotItems(s) = <<[text |-> RunText(log, s, RunEnd(s)), id |-> log[s].id]>>
       /\ \A n \in s..RunEnd(s) : log[n].type = "stream"
  /\ \A s \in Slots : log[s].type # "stream" =>
       /\ SlotItems(s) = Showing(log[Content(s)], Content(s))
       /\ log[Content(s)].id = log[s].id
  /\ \A n : n \notin Slots => SlotItems(n) = <<>>
  /\ \A n \in 1..Len(log) :
       /\ SlotItems(n) \in Seq(Item)
       /\ \A h \in 1..Len(SlotItems(n)) : SlotItems(n)[h].id = log[n].id /\ n \in Slots
Facts == LogFacts /\ ContentFacts /\ RunFacts /\ SlotFacts

LEMMA FactsHold == log \in Seq(Messages) => Facts
<1> SUFFICES ASSUME log \in Seq(Messages) PROVE Facts
  OBVIOUS
<1>1. Len(log) \in Nat
  BY LenProperties
<1>2. LogFacts
  BY <1>1, ClearedIs, LiveIs DEF LogFacts
<1>3. ContentFacts
  BY <1>1, ContentIs DEF ContentFacts
<1>4. RunFacts
  BY <1>1, RunEndIs DEF RunFacts
<1>5. \A n : n \notin Slots => SlotItems(n) = <<>>
  BY DEF SlotItems
<1>6. ASSUME NEW n \in 1..Len(log)
      PROVE  /\ SlotItems(n) \in Seq(Item)
             /\ \A h \in 1..Len(SlotItems(n)) : SlotItems(n)[h].id = log[n].id /\ n \in Slots
  <2>1. log[n] \in Messages
    BY ElementOfSeq
  <2>2. log[n].id \in Nat
    BY <2>1, MessageTypes DEF Message
  <2>3. CASE n \notin Slots
    <3>1. <<>> \in Seq(Item) /\ Len(<<>>) = 0
      BY EmptySeq
    <3>2. SlotItems(n) = <<>>
      BY <1>5, <2>3
    <3> QED
      BY <3>1, <3>2
  <2>4. CASE n \in Slots /\ log[n].type = "stream"
    <3>1. PICK x \in Words : x = RunText(log, n, RunEnd(n))
      BY <2>4, StreamSlot
    <3>2. PICK i \in Item : i = [text |-> x, id |-> log[n].id]
      BY <2>2 DEF Item
    <3>3. SlotItems(n) = <<i>> /\ i.id = log[n].id
      BY <2>4, <3>1, <3>2, StreamSlot
    <3> QED
      BY <2>4, <3>3
  <2>5. CASE n \in Slots /\ log[n].type # "stream"
    <3>1. PICK c : c = Content(n) /\ c \in 1..Len(log) /\ log[c].id = log[n].id
                   /\ SlotItems(n) = Showing(log[c], c)
      BY <2>5, OtherSlot
    <3>2. log[c] \in Messages /\ c \in Nat
      BY <1>1, <3>1, ElementOfSeq
    <3> QED
      BY <2>5, <3>1, <3>2, ShowingType
  <2> QED
    BY <2>3, <2>4, <2>5
<1>7. SlotFacts
  BY <1>5, <1>6, StreamSlot, OtherSlot DEF SlotFacts
<1> QED
  BY <1>2, <1>3, <1>4, <1>7 DEF Facts

-----------------------------------------------------------------------------
(***************************************************************************)
(* What one more message changes of it.                                    *)
(***************************************************************************)
LEMMA StepFacts ==
  ASSUME log \in Seq(Messages), NEW m \in Messages, log' = Append(log, m)
  PROVE  Facts /\ Facts'
<1>1. log' \in Seq(Messages)
  BY LogGrows
<1>2. (log \in Seq(Messages) => Facts)'
  BY FactsHold, PTL
<1> QED
  BY <1>1, <1>2, FactsHold

\* The messages so far are as live as they were.
Kept == \A n \in 1..Len(log) : n \in Live' <=> n \in Live

LEMMA KeptIs ==
  ASSUME log \in Seq(Messages), NEW m \in Messages, log' = Append(log, m), Kept
  PROVE  /\ \A n \in 1..Len(log) : (Joins(n)' <=> Joins(n)) /\ (Updates(n)' <=> Updates(n))
         /\ \A n \in 1..Len(log) : n \in Slots' <=> n \in Slots
         /\ \A s, u \in 1..Len(log) : Reaches(s, u)' <=> Reaches(s, u)
         /\ \A s, n \in 1..Len(log) : Runs(s, n)' <=> Runs(s, n)
<1>1. PICK k \in Nat : k = Len(log)
  BY LogGrows
<1>2. /\ Len(log') = k + 1 /\ log'[k + 1] = m /\ \A n \in 1..k : log'[n] = log[n]
      /\ \A n \in 1..k : n \in Live' <=> n \in Live
  BY <1>1, LogGrows DEF Kept
<1>3. /\ \A n : n \in Live => n \in 1..k
      /\ \A n : n \in Live' => n \in 1..k + 1
  BY <1>1, <1>2, StepFacts DEF Facts, LogFacts
<1>4. ASSUME NEW n \in 1..k PROVE Joins(n)' <=> Joins(n)
  <2>1. n - 1 \in Live' <=> n - 1 \in Live
    <3>1. n - 1 \in 1..k \/ (n - 1 \notin 1..k + 1 /\ n - 1 \notin 1..k)
      OBVIOUS
    <3> QED
      BY <1>2, <1>3, <3>1
  <2>2. n - 1 \in Live => log'[n - 1] = log[n - 1]
    BY <1>2, <1>3
  <2> QED
    BY <1>2, <2>1, <2>2 DEF Joins
<1>5. ASSUME NEW n \in 1..k PROVE Updates(n)' <=> Updates(n)
  <2>1. \A p : p \in Live' /\ p < n <=> p \in Live /\ p < n
    <3> SUFFICES ASSUME NEW p, p \in Live \/ p \in Live', p < n
                 PROVE  p \in Live' <=> p \in Live
      OBVIOUS
    <3>1. p \in 1..k
      BY <1>3
    <3> QED
      BY <1>2, <3>1
  <2>2. \A p \in Live : log'[p] = log[p]
    BY <1>2, <1>3
  <2> QED
    BY <1>2, <2>1, <2>2 DEF Updates
<1>6. ASSUME NEW n \in 1..k PROVE n \in Slots' <=> n \in Slots
  BY <1>2, <1>4, <1>5 DEF Slots
<1>7. ASSUME NEW s \in 1..k, NEW u \in 1..k PROVE Reaches(s, u)' <=> Reaches(s, u)
  <2>1. \A t : t \in Slots \/ t \in Slots' => t \in Nat
    BY <1>3 DEF Slots
  <2>2. \A t : s < t /\ t < u /\ (t \in Slots \/ t \in Slots') => t \in 1..k
    BY <2>1
  <2>3. (\A t \in Slots' : s < t /\ t < u => log'[t].id # log'[s].id) <=>
          (\A t \in Slots : s < t /\ t < u => log[t].id # log[s].id)
    BY <1>2, <1>6, <2>2
  <2> QED
    BY <1>2, <1>5, <2>3 DEF Reaches
<1>8. ASSUME NEW s \in 1..k, NEW n \in 1..k PROVE Runs(s, n)' <=> Runs(s, n)
  <2>1. \A i \in s + 1..n : i \in 1..k
    OBVIOUS
  <2> QED
    BY <1>2, <1>4, <2>1 DEF Runs
<1> QED
  BY <1>1, <1>4, <1>5, <1>6, <1>7, <1>8

\* A slot that the message neither joins nor reaches shows what it did.
LEMMA SlotKept ==
  ASSUME log \in Seq(Messages), NEW m \in Messages, log' = Append(log, m), Kept,
         NEW k \in Nat, k = Len(log), NEW s \in 1..k, ~Reaches(s, k + 1)', ~Runs(s, k + 1)'
  PROVE  SlotItems(s)' = SlotItems(s)
<1>1. k = Len(log)
  OBVIOUS
<1>2. /\ Len(log') = k + 1 /\ log'[k + 1] = m /\ \A n \in 1..k : log'[n] = log[n]
      /\ s \in 1..k + 1
  BY <1>1, LogGrows
<1>3. /\ \A n \in 1..k : n \in Slots' <=> n \in Slots
      /\ \A u \in 1..k : Reaches(s, u)' <=> Reaches(s, u)
      /\ \A n \in 1..k : Runs(s, n)' <=> Runs(s, n)
  BY <1>1, KeptIs
<1>4. ~Reaches(s, k + 1)' /\ ~Runs(s, k + 1)'
  OBVIOUS
<1>5. \A n : n \in Live' => n \in 1..k + 1
  BY <1>2, StepFacts DEF Facts, LogFacts
<1>6. CASE s \notin Slots
  <2>1. s \notin Slots' /\ s \notin Slots
    BY <1>1, <1>3, <1>6
  <2> QED
    BY <2>1, StepFacts DEF Facts, SlotFacts
<1>7. CASE s \in Slots /\ log[s].type = "stream"
  <2>1. s \in Live /\ s \in Live' /\ s \in Slots' /\ log'[s].type = "stream" /\ s \in Nat
    BY <1>1, <1>2, <1>3, <1>7 DEF Slots
  <2>2. PICK e : e = RunEnd(s) /\ e \in 1..k /\ Runs(s, e) /\ \A n : Runs(s, n) => n <= e
    BY <1>1, <2>1, StepFacts DEF Facts, RunFacts
  <2>3. Runs(s, e)' /\ \A n : Runs(s, n)' => n <= e
    <3>1. Runs(s, e)'
      BY <1>3, <2>2
    <3>2. ASSUME NEW n, Runs(s, n)' PROVE n <= e
      <4>1. n \in 1..k + 1 /\ n # k + 1
        BY <1>4, <1>5, <3>2 DEF Runs
      <4>2. n \in 1..k
        BY <4>1
      <4> QED
        BY <1>3, <2>2, <3>2, <4>2
    <3> QED
      BY <3>1, <3>2
  <2>4. RunEnd(s)' = e
    BY <2>1, <2>3, StepFacts DEF Facts, RunFacts
  <2>5. RunText(log', s, e) = RunText(log, s, e)
    <3>1. \A n \in s..e : n \in 1..k
      BY <1>1, <2>2
    <3>2. PICK l, h : l = log /\ h = log'
      OBVIOUS
    <3>3. e \in Nat /\ \A n \in s..e : h[n] = l[n]
      BY <1>2, <2>2, <3>1, <3>2
    <3>4. RunText(h, s, e) = RunText(l, s, e)
      BY <2>1, <3>3, RunTextSame
    <3> QED
      BY <3>2, <3>4
  <2>6. SlotItems(s) = <<[text |-> RunText(log, s, e), id |-> log[s].id]>>
    BY <1>7, <2>2, StepFacts DEF Facts, SlotFacts
  <2>7. SlotItems(s)' = <<[text |-> RunText(log', s, e), id |-> log'[s].id]>>
    BY <2>1, <2>4, StepFacts DEF Facts, SlotFacts
  <2> QED
    BY <1>1, <1>2, <2>5, <2>6, <2>7
<1>8. CASE s \in Slots /\ log[s].type # "stream"
  <2>1. s \in Slots' /\ log'[s].type # "stream" /\ s \in Nat
    BY <1>1, <1>2, <1>3, <1>8
  <2>2. PICK c : /\ c = Content(s) /\ c \in 1..k /\ (c = s \/ Reaches(s, c)) /\ s <= c
                 /\ \A u : Reaches(s, u) => u <= c
    <3>1. /\ Content(s) \in 1..k /\ (Content(s) = s \/ Reaches(s, Content(s)))
          /\ \A u : Reaches(s, u) => u <= Content(s)
      BY <1>1, StepFacts DEF Facts, ContentFacts
    <3>2. s <= Content(s)
      BY <2>1, <3>1 DEF Reaches
    <3> QED
      BY <3>1, <3>2
  <2>3. (c = s \/ Reaches(s, c)') /\ \A u : Reaches(s, u)' => u <= c
    <3>1. c = s \/ Reaches(s, c)'
      BY <1>3, <2>2
    <3>2. ASSUME NEW u, Reaches(s, u)' PROVE u <= c
      <4>1. u \in 1..k + 1 /\ u # k + 1
        BY <1>4, <1>5, <3>2 DEF Reaches
      <4>2. u \in 1..k
        BY <4>1
      <4> QED
        BY <1>3, <2>2, <3>2, <4>2
    <3> QED
      BY <3>1, <3>2
  <2>4. Content(s)' = c
    BY <1>2, <2>2, <2>3, StepFacts DEF Facts, ContentFacts
  <2>5. SlotItems(s) = Showing(log[c], c)
    BY <1>8, <2>2, StepFacts DEF Facts, SlotFacts
  <2>6. SlotItems(s)' = Showing(log'[c], c)
    BY <2>1, <2>4, StepFacts DEF Facts, SlotFacts
  <2> QED
    BY <1>2, <2>2, <2>5, <2>6
<1> QED
  BY <1>6, <1>7, <1>8

LEMMA EffectiveStep ==
  ASSUME log \in Seq(Messages), NEW m \in Messages, log' = Append(log, m),
         NEW k \in Nat, k = Len(log)
  PROVE  /\ \A c : Effective(c) => c \in 1..k /\ Effective(c)' /\ log[c].type = "clear"
         /\ \A c : Effective(c)' => c \in 1..k + 1
         /\ \A c \in 1..k : Shows(m) /\ log[c].type = "clear" => Effective(c)'
         /\ \A c \in 1..k : ~Shows(m) /\ Effective(c)' => Effective(c)
         /\ \A c \in 1..k : Effective(c)' => log[c].type = "clear"
         /\ Effective(k + 1)' <=> m.type = "clear" /\ ~m.wait
<1>1. /\ Len(log') = k + 1 /\ log'[k + 1] = m /\ \A n \in 1..k : log'[n] = log[n]
      /\ m.wait \in BOOLEAN
  BY LogGrows, MessageTypes DEF Message
<1>2. \A c : c \in 1..k => c \in 1..k + 1 /\ k + 1 \in c + 1..k + 1
  OBVIOUS
<1>3. ASSUME NEW c, Effective(c)
      PROVE  c \in 1..k /\ Effective(c)' /\ log[c].type = "clear"
  <2>1. c \in 1..k /\ log[c].type = "clear" /\ log'[c] = log[c] /\ c \in 1..k + 1
    BY <1>1, <1>2, <1>3 DEF Effective
  <2>2. ASSUME log[c].wait PROVE \E n \in c + 1..k + 1 : Shows(log'[n])
    <3>1. PICK n \in c + 1..k : Shows(log[n])
      BY <1>3, <2>2 DEF Effective
    <3>2. n \in c + 1..k + 1 /\ n \in 1..k
      BY <2>1
    <3>3. log'[n] = log[n]
      BY <1>1, <3>2
    <3>4. Shows(log'[n])
      BY <3>1, <3>3 DEF Shows
    <3> QED
      BY <3>2, <3>4
  <2>3. Effective(c)'
    BY <1>1, <2>1, <2>2 DEF Effective, Shows
  <2> QED
    BY <2>1, <2>3
<1>4. ASSUME NEW c, Effective(c)' PROVE c \in 1..k + 1
  BY <1>1, <1>4 DEF Effective
<1>5. ASSUME NEW c \in 1..k, Shows(m), log[c].type = "clear" PROVE Effective(c)'
  <2>1. c \in 1..k + 1 /\ k + 1 \in c + 1..k + 1 /\ log'[c].type = "clear"
    BY <1>1, <1>2, <1>5
  <2> QED
    BY <1>1, <1>5, <2>1 DEF Effective, Shows
<1>6. ASSUME NEW c \in 1..k, ~Shows(m), Effective(c)' PROVE Effective(c)
  <2>1. log[c].type = "clear" /\ log'[c] = log[c]
    BY <1>1, <1>6 DEF Effective
  <2>2. ASSUME log[c].wait PROVE \E n \in c + 1..k : Shows(log[n])
    <3>1. PICK n \in c + 1..k + 1 : Shows(log'[n])
      BY <1>1, <1>6, <2>1, <2>2 DEF Effective, Shows
    <3>2. n # k + 1
      BY <1>1, <1>6, <3>1 DEF Shows
    <3>3. n \in c + 1..k /\ n \in 1..k
      BY <3>2
    <3>4. Shows(log[n])
      BY <1>1, <3>1, <3>3 DEF Shows
    <3> QED
      BY <3>3, <3>4
  <2> QED
    BY <2>1, <2>2 DEF Effective
<1>7. ASSUME NEW c \in 1..k, Effective(c)' PROVE log[c].type = "clear"
  BY <1>1, <1>7 DEF Effective
<1>8. Effective(k + 1)' <=> m.type = "clear" /\ ~m.wait
  <2>1. k + 1 \in 1..k + 1 /\ ~\E n \in (k + 1) + 1..k + 1 : TRUE
    OBVIOUS
  <2> QED
    BY <1>1, <2>1 DEF Effective
<1> QED
  BY <1>3, <1>4, <1>5, <1>6, <1>7, <1>8

\* A clear takes effect at once.
LEMMA ClearsNow ==
  ASSUME log \in Seq(Messages), NEW m \in Messages, log' = Append(log, m),
         m.type = "clear", ~m.wait
  PROVE  ~Pending' /\ \A n : n \notin Live'
<1>1. PICK k \in Nat : k = Len(log)
  BY LogGrows
<1>2. Len(log') = k + 1
  BY <1>1, LogGrows
<1>3. Effective(k + 1)'
  BY <1>1, EffectiveStep
<1>4. k + 1 <= Cleared' /\ Cleared' \in 0..k + 1
  BY <1>2, <1>3, StepFacts DEF Facts, LogFacts
<1>5. \A n \in 1..k + 1 : ~(n > Cleared')
  BY <1>4
<1> QED
  BY <1>2, <1>5, StepFacts DEF Pending, Facts, LogFacts

\* A clear waits.
LEMMA ClearWaits ==
  ASSUME log \in Seq(Messages), NEW m \in Messages, log' = Append(log, m),
         m.type = "clear", m.wait, NEW k \in Nat, k = Len(log)
  PROVE  Pending' /\ Kept /\ k + 1 \notin Live'
<1>1. /\ Len(log') = k + 1 /\ log'[k + 1] = m /\ \A n \in 1..k : log'[n] = log[n]
  BY LogGrows
<1>2. ~Shows(m)
  BY DEF Shows
<1>3. Cleared' = Cleared /\ Cleared \in 0..k
  <2>1. /\ Cleared \in 0..k /\ (Cleared # 0 => Effective(Cleared))
        /\ \A c : Effective(c) => c <= Cleared
    BY StepFacts DEF Facts, LogFacts
  <2>2. PICK x \in 0..k : /\ x = Cleared /\ (x # 0 => Effective(x))
                          /\ \A c : Effective(c) => c <= x
    BY <2>1
  <2>3. x \in 0..k + 1 /\ (x = 0 \/ Effective(x)')
    BY <2>2, EffectiveStep
  <2>4. ASSUME NEW c, Effective(c)' PROVE c <= x
    <3>1. c \in 1..k + 1 /\ c # k + 1
      BY <2>4, EffectiveStep
    <3>2. c \in 1..k
      BY <3>1
    <3> QED
      BY <1>2, <2>2, <2>4, <3>2, EffectiveStep
  <2>5. Cleared' = x
    BY <1>1, <2>3, <2>4, StepFacts DEF Facts, LogFacts
  <2> QED
    BY <2>2, <2>5
<1>4. Pending'
  <2>1. k + 1 \in 1..k + 1 /\ k + 1 > Cleared'
    BY <1>3
  <2> QED
    BY <1>1, <2>1 DEF Pending
<1>5. Kept
  <2> SUFFICES ASSUME NEW n \in 1..k PROVE n \in Live' <=> n \in Live
    BY DEF Kept
  <2>1. n \in 1..k + 1 /\ log'[n] = log[n]
    BY <1>1
  <2> QED
    BY <1>1, <1>3, <2>1, StepFacts DEF Facts, LogFacts, Shows
<1>6. k + 1 \notin Live'
  BY <1>1, <1>2, StepFacts DEF Facts, LogFacts, Shows
<1> QED
  BY <1>4, <1>5, <1>6

\* Something is shown, and nothing is cleared by it.
LEMMA ShowsMore ==
  ASSUME log \in Seq(Messages), NEW m \in Messages, log' = Append(log, m),
         Shows(m), ~Pending, NEW k \in Nat, k = Len(log)
  PROVE  ~Pending' /\ Kept /\ k + 1 \in Live'
<1>1. /\ Len(log') = k + 1 /\ log'[k + 1] = m /\ \A n \in 1..k : log'[n] = log[n]
  BY LogGrows
<1>2. Cleared' = Cleared /\ Cleared \in 0..k
  <2>1. /\ Cleared \in 0..k /\ (Cleared # 0 => Effective(Cleared))
        /\ \A c : Effective(c) => c <= Cleared
    BY StepFacts DEF Facts, LogFacts
  <2>2. PICK x \in 0..k : /\ x = Cleared /\ (x # 0 => Effective(x))
                          /\ \A c : Effective(c) => c <= x
    BY <2>1
  <2>3. x \in 0..k + 1 /\ (x = 0 \/ Effective(x)')
    BY <2>2, EffectiveStep
  <2>4. ASSUME NEW c, Effective(c)' PROVE c <= x
    <3>1. c \in 1..k + 1 /\ c # k + 1
      BY <2>4, EffectiveStep DEF Shows
    <3>2. c \in 1..k /\ log[c].type = "clear"
      BY <2>4, <3>1, EffectiveStep
    <3>3. ~(c > Cleared)
      BY <3>2 DEF Pending
    <3> QED
      BY <2>2, <3>2, <3>3
  <2>5. Cleared' = x
    BY <1>1, <2>3, <2>4, StepFacts DEF Facts, LogFacts
  <2> QED
    BY <2>2, <2>5
<1>3. ~Pending'
  <2> SUFFICES ASSUME NEW c \in 1..k + 1, c > Cleared, log'[c].type = "clear" PROVE FALSE
    BY <1>1, <1>2 DEF Pending
  <2>1. c # k + 1
    BY <1>1 DEF Shows
  <2>2. c \in 1..k
    BY <2>1
  <2> QED
    BY <1>1, <2>2 DEF Pending
<1>4. Kept
  <2> SUFFICES ASSUME NEW n \in 1..k PROVE n \in Live' <=> n \in Live
    BY DEF Kept
  <2>1. n \in 1..k + 1 /\ log'[n] = log[n]
    BY <1>1
  <2> QED
    BY <1>1, <1>2, <2>1, StepFacts DEF Facts, LogFacts, Shows
<1>5. k + 1 \in Live'
  <2>1. k + 1 \in 1..k + 1 /\ k + 1 > Cleared'
    BY <1>2
  <2> QED
    BY <1>1, <2>1, StepFacts DEF Facts, LogFacts, Shows
<1> QED
  BY <1>3, <1>4, <1>5

\* Something is shown after clears that wait: all before it is cleared.
LEMMA ShowsAlone ==
  ASSUME log \in Seq(Messages), NEW m \in Messages, log' = Append(log, m),
         Shows(m), Pending, NEW k \in Nat, k = Len(log)
  PROVE  /\ ~Pending' /\ k # 0 /\ log[k].type = "clear"
         /\ \A n : n \in Live' <=> n = k + 1
<1>1. /\ Len(log') = k + 1 /\ log'[k + 1] = m /\ \A n \in 1..k : log'[n] = log[n]
  BY LogGrows
<1>2. PICK c \in 1..k : c > Cleared /\ log[c].type = "clear"
  BY DEF Pending
<1>3. ~Effective(c)
  <2>1. \A x : Effective(x) => x <= Cleared /\ Cleared \in 0..k
    BY StepFacts DEF Facts, LogFacts
  <2> QED
    BY <1>2, <2>1
<1>4. \A n \in c + 1..k : ~Shows(log[n])
  BY <1>2, <1>3 DEF Effective
<1>5. \A x \in 1..k : log[x].type = "clear" => x <= Cleared'
  BY EffectiveStep, StepFacts DEF Facts, LogFacts
<1>6. c <= Cleared' /\ Cleared' \in 0..k + 1 /\ Cleared' # k + 1
  <2>1. c <= Cleared' /\ Cleared' \in 0..k + 1
    BY <1>1, <1>2, <1>5, StepFacts DEF Facts, LogFacts
  <2>2. ~Effective(k + 1)'
    BY EffectiveStep DEF Shows
  <2>3. PICK x : x = Cleared' /\ (x # 0 => Effective(x)')
    BY StepFacts DEF Facts, LogFacts
  <2>4. k + 1 # 0
    OBVIOUS
  <2> QED
    BY <2>1, <2>2, <2>3, <2>4
<1>7. ~Pending'
  <2> SUFFICES ASSUME NEW x \in 1..k + 1, x > Cleared', log'[x].type = "clear" PROVE FALSE
    BY <1>1 DEF Pending
  <2>1. x # k + 1
    BY <1>1 DEF Shows
  <2>2. x \in 1..k /\ log[x].type = "clear"
    BY <1>1, <2>1
  <2> QED
    BY <1>5, <1>6, <2>2
<1>8. k # 0 /\ log[k].type = "clear"
  <2>1. k \in 1..k /\ (k = c \/ k \in c + 1..k)
    BY <1>2
  <2> QED
    BY <1>2, <1>4, <2>1 DEF Shows
<1>9. ASSUME NEW n PROVE n \in Live' <=> n = k + 1
  <2>1. n \in Live' <=> n \in 1..k + 1 /\ n > Cleared' /\ Shows(log'[n])
    BY <1>1, StepFacts DEF Facts, LogFacts, Shows
  <2>2. CASE n = k + 1
    <3>1. n \in 1..k + 1 /\ n > Cleared'
      BY <1>6, <2>2
    <3> QED
      BY <1>1, <2>1, <2>2, <3>1
  <2>3. CASE n # k + 1
    <3> SUFFICES ASSUME n \in 1..k + 1, n > Cleared', Shows(log'[n]) PROVE FALSE
      BY <2>1, <2>3
    <3>1. n \in 1..k /\ n \in c + 1..k
      BY <1>6, <2>3
    <3>2. log'[n] = log[n]
      BY <1>1, <3>1
    <3> QED
      BY <1>4, <3>1, <3>2
  <2> QED
    BY <2>2, <2>3
<1> QED
  BY <1>7, <1>8, <1>9

-----------------------------------------------------------------------------
(***************************************************************************)
(* All that is shown, and how a message changes it.                        *)
(***************************************************************************)
ShownItems == FlattenSeq([n \in 1..Len(log) |-> SlotItems(n)])

LEMMA ShownIs ==
  ASSUME log \in Seq(Messages), NEW m \in Messages, log' = Append(log, m),
         NEW k \in Nat, k = Len(log)
  PROVE  LET f == [n \in 1..k |-> SlotItems(n)]
             g == [n \in 1..k |-> SlotItems(n)']
         IN /\ f \in [1..k -> Seq(Item)] /\ g \in [1..k -> Seq(Item)]
            /\ ShownItems = Upto(f, k) /\ ShownItems \in Seq(Item)
            /\ Upto(g, k) \in Seq(Item) /\ SlotItems(k + 1)' \in Seq(Item)
            /\ ShownItems' = Upto(g, k) \o SlotItems(k + 1)'
<1>1. Len(log') = k + 1 /\ k + 1 \in Nat
  BY LogGrows
<1>2. PICK f : f = [n \in 1..k |-> SlotItems(n)]
  OBVIOUS
<1>3. PICK g : g = [n \in 1..k |-> SlotItems(n)']
  OBVIOUS
<1>4. PICK h : h = [n \in 1..k + 1 |-> SlotItems(n)']
  OBVIOUS
<1>5. /\ \A n \in 1..k : SlotItems(n) \in Seq(Item)
      /\ \A n \in 1..k + 1 : SlotItems(n)' \in Seq(Item)
  BY <1>1, StepFacts DEF Facts, SlotFacts
<1>6. f \in [1..k -> Seq(Item)]
  BY <1>2, <1>5
<1>7. h \in [1..k + 1 -> Seq(Item)]
  BY <1>4, <1>5
<1>8. g \in [1..k -> Seq(Item)] /\ \A n \in 1..k : h[n] = g[n]
  <2>1. \A n \in 1..k : n \in 1..k + 1
    OBVIOUS
  <2>2. g \in [1..k -> Seq(Item)]
    BY <1>3, <1>5, <2>1
  <2>3. \A n \in 1..k : h[n] = g[n]
    BY <1>3, <1>4, <2>1
  <2> QED
    BY <2>2, <2>3
<1>9. ShownItems = Upto(f, k) /\ ShownItems \in Seq(Item)
  <2>1. ShownItems = FlattenSeq(f)
    BY <1>2 DEF ShownItems
  <2>2. Upto(f, k) = FlattenSeq(f)
    BY <1>6, UptoIs
  <2>3. k <= k
    OBVIOUS
  <2>4. Upto(f, k) \in Seq(Item)
    BY Zenon, <1>6, <2>3, UptoIs
  <2> QED
    BY <2>1, <2>2, <2>4
<1>10. Upto(h, k) = Upto(g, k) /\ Upto(g, k) \in Seq(Item)
  <2>1. Upto(h, k) = Upto(g, k)
    BY <1>8, UptoSame
  <2>2. k <= k
    OBVIOUS
  <2>3. Upto(g, k) \in Seq(Item)
    BY Zenon, <1>8, <2>2, UptoIs
  <2> QED
    BY <2>1, <2>3
<1>11. ShownItems' = FlattenSeq(h)
  BY <1>1, <1>4 DEF ShownItems
<1>12. Upto(h, k + 1) = FlattenSeq(h) /\ Upto(h, k + 1) = Upto(h, k) \o h[k + 1]
  <2>1. k + 1 <= k + 1
    OBVIOUS
  <2> QED
    <3>1. PICK n \in Nat : n = k + 1
      OBVIOUS
    <3>2. h \in [1..n -> Seq(Item)]
      BY <1>7, <3>1
    <3>3. /\ Upto(h, n) = FlattenSeq(h)
          /\ \A j \in Nat : j + 1 <= n => Upto(h, j + 1) = Upto(h, j) \o h[j + 1]
      BY Zenon, <3>2, UptoIs
    <3> QED
      BY <2>1, <3>1, <3>3
<1>13. h[k + 1] = SlotItems(k + 1)' /\ h[k + 1] \in Seq(Item)
  <2>1. k + 1 \in 1..k + 1
    OBVIOUS
  <2> QED
    BY <1>4, <1>5, <2>1
<1>14. ShownItems' = Upto(g, k) \o SlotItems(k + 1)'
  BY Zenon, <1>10, <1>11, <1>12, <1>13
<1>15. SlotItems(k + 1)' \in Seq(Item)
  BY Zenon, <1>13
<1> QED
  BY Zenon, <1>2, <1>3, <1>6, <1>8, <1>9, <1>10, <1>14, <1>15

\* What is there comes from a slot.
LEMMA ShownFrom ==
  ASSUME log \in Seq(Messages), NEW m \in Messages, log' = Append(log, m),
         NEW k \in Nat, k = Len(log), NEW j \in 1..Len(ShownItems)
  PROVE  \E i \in Slots : i \in 1..k /\ ShownItems[j].id = log[i].id
<1>1. PICK f \in [1..k -> Seq(Item)] : f = [n \in 1..k |-> SlotItems(n)]
  BY ShownIs
<1>2. ShownItems = Upto(f, k)
  BY <1>1, ShownIs
<1>3. Among(f, 1, k, Upto(f, k)[j])
  BY <1>2, FlattenMember
<1>4. PICK i \in 1..k : \E h \in 1..Len(f[i]) : Upto(f, k)[j] = f[i][h]
  BY <1>3 DEF Among
<1>5. PICK h \in 1..Len(f[i]) : Upto(f, k)[j] = f[i][h]
  BY <1>4
<1>6. f[i] = SlotItems(i)
  BY <1>1
<1>7. SlotItems(i)[h].id = log[i].id /\ i \in Slots
  BY <1>6, StepFacts DEF Facts, SlotFacts
<1> QED
  BY <1>2, <1>6, <1>7, <1>5

\* Nothing before it changes.
LEMMA ShownMore ==
  ASSUME log \in Seq(Messages), NEW m \in Messages, log' = Append(log, m),
         NEW k \in Nat, k = Len(log), \A n \in 1..k : SlotItems(n)' = SlotItems(n)
  PROVE  ShownItems' = ShownItems \o SlotItems(k + 1)'
<1>1. [n \in 1..k |-> SlotItems(n)] = [n \in 1..k |-> SlotItems(n)']
  OBVIOUS
<1>2. PICK f : f = [n \in 1..k |-> SlotItems(n)]
  OBVIOUS
<1>3. ShownItems = Upto(f, k)
  BY <1>2, ShownIs
<1>4. ShownItems' = Upto(f, k) \o SlotItems(k + 1)'
  BY <1>1, <1>2, ShownIs
<1> QED
  BY <1>3, <1>4

\* All before it is cleared.
LEMMA ShownAnew ==
  ASSUME log \in Seq(Messages), NEW m \in Messages, log' = Append(log, m),
         NEW k \in Nat, k = Len(log), \A n \in 1..k : SlotItems(n)' = <<>>
  PROVE  ShownItems' = SlotItems(k + 1)'
<1>1. PICK g \in [1..k -> Seq(Item)] : g = [n \in 1..k |-> SlotItems(n)']
  BY ShownIs
<1>2. ShownItems' = Upto(g, k) \o SlotItems(k + 1)' /\ SlotItems(k + 1)' \in Seq(Item)
  BY <1>1, ShownIs
<1>3. Upto(g, k) = <<>>
  <2>1. 0 \in 0..k /\ \A i \in 0 + 1..k : g[i] = <<>>
    BY <1>1
  <2>2. Upto(g, k) = Upto(g, 0)
    BY Zenon, <2>1, UptoNone
  <2>3. Upto(g, 0) = <<>>
    BY UptoIs
  <2> QED
    BY <2>2, <2>3
<1> QED
  BY <1>2, <1>3, ConcatEmptySeq

\* x, what slot t shows, is at p, and y takes its place.
TookPlace(t, x, y, p) ==
  /\ p \in 1..Len(ShownItems) /\ ShownItems[p] = x
  /\ ShownItems' = [ShownItems EXCEPT ![p] = y]
  /\ (\A i \in t + 1..Len(log) : SlotItems(i) = <<>>) => p = Len(ShownItems)
  /\ \A j \in p + 1..Len(ShownItems) :
       \E i \in Slots : i \in t + 1..Len(log) /\ ShownItems[j].id = log[i].id

LEMMA ShownReplaced ==
  ASSUME log \in Seq(Messages), NEW m \in Messages, log' = Append(log, m),
         NEW k \in Nat, k = Len(log), NEW t \in 1..k, NEW x \in Item, NEW y \in Item,
         SlotItems(t) = <<x>>, SlotItems(t)' = <<y>>, SlotItems(k + 1)' = <<>>,
         \A n \in 1..k : n # t => SlotItems(n)' = SlotItems(n)
  PROVE  \E p : TookPlace(t, x, y, p)
<1>1. PICK f \in [1..k -> Seq(Item)] : f = [n \in 1..k |-> SlotItems(n)]
  BY ShownIs
<1>2. PICK g \in [1..k -> Seq(Item)] : g = [n \in 1..k |-> SlotItems(n)']
  BY ShownIs
<1>3. ShownItems = Upto(f, k) /\ ShownItems' = Upto(g, k) /\ Upto(g, k) \in Seq(Item)
  <2>1. /\ ShownItems = Upto(f, k) /\ Upto(g, k) \in Seq(Item)
        /\ ShownItems' = Upto(g, k) \o SlotItems(k + 1)'
    BY <1>1, <1>2, ShownIs
  <2>2. Upto(g, k) \o <<>> = Upto(g, k)
    BY <2>1, ConcatEmptySeq
  <2> QED
    BY <2>1, <2>2
<1>4. f[t] = <<x>> /\ g[t] = <<y>> /\ \A i \in 1..k : i # t => g[i] = f[i]
  BY <1>1, <1>2
<1>5. PICK p : Replaced(f, g, k, t, x, y, p)
  BY <1>4, UptoReplaced
<1>6. /\ p \in 1..Len(Upto(f, k)) /\ p = Len(Upto(f, t)) /\ Upto(f, k)[p] = x
      /\ Upto(g, k) = [Upto(f, k) EXCEPT ![p] = y]
      /\ \A j \in p + 1..Len(Upto(f, k)) : Among(f, t + 1, k, Upto(f, k)[j])
  BY <1>5 DEF Replaced
<1>7. ASSUME \A i \in t + 1..k : SlotItems(i) = <<>> PROVE p = Len(ShownItems)
  <2>1. PICK j \in 0..k : j = t
    OBVIOUS
  <2>2. \A i \in j + 1..k : f[i] = <<>>
    BY <1>1, <1>7, <2>1
  <2>3. Upto(f, k) = Upto(f, j)
    BY <2>2, UptoNone
  <2>4. Upto(f, k) = Upto(f, t)
    BY <2>1, <2>3
  <2> QED
    BY <1>3, <1>6, <2>4
<1>8. ASSUME NEW j \in p + 1..Len(ShownItems)
      PROVE  \E i \in Slots : i \in t + 1..k /\ ShownItems[j].id = log[i].id
  <2>1. Among(f, t + 1, k, ShownItems[j])
    BY <1>3, <1>6
  <2>2. PICK i \in t + 1..k : \E h \in 1..Len(f[i]) : ShownItems[j] = f[i][h]
    BY <2>1 DEF Among
  <2>3. PICK h \in 1..Len(f[i]) : ShownItems[j] = f[i][h]
    BY <2>2
  <2>4. i \in 1..k /\ f[i] = SlotItems(i)
    BY <1>1
  <2>5. SlotItems(i)[h].id = log[i].id /\ i \in Slots
    BY <2>3, <2>4, StepFacts DEF Facts, SlotFacts
  <2> QED
    BY <2>3, <2>4, <2>5
<1>9. p \in 1..Len(ShownItems) /\ ShownItems[p] = x /\ ShownItems' = [ShownItems EXCEPT ![p] = y]
  BY Zenon, <1>3, <1>6
<1>10. TookPlace(t, x, y, p)
  BY <1>7, <1>8, <1>9 DEF TookPlace
<1> QED
  BY <1>10

LEMMA NewSlot ==
  ASSUME log \in Seq(Messages), NEW m \in Messages, log' = Append(log, m),
         NEW k \in Nat, k = Len(log), k + 1 \in Slots'
  PROVE  SlotItems(k + 1)' = Showing(m, k + 1)
<1>1. Len(log') = k + 1 /\ log'[k + 1] = m /\ log' \in Seq(Messages) /\ k + 1 \in 1..k + 1
  BY LogGrows
<1>2. k + 1 \in Live' /\ \A n : n \in Live' => n \in 1..k + 1
  BY <1>1, StepFacts DEF Facts, LogFacts, Slots
<1>3. CASE m.type = "stream"
  <2>1. Runs(k + 1, k + 1)'
    <3>1. ~\E i \in (k + 1) + 1..k + 1 : TRUE
      OBVIOUS
    <3> QED
      BY <1>2, <3>1 DEF Runs
  <2>2. \A n : Runs(k + 1, n)' => n <= k + 1
    BY <1>2 DEF Runs
  <2>3. RunEnd(k + 1)' = k + 1
    BY <1>2, <2>1, <2>2, StepFacts DEF Facts, RunFacts
  <2>4. SlotItems(k + 1)' = <<[text |-> RunText(log', k + 1, k + 1), id |-> m.id]>>
    BY <1>1, <1>3, <2>3, StepFacts DEF Facts, SlotFacts
  <2>5. PICK l \in Seq(Messages) : l = log'
    BY <1>1
  <2>6. RunText(l, k + 1, k + 1) = Tokens(k + 1, l[k + 1].body[1])
    <3>1. \A n \in k + 1..k + 1 : l[n].type = "stream"
      BY <1>1, <1>3, <2>5
    <3>2. k + 1 \in Nat /\ 1 <= k + 1 /\ k + 1 <= k + 1 /\ k + 1 <= Len(l)
      BY <1>1, <2>5
    <3> QED
      BY <3>1, <3>2, RunTextIs
  <2>7. Showing(m, k + 1) = <<[text |-> Tokens(k + 1, m.body[1]), id |-> m.id]>>
    BY <1>3, BodyOne, ShowingType
  <2> QED
    BY Zenon, <1>1, <2>4, <2>5, <2>6, <2>7
<1>4. CASE m.type # "stream"
  <2>1. \A u : ~Reaches(k + 1, u)'
    BY <1>2 DEF Reaches
  <2>2. Content(k + 1)' = k + 1
    BY <1>1, <2>1, StepFacts DEF Facts, ContentFacts
  <2>3. SlotItems(k + 1)' = Showing(log'[k + 1], k + 1)
    BY <1>1, <1>4, <2>2, StepFacts DEF Facts, SlotFacts
  <2> QED
    BY <1>1, <2>3
<1> QED
  BY <1>3, <1>4

\* Where a run of stream messages begins.
LEMMA StreamBegins ==
  ASSUME log \in Seq(Messages), NEW n \in Live, log[n].type = "stream"
  PROVE  \E s \in Slots : /\ s \in 1..n /\ Runs(s, n) /\ log[s].type = "stream"
                          /\ \A i \in s + 1..n : i \notin Slots
<1> DEFINE U == {s \in 1..n : s \in Live /\ Runs(s, n) /\ log[s].type = "stream"}
<1>1. n \in 1..Len(log) /\ Len(log) \in Nat
  BY LenProperties, LiveIs
<1>2. U \subseteq Nat /\ n \in U
  BY <1>1 DEF Runs
<1>3. PICK s \in U : \A v \in U : s <= v
  <2> HIDE DEF U
  <2> QED
    BY <1>2, Least
<1>4. ~Joins(s)
  <2> SUFFICES ASSUME Joins(s) PROVE FALSE
    OBVIOUS
  <2>1. s - 1 \in Live /\ log[s - 1].type = "stream"
    BY DEF Joins
  <2>2. s - 1 \in 1..Len(log) /\ s - 1 \in 1..n
    BY <1>1, <2>1, LiveIs
  <2>3. Runs(s - 1, n)
    <3>1. \A i \in (s - 1) + 1..n : i = s \/ i \in s + 1..n
      BY <1>1
    <3>2. n >= s - 1
      BY <1>1, <2>2
    <3> QED
      BY <3>1, <3>2 DEF Runs
  <2>4. s - 1 \in U
    BY <2>1, <2>2, <2>3
  <2> QED
    BY <1>1, <1>3, <2>4
<1>5. s \in Slots
  BY <1>4 DEF Slots, Updates
<1>6. \A i \in s + 1..n : i \notin Slots
  BY DEF Runs, Slots
<1> QED
  BY <1>5, <1>6

\* What an update of a display takes the place of.
LEMMA UpdateFinds ==
  ASSUME log \in Seq(Messages), NEW p \in Live, log[p].id # 0
  PROVE  \E t \in Slots : /\ log[t].id = log[p].id /\ log[t].type # "stream"
                          /\ \A i \in Slots : i > t => log[i].id # log[p].id
<1> DEFINE U == {q \in Live : log[q].id = log[p].id}
           S == {q \in Slots : log[q].id = log[p].id}
<1>1. Len(log) \in Nat /\ \A q \in Live : q \in 1..Len(log) /\ log[q] \in Messages
  BY LenProperties, LiveIs, ElementOfSeq
<1>2. U \subseteq Nat /\ p \in U
  BY <1>1
<1>3. PICK u \in U : \A v \in U : u <= v
  <2> HIDE DEF U
  <2> QED
    BY <1>2, Least
<1>4. \A q \in U : log[q].type # "stream"
  BY <1>1, MessageTypes
<1>5. u \in Slots
  <2>1. ~Joins(u)
    BY <1>4 DEF Joins
  <2>2. ~Updates(u)
    <3> SUFFICES ASSUME Updates(u) PROVE FALSE
      OBVIOUS
    <3>1. PICK q \in Live : q < u /\ log[q].id = log[u].id
      BY DEF Updates
    <3>2. q \in U /\ q \in Nat /\ u \in Nat
      BY <1>1, <3>1
    <3> QED
      BY <1>3, <3>1, <3>2
  <2> QED
    BY <2>1, <2>2 DEF Slots
<1>6. S \subseteq Nat /\ S # {} /\ \A x \in S : x <= Len(log)
  BY <1>1, <1>5 DEF Slots
<1>7. PICK t : t = Max(S) /\ t \in S /\ \A x \in S : x <= t
  <2> HIDE DEF S
  <2> QED
    BY <1>1, <1>6, MaxIs
<1>8. t \in U
  BY <1>7 DEF Slots
<1>9. ASSUME NEW i \in Slots, i > t PROVE log[i].id # log[p].id
  <2>1. i \in Nat /\ t \in Nat
    BY <1>1, <1>8 DEF Slots
  <2>2. ~(i <= t)
    BY <1>9, <2>1
  <2> QED
    BY <1>7, <2>2
<1> QED
  BY <1>4, <1>7, <1>8, <1>9

LEMMA StepClears ==
  ASSUME log \in Seq(Messages), NEW m \in Messages, log' = Append(log, m),
         m.type = "clear", ~m.wait
  PROVE  ShownItems' = <<>>
<1>1. PICK k \in Nat : k = Len(log)
  BY LogGrows
<1>2. \A n : SlotItems(n)' = <<>>
  <2>1. \A n : n \notin Slots'
    BY ClearsNow DEF Slots
  <2> QED
    BY <2>1, StepFacts DEF Facts, SlotFacts
<1>3. SlotItems(k + 1)' = <<>> /\ \A n \in 1..k : SlotItems(n)' = <<>>
  BY <1>2
<1> QED
  BY <1>1, <1>3, ShownAnew

LEMMA StepWaits ==
  ASSUME log \in Seq(Messages), NEW m \in Messages, log' = Append(log, m),
         m.type = "clear", m.wait
  PROVE  ShownItems' = ShownItems
<1>1. PICK k \in Nat : k = Len(log)
  BY LogGrows
<1>2. Kept /\ k + 1 \notin Live'
  BY <1>1, ClearWaits
<1>3. \A s \in 1..k : ~Reaches(s, k + 1)' /\ ~Runs(s, k + 1)'
  BY <1>2 DEF Reaches, Runs
<1>4. \A s \in 1..k : SlotItems(s)' = SlotItems(s)
  BY <1>1, <1>2, <1>3, SlotKept
<1>5. SlotItems(k + 1)' = <<>>
  <2>1. k + 1 \notin Slots'
    BY <1>2 DEF Slots
  <2> QED
    BY <2>1, StepFacts DEF Facts, SlotFacts
<1>6. ShownItems' = ShownItems \o <<>> /\ ShownItems \in Seq(Item)
  BY <1>1, <1>4, <1>5, ShownMore, ShownIs
<1> QED
  BY <1>6, ConcatEmptySeq

LEMMA StepAnew ==
  ASSUME log \in Seq(Messages), NEW m \in Messages, log' = Append(log, m),
         Shows(m), Pending, NEW k \in Nat, k = Len(log)
  PROVE  ShownItems' = Showing(m, k + 1)
<1>1. \A n : n \in Live' <=> n = k + 1
  BY ShowsAlone
<1>2. k + 1 \in Slots'
  <2>1. k \notin Live' /\ (k + 1) - 1 = k
    BY <1>1
  <2>2. ~Joins(k + 1)'
    BY <2>1 DEF Joins
  <2>3. ~Updates(k + 1)'
    BY <1>1 DEF Updates
  <2> QED
    BY <1>1, <2>2, <2>3 DEF Slots
<1>3. \A n \in 1..k : SlotItems(n)' = <<>>
  <2>1. \A n \in 1..k : n # k + 1
    OBVIOUS
  <2>2. \A n \in 1..k : n \notin Slots'
    BY <1>1, <2>1 DEF Slots
  <2> QED
    BY <2>2, StepFacts DEF Facts, SlotFacts
<1> QED
  BY <1>2, <1>3, NewSlot, ShownAnew

LEMMA StepAdds ==
  ASSUME log \in Seq(Messages), NEW m \in Messages, log' = Append(log, m),
         Shows(m), ~Pending, NEW k \in Nat, k = Len(log), ~Joins(k + 1)', ~Updates(k + 1)'
  PROVE  /\ ShownItems' = ShownItems \o Showing(m, k + 1)
         /\ m.type = "update" /\ m.id # 0 =>
              \A j \in 1..Len(ShownItems) : ShownItems[j].id # m.id
<1>1. /\ Len(log') = k + 1 /\ log'[k + 1] = m /\ \A n \in 1..k : log'[n] = log[n]
  BY LogGrows
<1>2. Kept /\ k + 1 \in Live'
  BY ShowsMore
<1>3. k + 1 \in Slots'
  BY <1>2 DEF Slots
<1>4. \A s \in 1..k : ~Reaches(s, k + 1)' /\ ~Runs(s, k + 1)'
  <2>1. \A s \in 1..k : k + 1 \in s + 1..k + 1
    OBVIOUS
  <2> QED
    BY <2>1 DEF Reaches, Runs
<1>5. \A s \in 1..k : SlotItems(s)' = SlotItems(s)
  BY <1>2, <1>4, SlotKept
<1>6. ShownItems' = ShownItems \o Showing(m, k + 1)
  BY <1>3, <1>5, NewSlot, ShownMore
<1>7. ASSUME m.type = "update", m.id # 0, NEW j \in 1..Len(ShownItems)
      PROVE  ShownItems[j].id # m.id
  <2> SUFFICES ASSUME ShownItems[j].id = m.id PROVE FALSE
    OBVIOUS
  <2>1. PICK i \in Slots : i \in 1..k /\ ShownItems[j].id = log[i].id
    BY ShownFrom
  <2>2. i \in Live' /\ i < k + 1 /\ log'[i].id = m.id
    BY <1>1, <1>2, <2>1 DEF Slots, Kept
  <2> QED
    BY <1>1, <1>7, <2>2 DEF Updates
<1> QED
  BY <1>6, <1>7

\* The rest of a run goes to the output that shows it.
LEMMA StepJoins ==
  ASSUME log \in Seq(Messages), NEW m \in Messages, log' = Append(log, m),
         Shows(m), ~Pending, NEW k \in Nat, k = Len(log), Joins(k + 1)'
  PROVE  \E p \in 1..Len(ShownItems) :
           /\ p = Len(ShownItems)
           /\ ShownItems' = [ShownItems EXCEPT ![p] =
                [text |-> ShownItems[p].text \o Tokens(k + 1, m.body[1]),
                 id |-> ShownItems[p].id]]
<1>1. /\ Len(log') = k + 1 /\ log'[k + 1] = m /\ \A n \in 1..k : log'[n] = log[n]
      /\ log' \in Seq(Messages)
  BY LogGrows
<1>2. Kept /\ k + 1 \in Live'
  BY ShowsMore
<1>3. m.type = "stream" /\ k \in Live' /\ log'[k].type = "stream" /\ log'[k].name = m.name
  <2>1. (k + 1) - 1 = k
    OBVIOUS
  <2> QED
    BY <1>1, <2>1 DEF Joins
<1>4. k \in 1..k /\ k \in Live /\ log[k].type = "stream"
  <2>1. k \in 1..k + 1
    BY <1>1, <1>3, StepFacts DEF Facts, LogFacts
  <2>2. k \in 1..k
    BY <2>1
  <2> QED
    BY <1>1, <1>2, <1>3, <2>2 DEF Kept
<1>5. PICK t \in Slots : /\ t \in 1..k /\ Runs(t, k) /\ log[t].type = "stream"
                         /\ \A i \in t + 1..k : i \notin Slots
  BY <1>4, StreamBegins
<1>6. t \in Live /\ t \in Live' /\ t \in Slots'
  BY <1>2, <1>5, KeptIs DEF Slots, Kept
<1>7. RunEnd(t) = k
  <2>1. \A n : Runs(t, n) => n <= k
    BY StepFacts DEF Runs, Facts, LogFacts
  <2> QED
    BY <1>5, <1>6, <2>1, StepFacts DEF Facts, RunFacts
<1>8. RunEnd(t)' = k + 1
  <2>1. Runs(t, k + 1)'
    <3>1. Runs(t, k)'
      BY <1>2, <1>4, <1>5, KeptIs
    <3>2. \A i \in t + 1..k + 1 : i = k + 1 \/ i \in t + 1..k
      OBVIOUS
    <3>3. k + 1 >= t
      BY <1>5
    <3> QED
      BY <1>2, <3>1, <3>2, <3>3 DEF Runs
  <2>2. \A n : Runs(t, n)' => n <= k + 1
    BY <1>1, StepFacts DEF Runs, Facts, LogFacts
  <2> QED
    BY <1>6, <2>1, <2>2, StepFacts DEF Facts, RunFacts
<1>9. PICK a, b : a = RunText(log, t, k) /\ b = RunText(log', t, k + 1)
  OBVIOUS
<1>10. SlotItems(t) = <<[text |-> a, id |-> log[t].id]>>
       /\ \A n \in t..k : log[n].type = "stream"
  BY <1>5, <1>7, <1>9, StepFacts DEF Facts, SlotFacts
<1>11. SlotItems(t)' = <<[text |-> b, id |-> log[t].id]>>
  <2>1. log'[t] = log[t]
    BY <1>1, <1>5
  <2> QED
    BY <1>5, <1>6, <1>8, <1>9, <2>1, StepFacts DEF Facts, SlotFacts
<1>12. a \in Words /\ b \in Words /\ b = a \o Tokens(k + 1, m.body[1])
  <2>1. PICK h \in Seq(Messages) : h = log'
    BY <1>1
  <2>2. PICK l \in Seq(Messages) : l = log
    OBVIOUS
  <2>3. t \in Nat /\ 1 <= t /\ t <= k /\ k <= Len(l) /\ k \in Nat
    BY <1>5, <2>2
  <2>4. \A n \in t..k : h[n] = l[n]
    <3>1. \A n \in t..k : n \in 1..k
      BY <2>3
    <3> QED
      BY <1>1, <2>1, <2>2, <3>1
  <2>5. RunText(h, t, k) = RunText(l, t, k)
    BY <2>3, <2>4, RunTextSame
  <2>6. RunText(l, t, k) \in Words
    BY <1>10, <2>2, <2>3, RunTextIs
  <2>7. \A n \in t..k + 1 : h[n].type = "stream"
    <3>1. \A n \in t..k + 1 : n = k + 1 \/ n \in t..k
      <4> SUFFICES ASSUME NEW n \in t..k + 1, n # k + 1 PROVE n \in t..k
        OBVIOUS
      <4>1. PICK a1, a2 \in Nat : a1 = t /\ a2 = k
        BY <2>3
      <4>2. n \in a1..a2 + 1 /\ n # a2 + 1
        BY Zenon, <4>1
      <4>3. n \in a1..a2
        BY <4>2
      <4> QED
        BY Zenon, <4>1, <4>3
    <3> QED
      BY <1>1, <1>3, <1>10, <2>1, <2>2, <2>4, <3>1
  <2>8. t < k + 1 /\ t <= k + 1 /\ k + 1 <= Len(h) /\ k + 1 \in Nat /\ (k + 1) - 1 = k
    BY <1>1, <2>1, <2>3
  <2>9. /\ RunText(h, t, k + 1) \in Words
        /\ RunText(h, t, k + 1) = RunText(h, t, (k + 1) - 1) \o Tokens(k + 1, h[k + 1].body[1])
    BY <2>3, <2>7, <2>8, RunTextIs
  <2> QED
    BY <1>1, <1>9, <2>1, <2>2, <2>5, <2>6, <2>8, <2>9
<1>13. PICK id \in Nat : id = log[t].id
  <2>1. log[t] \in Messages
    BY <1>5, LogGrows
  <2> QED
    BY <2>1, MessageTypes DEF Message
<1>14. PICK x \in Item : x = [text |-> a, id |-> id] /\ SlotItems(t) = <<x>>
  BY <1>10, <1>12, <1>13 DEF Item
<1>15. PICK y \in Item : y = [text |-> b, id |-> id] /\ SlotItems(t)' = <<y>>
  BY <1>11, <1>12, <1>13 DEF Item
<1>16. SlotItems(k + 1)' = <<>>
  <2>1. k + 1 \notin Slots'
    BY DEF Slots
  <2> QED
    BY <2>1, StepFacts DEF Facts, SlotFacts
<1>17. \A i \in t + 1..k : SlotItems(i) = <<>>
  BY <1>5, StepFacts DEF Facts, SlotFacts
<1>18. \A n \in 1..k : n # t => SlotItems(n)' = SlotItems(n)
  <2> SUFFICES ASSUME NEW n \in 1..k, n # t PROVE SlotItems(n)' = SlotItems(n)
    OBVIOUS
  <2>1. CASE n \notin Slots
    <3>1. n \notin Slots'
      BY <1>2, <2>1, KeptIs
    <3> QED
      BY <2>1, <3>1, StepFacts DEF Facts, SlotFacts
  <2>2. CASE n \in Slots
    <3>1. n < t
      <4>1. ~(n \in t + 1..k)
        BY <1>5, <2>2
      <4> QED
        BY <1>5, <4>1
    <3>2. ~Runs(n, k + 1)'
      <4>1. t \in n + 1..k + 1
        BY <1>5, <3>1
      <4>2. ~Joins(t)'
        BY <1>6 DEF Slots
      <4> QED
        BY <4>1, <4>2 DEF Runs
    <3>3. ~Reaches(n, k + 1)'
      BY <1>1, <1>3 DEF Reaches, Updates
    <3> QED
      BY <1>2, <3>2, <3>3, SlotKept
  <2> QED
    BY <2>1, <2>2
<1>19. PICK p : TookPlace(t, x, y, p)
  BY <1>5, <1>14, <1>15, <1>16, <1>18, ShownReplaced
<1>20. /\ p \in 1..Len(ShownItems) /\ p = Len(ShownItems)
       /\ ShownItems[p] = x /\ ShownItems' = [ShownItems EXCEPT ![p] = y]
  BY <1>17, <1>19 DEF TookPlace
<1>21. y = [text |-> ShownItems[p].text \o Tokens(k + 1, m.body[1]), id |-> ShownItems[p].id]
  BY <1>12, <1>14, <1>15, <1>20
<1> QED
  BY <1>20, <1>21

\* An update is shown in the place of the last of its display.
LEMMA StepUpdates ==
  ASSUME log \in Seq(Messages), NEW m \in Messages, log' = Append(log, m),
         Shows(m), ~Pending, NEW k \in Nat, k = Len(log), Updates(k + 1)',
         Len(m.body) = 1, \A n \in 1..k : log[n].id # 0 => Len(log[n].body) = 1
  PROVE  \E p \in 1..Len(ShownItems) :
           /\ ShownItems[p].id = m.id /\ m.type = "update" /\ m.id # 0
           /\ \A j \in p + 1..Len(ShownItems) : ShownItems[j].id # m.id
           /\ ShownItems' = [ShownItems EXCEPT ![p] =
                [text |-> Tokens(k + 1, m.body[1]), id |-> m.id]]
<1>1. /\ Len(log') = k + 1 /\ log'[k + 1] = m /\ \A n \in 1..k : log'[n] = log[n]
      /\ log' \in Seq(Messages) /\ \A n \in 1..k : log[n] \in Messages
  BY LogGrows
<1>2. Kept /\ k + 1 \in Live'
  BY ShowsMore
<1>3. /\ m.type = "update" /\ m.id # 0
      /\ \E q \in Live' : q < k + 1 /\ log'[q].id = m.id
  BY <1>1 DEF Updates
<1>4. PICK q \in Live : q \in 1..k /\ log[q].id = m.id
  <2>1. PICK q \in Live' : q < k + 1 /\ log'[q].id = m.id
    BY <1>3
  <2>2. q \in 1..k + 1
    BY <1>1, <2>1, StepFacts DEF Facts, LogFacts
  <2>3. q \in 1..k
    BY <2>1, <2>2
  <2> QED
    BY <1>1, <1>2, <2>1, <2>3 DEF Kept
<1>5. PICK t \in Slots : /\ log[t].id = m.id /\ log[t].type # "stream"
                         /\ \A i \in Slots : i > t => log[i].id # m.id
  BY <1>3, <1>4, UpdateFinds
<1>6. t \in 1..k /\ t \in Slots' /\ log'[t] = log[t]
  <2>1. t \in 1..k
    BY <1>1, StepFacts DEF Slots, Facts, LogFacts
  <2> QED
    BY <1>1, <1>2, <1>5, <2>1, KeptIs
<1>7. \A n \in Slots' : n \in 1..k => n \in Slots
  BY <1>2, KeptIs
<1>8. Reaches(t, k + 1)'
  <2>1. k + 1 > t
    BY <1>6
  <2>2. \A s \in Slots' : t < s /\ s < k + 1 => log'[s].id # log'[t].id
    <3> SUFFICES ASSUME NEW s \in Slots', t < s, s < k + 1 PROVE log'[s].id # log'[t].id
      OBVIOUS
    <3>1. s \in 1..k + 1
      BY <1>1, StepFacts DEF Slots, Facts, LogFacts
    <3>2. s \in 1..k /\ s > t
      BY <1>6, <3>1
    <3>3. s \in Slots /\ log'[s] = log[s]
      BY <1>1, <1>7, <3>2
    <3> QED
      BY <1>5, <1>6, <3>2, <3>3
  <2> QED
    BY <1>1, <1>2, <1>5, <1>6, <2>1, <2>2 DEF Reaches
<1>9. Content(t)' = k + 1
  <2>1. \A u : Reaches(t, u)' => u <= k + 1
    BY <1>1, StepFacts DEF Reaches, Facts, LogFacts
  <2>2. t <= k + 1 /\ t \in 1..k + 1
    BY <1>6
  <2> QED
    BY <1>1, <1>8, <2>1, <2>2, StepFacts DEF Facts, ContentFacts
<1>10. PICK c \in 1..k : c = Content(t) /\ log[c].id = m.id /\ Len(log[c].body) = 1
  <2>1. Content(t) \in 1..k
    BY <1>6, StepFacts DEF Facts, ContentFacts
  <2>2. log[Content(t)].id = m.id
    BY <1>5, StepFacts DEF Facts, SlotFacts
  <2> QED
    BY <1>3, <2>1, <2>2
<1>11. PICK x \in Item : SlotItems(t) = <<x>> /\ x.id = m.id
  <2>1. SlotItems(t) = Showing(log[c], c)
    BY <1>5, <1>10, StepFacts DEF Facts, SlotFacts
  <2>2. log[c] \in Messages /\ c \in Nat
    BY <1>1
  <2>3. Showing(log[c], c) = <<[text |-> Tokens(c, log[c].body[1]), id |-> m.id]>>
    BY <1>10, <2>2, ShowingType
  <2>4. SlotItems(t) \in Seq(Item)
    BY <1>6, StepFacts DEF Facts, SlotFacts
  <2>5. PICK x : x = [text |-> Tokens(c, log[c].body[1]), id |-> m.id]
    OBVIOUS
  <2>6. SlotItems(t) = <<x>> /\ x.id = m.id
    BY <2>1, <2>3, <2>5
  <2>7. <<x>> \in Seq(Item)
    BY <2>4, <2>6
  <2>8. x \in Item
    <3>1. 1 \in 1..Len(<<x>>) /\ <<x>>[1] = x
      OBVIOUS
    <3> QED
      BY <2>7, <3>1, ElementOfSeq
  <2> QED
    BY <2>6, <2>8
<1>12. PICK y \in Item : y = [text |-> Tokens(k + 1, m.body[1]), id |-> m.id]
                         /\ SlotItems(t)' = <<y>>
  <2>1. SlotItems(t)' = Showing(m, k + 1)
    BY <1>1, <1>5, <1>6, <1>9, StepFacts DEF Facts, SlotFacts
  <2>2. Showing(m, k + 1) = <<[text |-> Tokens(k + 1, m.body[1]), id |-> m.id]>>
    BY ShowingType
  <2>3. m.body[1] \in Part /\ m.id \in Nat /\ k + 1 \in Nat
    <3>1. m.body \in Seq(Part) /\ 1 \in 1..Len(m.body) /\ m \in Message
      BY MessageTypes
    <3> QED
      BY <3>1, ElementOfSeq DEF Message
  <2>4. Tokens(k + 1, m.body[1]) \in Words
    BY <2>3, TokensType
  <2> QED
    BY <2>1, <2>2, <2>3, <2>4 DEF Item
<1>13. SlotItems(k + 1)' = <<>>
  <2>1. k + 1 \notin Slots'
    BY DEF Slots
  <2> QED
    BY <2>1, StepFacts DEF Facts, SlotFacts
<1>14. \A n \in 1..k : n # t => SlotItems(n)' = SlotItems(n)
  <2> SUFFICES ASSUME NEW n \in 1..k, n # t PROVE SlotItems(n)' = SlotItems(n)
    OBVIOUS
  <2>1. CASE n \notin Slots
    <3>1. n \notin Slots'
      BY <1>2, <2>1, KeptIs
    <3> QED
      BY <2>1, <3>1, StepFacts DEF Facts, SlotFacts
  <2>2. CASE n \in Slots
    <3>1. ~Runs(n, k + 1)'
      <4>1. k + 1 \in n + 1..k + 1
        OBVIOUS
      <4>2. ~Joins(k + 1)'
        BY <1>1, <1>3 DEF Joins
      <4> QED
        BY <4>1, <4>2 DEF Runs
    <3>2. ~Reaches(n, k + 1)'
      <4> SUFFICES ASSUME Reaches(n, k + 1)' PROVE FALSE
        OBVIOUS
      <4>1. log[n].id = m.id
        BY <1>1 DEF Reaches
      <4>2. ~(n > t)
        BY <1>5, <2>2, <4>1
      <4>3. n < t /\ t < k + 1
        BY <1>6, <4>2
      <4>4. log'[t].id # log'[n].id
        BY <1>6, <4>3 DEF Reaches
      <4> QED
        BY <1>1, <1>5, <1>6, <4>1, <4>4
    <3> QED
      BY <1>2, <3>1, <3>2, SlotKept
  <2> QED
    BY <2>1, <2>2
<1>15. PICK p : TookPlace(t, x, y, p)
  BY <1>6, <1>11, <1>12, <1>13, <1>14, ShownReplaced
<1>16. /\ p \in 1..Len(ShownItems)
       /\ ShownItems[p] = x /\ ShownItems' = [ShownItems EXCEPT ![p] = y]
       /\ \A j \in p + 1..Len(ShownItems) :
            \E i \in Slots : i \in t + 1..k /\ ShownItems[j].id = log[i].id
  BY <1>15 DEF TookPlace
<1>17. ASSUME NEW j \in p + 1..Len(ShownItems) PROVE ShownItems[j].id # m.id
  <2>1. PICK i \in Slots : i \in t + 1..k /\ ShownItems[j].id = log[i].id
    BY <1>16
  <2>2. i > t
    BY <1>6, <2>1
  <2> QED
    BY <1>5, <2>1, <2>2
<1> QED
  BY <1>3, <1>11, <1>12, <1>16, <1>17

(***************************************************************************)
(* The texts of what is shown.                                             *)
(***************************************************************************)
TextsIn(items) == [i \in 1..Len(items) |-> items[i].text]

LEMMA TextsInType ==
  ASSUME NEW a \in Seq(Item)
  PROVE  /\ TextsIn(a) \in Seq(Words) /\ Len(TextsIn(a)) = Len(a)
         /\ \A i \in 1..Len(a) : TextsIn(a)[i] = a[i].text
<1>1. Len(a) \in Nat /\ \A i \in 1..Len(a) : a[i] \in Item
  BY LenProperties, ElementOfSeq
<1>2. \A i \in 1..Len(a) : a[i].text \in Words
  BY <1>1 DEF Item
<1>3. TextsIn(a) \in [1..Len(a) -> Words]
  BY <1>2 DEF TextsIn
<1> QED
  BY <1>1, <1>3 DEF TextsIn

LEMMA TextsInConcat ==
  ASSUME NEW a \in Seq(Item), NEW b \in Seq(Item)
  PROVE  TextsIn(a \o b) = TextsIn(a) \o TextsIn(b)
<1>1. PICK c \in Seq(Item) : c = a \o b
  BY ConcatProperties
<1>2. /\ Len(a) \in Nat /\ Len(b) \in Nat /\ Len(c) = Len(a) + Len(b)
      /\ \A i \in 1..Len(a) + Len(b) : c[i] = IF i <= Len(a) THEN a[i] ELSE b[i - Len(a)]
  BY <1>1, LenProperties, ConcatProperties
<1>3. PICK x \in Seq(Words) : x = TextsIn(a)
  BY TextsInType
<1>4. PICK y \in Seq(Words) : y = TextsIn(b)
  BY TextsInType
<1>5. PICK z \in Seq(Words) : z = TextsIn(c)
  BY TextsInType
<1>6. /\ Len(x) = Len(a) /\ \A i \in 1..Len(a) : x[i] = a[i].text
      /\ Len(y) = Len(b) /\ \A i \in 1..Len(b) : y[i] = b[i].text
      /\ Len(z) = Len(c) /\ \A i \in 1..Len(c) : z[i] = c[i].text
  BY <1>3, <1>4, <1>5, TextsInType
<1>7. PICK w \in Seq(Words) : w = x \o y
  BY ConcatProperties
<1>8. /\ Len(w) = Len(x) + Len(y)
      /\ \A i \in 1..Len(x) + Len(y) : w[i] = IF i <= Len(x) THEN x[i] ELSE y[i - Len(x)]
  BY <1>7, ConcatProperties
<1>9. \A i \in 1..Len(z) : z[i] = w[i]
  <2> SUFFICES ASSUME NEW i \in 1..Len(z) PROVE z[i] = w[i]
    OBVIOUS
  <2>1. i \in 1..Len(a) + Len(b)
    BY <1>2, <1>6
  <2>2. CASE i <= Len(a)
    <3>1. i \in 1..Len(a)
      BY <2>1, <2>2
    <3> QED
      BY <1>2, <1>6, <1>8, <2>1, <2>2, <3>1
  <2>3. CASE ~(i <= Len(a))
    <3>1. i - Len(a) \in 1..Len(b)
      BY <1>2, <2>1, <2>3
    <3>2. z[i] = b[i - Len(a)].text
      BY <1>2, <1>6, <2>1, <2>3
    <3>3. w[i] = y[i - Len(a)]
      BY <1>6, <1>8, <2>1, <2>3
    <3> QED
      BY <1>6, <3>1, <3>2, <3>3
  <2> QED
    BY <2>2, <2>3
<1>10. z = w
  BY <1>2, <1>6, <1>8, <1>9, SeqEqual
<1> QED
  BY <1>1, <1>3, <1>4, <1>5, <1>7, <1>10

LEMMA TextsInUpto ==
  ASSUME NEW n \in Nat, NEW f \in [1..n -> Seq(Item)]
  PROVE  TextsIn(Upto(f, n)) = Upto([i \in 1..n |-> TextsIn(f[i])], n)
<1> DEFINE h == [i \in 1..n |-> TextsIn(f[i])]
           S == {k \in Nat : k <= n => TextsIn(Upto(f, k)) = Upto(h, k)}
<1>1. h \in [1..n -> Seq(Words)] /\ \A i \in 1..n : h[i] = TextsIn(f[i])
  BY TextsInType
<1> HIDE DEF h
<1>2. 0 \in S
  <2>1. Upto(f, 0) = <<>>
    BY UptoIs
  <2>2. Upto(h, 0) = <<>>
    BY <1>1, UptoIs
  <2>3. TextsIn(<<>>) = <<>>
    BY DEF TextsIn
  <2> QED
    BY <2>1, <2>2, <2>3
<1>3. ASSUME NEW k \in Nat, k \in S PROVE k + 1 \in S
  <2> SUFFICES ASSUME k + 1 <= n PROVE TextsIn(Upto(f, k + 1)) = Upto(h, k + 1)
    OBVIOUS
  <2>1. k <= n /\ k + 1 \in 1..n
    OBVIOUS
  <2>2. TextsIn(Upto(f, k)) = Upto(h, k)
    BY <1>3, <2>1
  <2>3. Upto(f, k + 1) = Upto(f, k) \o f[k + 1]
    BY <2>1, UptoIs
  <2>4. Upto(h, k + 1) = Upto(h, k) \o h[k + 1]
    BY <1>1, <2>1, UptoIs
  <2>5. PICK a \in Seq(Item) : a = Upto(f, k)
    BY <2>1, UptoIs
  <2>6. PICK b \in Seq(Item) : b = f[k + 1]
    BY <2>1
  <2>7. TextsIn(a \o b) = TextsIn(a) \o TextsIn(b)
    BY TextsInConcat
  <2>8. h[k + 1] = TextsIn(b)
    BY <1>1, <2>1, <2>6
  <2> QED
    BY Zenon, <2>2, <2>3, <2>4, <2>5, <2>6, <2>7, <2>8
<1> HIDE DEF S
<1>4. Nat \subseteq S
  BY <1>2, <1>3, FromZero
<1>5. n \in S /\ n <= n
  BY <1>4
<1>6. TextsIn(Upto(f, n)) = Upto(h, n)
  BY <1>5 DEF S
<1> QED
  BY <1>6 DEF h

LEMMA SlotTexts ==
  ASSUME log \in Seq(Messages), NEW n
  PROVE  TextsIn(SlotItems(n)) = IF n \in Slots THEN SlotShows(n) ELSE <<>>
<1>1. CASE n \notin Slots
  <2>1. SlotItems(n) = <<>> /\ TextsIn(<<>>) = <<>>
    BY <1>1 DEF SlotItems, TextsIn
  <2> QED
    BY <1>1, <2>1
<1>2. CASE n \in Slots
  <2>1. PICK s \in Seq(Words) : s = SlotShows(n)
    BY <1>2, StreamSlot, OtherSlot
  <2>2. PICK i : i = [j \in 1..Len(s) |-> [text |-> s[j], id |-> log[n].id]]
    OBVIOUS
  <2>3. SlotItems(n) = i
    BY <1>2, <2>1, <2>2 DEF SlotItems
  <2>4. Len(s) \in Nat
    BY LenProperties
  <2>5. Len(i) = Len(s) /\ \A j \in 1..Len(s) : i[j].text = s[j]
    BY <2>2, <2>4
  <2>6. TextsIn(i) = [j \in 1..Len(s) |-> s[j]]
    BY <2>5 DEF TextsIn
  <2>7. s = [j \in 1..Len(s) |-> s[j]]
    BY LenProperties
  <2> QED
    BY <1>2, <2>1, <2>3, <2>6, <2>7
<1> QED
  BY <1>1, <1>2

LEMMA ShownTexts ==
  ASSUME log \in Seq(Messages) PROVE TextsIn(ShownItems) = Shown
<1>1. PICK k \in Nat : k = Len(log)
  BY LenProperties
<1>2. PICK f : f = [n \in 1..k |-> SlotItems(n)]
  OBVIOUS
<1>3. f \in [1..k -> Seq(Item)]
  <2>1. \A n \in 1..k : SlotItems(n) \in Seq(Item)
    BY <1>1, FactsHold DEF Facts, SlotFacts
  <2> QED
    BY <1>2, <2>1
<1>4. ShownItems = Upto(f, k)
  BY <1>1, <1>2, <1>3, UptoIs DEF ShownItems
<1>5. PICK h : h = [n \in 1..k |-> TextsIn(f[n])]
  OBVIOUS
<1>6. TextsIn(Upto(f, k)) = Upto(h, k)
  BY <1>3, <1>5, TextsInUpto
<1>7. h = [n \in 1..k |-> IF n \in Slots THEN SlotShows(n) ELSE <<>>]
  <2>1. \A n \in 1..k : TextsIn(f[n]) = IF n \in Slots THEN SlotShows(n) ELSE <<>>
    BY <1>2, SlotTexts
  <2> QED
    BY <1>5, <2>1
<1>8. Upto(h, k) = FlattenSeq(h)
  <2>1. h \in [1..k -> Seq(Words)]
    BY <1>3, <1>5, TextsInType
  <2> QED
    BY <2>1, UptoIs
<1>9. Shown = FlattenSeq(h)
  BY <1>1, <1>7 DEF Shown
<1> QED
  BY Zenon, <1>4, <1>6, <1>8, <1>9

-----------------------------------------------------------------------------
(***************************************************************************)
(* Write-back shows what the messages say, while rows tell them apart.     *)
(***************************************************************************)
\* The group of the last message's last row.
LastGroup ==
  IF log = <<>> \/ log[Len(log)].type = "clear" THEN NoGroup
  ELSE KeyOf(log[Len(log)], LastMime(log[Len(log)]))

\* What has been read is where the messages are.
Follows(acc) ==
  /\ ReaderOK(acc) /\ (acc.pending <=> Pending) /\ acc.group = LastGroup
  /\ Items(acc.outs) = ShownItems
  /\ log # <<>> /\ log[Len(log)].type = "stream" =>
       acc.at = Len(acc.outs) /\ ~acc.outs[acc.at].art

FaithfulInv == log \in Seq(Messages) /\ (Distinguishable => Follows(Reading(Start, EventRows)))

LEMMA DistinguishableStep ==
  ASSUME log \in Seq(Messages), NEW m \in Messages, log' = Append(log, m), Distinguishable',
         NEW k \in Nat, k = Len(log)
  PROVE  /\ Distinguishable
         /\ \A n \in 1..k : log[n].id # 0 => Len(log[n].body) = 1
         /\ m.id # 0 => Len(m.body) = 1
         /\ k # 0 => \/ log[k].type \in {"stream", "clear"}
                     \/ KeyOf(log[k], LastMime(log[k])) # KeyOf(m, FirstMime(m))
<1>1. /\ Len(log') = k + 1 /\ log'[k + 1] = m /\ \A n \in 1..k : log'[n] = log[n]
  BY LogGrows
<1>2. /\ \A n \in 1..(k + 1) - 1 :
           \/ log'[n].type \in {"stream", "clear"}
           \/ KeyOf(log'[n], LastMime(log'[n])) # KeyOf(log'[n + 1], FirstMime(log'[n + 1]))
      /\ \A n \in 1..k + 1 : log'[n].id # 0 => Len(log'[n].body) = 1
  BY <1>1 DEF Distinguishable, KeyOf, LastMime, FirstMime
<1>3. /\ k + 1 \in 1..k + 1 /\ \A n \in 1..k : n \in 1..k + 1 /\ n \in 1..(k + 1) - 1
      /\ \A n \in 1..k - 1 : n \in 1..k /\ n + 1 \in 1..k
  OBVIOUS
<1>4. \A n \in 1..k : log[n].id # 0 => Len(log[n].body) = 1
  BY <1>1, <1>2, <1>3
<1>5. m.id # 0 => Len(m.body) = 1
  BY <1>1, <1>2, <1>3
<1>6. ASSUME NEW n \in 1..k - 1
      PROVE  \/ log[n].type \in {"stream", "clear"}
             \/ KeyOf(log[n], LastMime(log[n])) # KeyOf(log[n + 1], FirstMime(log[n + 1]))
  <2>1. n \in 1..k /\ n \in 1..(k + 1) - 1 /\ log'[n] = log[n] /\ log'[n + 1] = log[n + 1]
    BY <1>1, <1>3
  <2> QED
    BY <1>2, <2>1
<1>7. ASSUME k # 0
      PROVE  \/ log[k].type \in {"stream", "clear"}
             \/ KeyOf(log[k], LastMime(log[k])) # KeyOf(m, FirstMime(m))
  <2>1. k \in 1..(k + 1) - 1 /\ k \in 1..k
    BY <1>7
  <2>2. log'[k] = log[k] /\ log'[k + 1] = m
    BY <1>1, <2>1
  <2> QED
    BY <1>2, <2>1, <2>2
<1> QED
  BY <1>4, <1>5, <1>6, <1>7 DEF Distinguishable

\* A row of a new message goes on with the group before only in a stream.
LEMMA GroupApart ==
  ASSUME log \in Seq(Messages), NEW m \in Messages, log' = Append(log, m), Distinguishable',
         NEW k \in Nat, k = Len(log), m.type \in Said, LastGroup = KeyOf(m, FirstMime(m))
  PROVE  k # 0 /\ m.type = "stream" /\ log[k].type = "stream" /\ log[k].name = m.name
<1>1. LastGroup # NoGroup
  BY KeyTypes
<1>2. log # <<>> /\ log[k].type # "clear" /\ LastGroup = KeyOf(log[k], LastMime(log[k]))
  BY <1>1 DEF LastGroup
<1>3. k # 0
  BY <1>2, EmptySeq
<1>4. log[k].type = "stream"
  BY <1>2, <1>3, DistinguishableStep
<1>5. m.type = "stream"
  <2>1. KeyOf(m, FirstMime(m))[1] = m.type
    BY KeyTypes
  <2>2. KeyOf(log[k], LastMime(log[k]))[1] = log[k].type
    BY KeyTypes
  <2> QED
    BY <1>2, <1>4, <2>1, <2>2
<1>6. KeyOf(m, FirstMime(m)) = <<"stream", m.name, 0>>
  BY <1>5 DEF KeyOf
<1>7. KeyOf(log[k], LastMime(log[k])) = <<"stream", log[k].name, 0>>
  BY <1>4 DEF KeyOf
<1>8. log[k].name = m.name
  <2>1. KeyOf(m, FirstMime(m))[2] = m.name
    BY <1>6
  <2>2. KeyOf(log[k], LastMime(log[k]))[2] = log[k].name
    BY <1>7
  <2> QED
    BY <1>2, <2>1, <2>2
<1> QED
  BY <1>3, <1>4, <1>5, <1>8

\* What Follows says after a step.
LEMMA FollowsStep ==
  ASSUME log \in Seq(Messages), NEW m \in Messages, log' = Append(log, m), NEW b,
         ReaderOK(b), b.pending <=> Pending', Items(b.outs) = ShownItems',
         b.group = IF m.type = "clear" THEN NoGroup ELSE KeyOf(m, LastMime(m)),
         m.type = "stream" => b.at = Len(b.outs) /\ ~b.outs[b.at].art
  PROVE  Follows(b)'
<1>1. PICK k \in Nat : k = Len(log)
  BY LogGrows
<1>2. Len(log') = k + 1 /\ log'[k + 1] = m /\ log' \in Seq(Messages)
  BY <1>1, LogGrows
<1>3. log' # <<>>
  BY <1>2, EmptySeq
<1>4. LastGroup' = b.group
  BY <1>2, <1>3 DEF LastGroup, KeyOf, NoGroup, LastMime
<1> QED
  BY <1>2, <1>4 DEF Follows, ReaderOK, Items, ItemOf, Shown1

LEMMA ClearFollows ==
  ASSUME log \in Seq(Messages), NEW m \in Messages, log' = Append(log, m), m.type = "clear",
         NEW k \in Nat, k = Len(log), NEW acc, Follows(acc)
  PROVE  Follows(Reading(acc, PartRows(m, k + 1)))'
<1>1. m \in Message /\ m.body = <<>> /\ m.wait \in BOOLEAN
  BY MessageTypes DEF Message
<1>2. PICK ev \in EventRow : ev = Bare(m)
  BY <1>1, BareType
<1>3. ev.type = "clear" /\ ev.wait = m.wait
  BY <1>2 DEF Bare, RowOf
<1>4. PICK b : b = Read(acc, ev) /\ b = Reading(acc, PartRows(m, k + 1))
  BY <1>1, <1>2, ReadingOne DEF PartRows
<1>5. ReaderOK(acc) /\ ReaderOK(b) /\ Items(acc.outs) = ShownItems
  BY <1>4, ReadOK DEF Follows
<1>6. CASE ~m.wait
  <2>1. b = [Start EXCEPT !.failed = Ended(acc)]
    BY <1>3, <1>4, <1>6, ReadCases
  <2>2. b.pending = FALSE /\ b.group = NoGroup /\ b.outs = <<>>
    BY <1>5, <2>1, EndedType, Emptied
  <2>3. Items(b.outs) = <<>>
    BY <2>2 DEF Items
  <2>4. ~Pending' /\ ShownItems' = <<>>
    BY <1>6, ClearsNow, StepClears
  <2> QED
    BY <1>4, <1>5, <2>2, <2>3, <2>4, FollowsStep
<1>7. CASE m.wait
  <2>1. b = [outs |-> acc.outs, pending |-> TRUE, at |-> acc.at, group |-> NoGroup,
             failed |-> Ended(acc)]
    <3>1. Read(acc, ev) = [acc EXCEPT !.pending = TRUE, !.group = NoGroup,
                                      !.failed = Ended(acc)]
      BY <1>3, <1>7, ReadCases
    <3>2. [acc EXCEPT !.pending = TRUE, !.group = NoGroup, !.failed = Ended(acc)] =
            [outs |-> acc.outs, pending |-> TRUE, at |-> acc.at, group |-> NoGroup,
             failed |-> Ended(acc)]
      BY <1>5, Waiting
    <3> QED
      BY Zenon, <1>4, <3>1, <3>2
  <2>2. b.pending = TRUE /\ b.group = NoGroup /\ b.outs = acc.outs
    BY <2>1
  <2>3. Pending' /\ ShownItems' = ShownItems
    BY <1>7, ClearWaits, StepWaits
  <2> QED
    BY <1>4, <1>5, <2>2, <2>3, FollowsStep
<1> QED
  BY <1>1, <1>6, <1>7

\* A new output, or the first after a clear that waited.
LEMMA NewFollows ==
  ASSUME log \in Seq(Messages), NEW m \in Messages, log' = Append(log, m), m.type \in Said,
         Distinguishable', NEW k \in Nat, k = Len(log), NEW acc, Follows(acc),
         Pending \/ (~Joins(k + 1)' /\ ~Updates(k + 1)')
  PROVE  Follows(Reading(acc, PartRows(m, k + 1)))'
<1>1. /\ ReaderOK(acc) /\ Items(acc.outs) = ShownItems /\ (acc.pending <=> Pending)
      /\ acc.group = LastGroup /\ acc.outs \in Seq(Shown1)
  BY DEF Follows, ReaderOK
<1>2. Shows(m) /\ m.type # "clear"
  BY DEF Shows, Said
<1>3. m.id # 0 => Len(m.body) = 1
  BY DistinguishableStep
<1>4. PICK b : b = Reading(acc, PartRows(m, k + 1))
  OBVIOUS
<1>5. CASE Pending
  <2>1. /\ ~Pending' /\ k # 0 /\ log[k].type = "clear"
        /\ ShownItems' = Showing(m, k + 1)
    BY <1>2, <1>5, ShowsAlone, StepAnew
  <2>2. acc.group = NoGroup /\ acc.group # KeyOf(m, FirstMime(m))
    BY <1>1, <2>1, KeyTypes DEF LastGroup
  <2>3. Base(acc) = <<>>
    BY <1>1, <1>5 DEF Base
  <2>4. BeginsIn(acc, m)
    BY <1>3, <2>2, <2>3 DEF BeginsIn
  <2>5. Added(b, acc, m, LastMime(m), Showing(m, k + 1))
    BY <1>1, <1>4, <2>4, MessageShows
  <2>6. Items(b.outs) = Showing(m, k + 1)
    <3>1. Items(<<>>) = <<>>
      BY DEF Items
    <3>2. <<>> \o Showing(m, k + 1) = Showing(m, k + 1)
      BY ShowingType, ConcatEmptySeq
    <3> QED
      BY <2>3, <2>5, <3>1, <3>2 DEF Added
  <2> QED
    BY <1>2, <1>4, <2>1, <2>5, <2>6, FollowsStep DEF Added
<1>6. CASE ~Pending
  <2>1. /\ ~Pending' /\ ShownItems' = ShownItems \o Showing(m, k + 1)
        /\ m.type = "update" /\ m.id # 0 =>
             \A j \in 1..Len(ShownItems) : ShownItems[j].id # m.id
    <3>1. ~Pending'
      BY <1>2, <1>6, ShowsMore
    <3>2. ~Joins(k + 1)' /\ ~Updates(k + 1)'
      BY <1>6
    <3> QED
      BY <1>2, <1>6, <3>1, <3>2, StepAdds
  <2>2. acc.group # KeyOf(m, FirstMime(m))
    <3> SUFFICES ASSUME acc.group = KeyOf(m, FirstMime(m)) PROVE FALSE
      OBVIOUS
    <3>1. k # 0 /\ m.type = "stream" /\ log[k].type = "stream" /\ log[k].name = m.name
      BY <1>1, GroupApart
    <3>2. log'[k + 1] = m /\ log'[k] = log[k] /\ k \in 1..k
      <4>1. k \in 1..k
        BY <3>1
      <4> QED
        BY <4>1, LogGrows
    <3>3. k \in Live
      <4>1. /\ Cleared \in 0..k /\ (Cleared # 0 => Effective(Cleared))
        BY StepFacts DEF Facts, LogFacts
      <4>2. Cleared # k
        <5> SUFFICES ASSUME Cleared = k PROVE FALSE
          OBVIOUS
        <5>1. Effective(k)
          BY <3>1, <4>1
        <5> QED
          BY <3>1, <5>1 DEF Effective
      <4>3. k > Cleared
        BY <4>1, <4>2
      <4> QED
        BY <3>1, <3>2, <4>3, StepFacts DEF Facts, LogFacts, Shows
    <3>4. k \in Live'
      BY <1>2, <1>6, <3>2, <3>3, ShowsMore DEF Kept
    <3>5. Joins(k + 1)'
      <4>1. (k + 1) - 1 = k
        OBVIOUS
      <4> QED
        BY <3>1, <3>2, <3>4, <4>1 DEF Joins
    <3> QED
      BY <1>6, <3>5
  <2>3. Base(acc) = acc.outs
    BY <1>1, <1>6 DEF Base
  <2>4. ASSUME m.type = "update", m.id # 0, NEW i \in 1..Len(acc.outs)
        PROVE  acc.outs[i].id # m.id
    <3>1. Items(acc.outs)[i] = ItemOf(acc.outs[i]) /\ Len(Items(acc.outs)) = Len(acc.outs)
      BY <1>1, ItemsType
    <3>2. ShownItems[i].id # m.id
      BY <1>1, <2>1, <2>4, <3>1
    <3> QED
      BY <1>1, <3>1, <3>2 DEF ItemOf
  <2>5. BeginsIn(acc, m)
    BY <1>3, <2>2, <2>3, <2>4 DEF BeginsIn
  <2>6. Added(b, acc, m, LastMime(m), Showing(m, k + 1))
    BY <1>1, <1>4, <2>5, MessageShows
  <2>7. Items(b.outs) = ShownItems'
    BY <1>1, <2>1, <2>3, <2>6 DEF Added
  <2> QED
    BY <1>2, <1>4, <2>1, <2>6, <2>7, FollowsStep DEF Added
<1> QED
  BY <1>5, <1>6

LEMMA JoinFollows ==
  ASSUME log \in Seq(Messages), NEW m \in Messages, log' = Append(log, m), m.type \in Said,
         ~Pending, NEW k \in Nat, k = Len(log), NEW acc, Follows(acc), Joins(k + 1)'
  PROVE  Follows(Reading(acc, PartRows(m, k + 1)))'
<1>1. /\ ReaderOK(acc) /\ Items(acc.outs) = ShownItems /\ ~acc.pending
      /\ acc.group = LastGroup /\ acc.outs \in Seq(Shown1)
  BY DEF Follows, ReaderOK
<1>2. Shows(m) /\ m.type # "clear"
  BY DEF Shows, Said
<1>3. /\ m.type = "stream" /\ k # 0 /\ log[k].type = "stream" /\ log[k].name = m.name
      /\ log # <<>>
  <2>1. (k + 1) - 1 = k /\ k \in Live'
    BY DEF Joins
  <2>2. Len(log') = k + 1 /\ log'[k + 1] = m /\ \A n \in 1..k : log'[n] = log[n]
    BY LogGrows
  <2>3. k \in 1..k + 1
    BY <2>1, <2>2, StepFacts DEF Facts, LogFacts
  <2>4. k \in 1..k /\ k # 0
    BY <2>3
  <2>5. log # <<>>
    BY <2>4, EmptySeq
  <2> QED
    BY <2>1, <2>2, <2>4, <2>5 DEF Joins
<1>4. acc.at = Len(acc.outs) /\ ~acc.outs[acc.at].art
  BY <1>3 DEF Follows
<1>5. acc.group = KeyOf(m, FirstMime(m)) /\ KeyOf(m, LastMime(m)) = KeyOf(m, FirstMime(m))
  BY <1>1, <1>3 DEF LastGroup, KeyOf
<1>6. PICK b : b = Reading(acc, PartRows(m, k + 1))
  OBVIOUS
<1>7. PICK o : o = acc.outs[Len(acc.outs)]
  OBVIOUS
<1>8. /\ ReaderOK(b) /\ b.pending = acc.pending /\ b.group = acc.group
      /\ b.at = Len(b.outs) /\ ~b.outs[b.at].art
      /\ Items(b.outs) = [Items(acc.outs) EXCEPT ![Len(acc.outs)] =
                            [text |-> o.text \o Tokens(k + 1, m.body[1]), id |-> o.id]]
  <2>1. PICK n \in Nat : n = k + 1
    OBVIOUS
  <2>2. acc.at = Len(acc.outs) /\ ~acc.outs[acc.at].art /\ ReaderOK(acc) /\ m.type = "stream"
    BY <1>1, <1>3, <1>4
  <2>3. JoinedTo(Reading(acc, PartRows(m, n)), acc, m, n)
    BY <1>5, <2>2, MessageJoins
  <2>4. JoinedTo(b, acc, m, k + 1)
    BY <1>6, <2>1, <2>3
  <2> QED
    BY Zenon, <1>7, <2>4 DEF JoinedTo
<1>9. PICK p \in 1..Len(ShownItems) :
        /\ p = Len(ShownItems)
        /\ ShownItems' = [ShownItems EXCEPT ![p] =
             [text |-> ShownItems[p].text \o Tokens(k + 1, m.body[1]), id |-> ShownItems[p].id]]
  BY <1>2, StepJoins
<1>10. p = Len(acc.outs) /\ ShownItems[p].text = o.text /\ ShownItems[p].id = o.id
  <2>1. Len(Items(acc.outs)) = Len(acc.outs)
    BY <1>1, ItemsType
  <2>2. p = Len(acc.outs) /\ p \in 1..Len(acc.outs)
    BY <1>1, <1>9, <2>1
  <2>3. Items(acc.outs)[p] = ItemOf(o)
    BY <1>1, <1>7, <2>2, ItemsType
  <2> QED
    BY <1>1, <2>2, <2>3 DEF ItemOf
<1>11. Items(b.outs) = ShownItems'
  BY <1>1, <1>8, <1>9, <1>10
<1>12. ~Pending'
  BY <1>2, ShowsMore
<1> QED
  BY <1>1, <1>2, <1>5, <1>6, <1>8, <1>11, <1>12, FollowsStep

LEMMA UpdateFollows ==
  ASSUME log \in Seq(Messages), NEW m \in Messages, log' = Append(log, m), m.type \in Said,
         Distinguishable', ~Pending, NEW k \in Nat, k = Len(log), NEW acc, Follows(acc),
         Updates(k + 1)'
  PROVE  Follows(Reading(acc, PartRows(m, k + 1)))'
<1>1. /\ ReaderOK(acc) /\ Items(acc.outs) = ShownItems /\ ~acc.pending
      /\ acc.group = LastGroup /\ acc.outs \in Seq(Shown1)
  BY DEF Follows, ReaderOK
<1>2. Shows(m) /\ m.type # "clear"
  BY DEF Shows, Said
<1>3. m.type = "update" /\ m.id # 0
  <2>1. log'[k + 1] = m
    BY LogGrows
  <2> QED
    BY <2>1 DEF Updates
<1>4. Len(m.body) = 1 /\ \A n \in 1..k : log[n].id # 0 => Len(log[n].body) = 1
  BY <1>3, DistinguishableStep
<1>5. PICK p \in 1..Len(ShownItems) :
        /\ ShownItems[p].id = m.id /\ m.type = "update" /\ m.id # 0
        /\ \A j \in p + 1..Len(ShownItems) : ShownItems[j].id # m.id
        /\ ShownItems' = [ShownItems EXCEPT ![p] =
             [text |-> Tokens(k + 1, m.body[1]), id |-> m.id]]
  <2>1. \E p \in 1..Len(ShownItems) :
          /\ ShownItems[p].id = m.id /\ m.type = "update" /\ m.id # 0
          /\ \A j \in p + 1..Len(ShownItems) : ShownItems[j].id # m.id
          /\ ShownItems' = [ShownItems EXCEPT ![p] =
               [text |-> Tokens(k + 1, m.body[1]), id |-> m.id]]
    BY Zenon, <1>2, <1>4, StepUpdates
  <2> QED
    BY Zenon, <2>1
<1>6. Len(ShownItems) = Len(acc.outs) /\ \A j \in 1..Len(acc.outs) :
        ShownItems[j] = ItemOf(acc.outs[j]) /\ ShownItems[j].id = acc.outs[j].id
  <2>1. \A j \in 1..Len(acc.outs) : Items(acc.outs)[j] = ItemOf(acc.outs[j])
    BY <1>1, ItemsType
  <2>2. Len(Items(acc.outs)) = Len(acc.outs)
    BY <1>1, ItemsType
  <2> QED
    BY <1>1, <2>1, <2>2 DEF ItemOf
<1>7. p \in 1..Len(acc.outs) /\ acc.outs[p].id = m.id
  BY <1>5, <1>6
<1>8. \A j \in p + 1..Len(acc.outs) : acc.outs[j].id # m.id
  <2> SUFFICES ASSUME NEW j \in p + 1..Len(acc.outs) PROVE acc.outs[j].id # m.id
    OBVIOUS
  <2>1. j \in 1..Len(acc.outs) /\ j \in p + 1..Len(ShownItems)
    BY <1>6, <1>7
  <2> QED
    BY <1>5, <1>6, <2>1
<1>9. acc.group # KeyOf(m, FirstMime(m))
  BY <1>1, <1>3, GroupApart
<1>10. PICK b : b = Reading(acc, PartRows(m, k + 1))
  OBVIOUS
<1>11. /\ ReaderOK(b) /\ ~b.pending /\ b.group = KeyOf(m, LastMime(m))
       /\ Items(b.outs) = [Items(acc.outs) EXCEPT ![p] =
                             [text |-> Tokens(k + 1, m.body[1]), id |-> m.id]]
  <2>1. PICK n \in Nat : n = k + 1
    OBVIOUS
  <2>2. UpdatedAt(Reading(acc, PartRows(m, n)), acc, m, n, p)
    BY <1>1, <1>3, <1>4, <1>7, <1>8, <1>9, MessageUpdates
  <2>3. UpdatedAt(b, acc, m, k + 1, p)
    BY <1>10, <2>1, <2>2
  <2> QED
    BY Zenon, <2>3 DEF UpdatedAt
<1>12. Items(b.outs) = ShownItems'
  BY <1>1, <1>5, <1>11
<1>13. ~Pending'
  BY <1>2, ShowsMore
<1> QED
  BY <1>2, <1>3, <1>10, <1>11, <1>12, <1>13, FollowsStep

LEMMA FaithfulInit == LogInit => FaithfulInv
<1> SUFFICES ASSUME LogInit PROVE FaithfulInv
  OBVIOUS
<1>1. log = <<>> /\ log \in Seq(Messages) /\ Len(log) = 0
  BY EmptySeq DEF LogInit
<1>2. EventRows = <<>> /\ ShownItems = <<>>
  <2>1. /\ [n \in 1..Len(log) |-> SlotItems(n)] = <<>>
        /\ [n \in 1..Len(log) |-> MessageRows(log[n], n)] = <<>>
    BY <1>1
  <2> QED
    BY <2>1, FlattenEmpty DEF EventRows, ShownItems
<1>3. Reading(Start, EventRows) = Start
  BY <1>2, ReadingEmpty
<1>4. ~Pending /\ LastGroup = NoGroup
  BY <1>1 DEF Pending, LastGroup
<1>5. Start.outs = <<>> /\ Start.pending = FALSE /\ Start.group = NoGroup
  BY DEF Start
<1>6. Items(<<>>) = <<>>
  BY DEF Items
<1>7. Follows(Start)
  BY <1>1, <1>2, <1>4, <1>5, <1>6, StartOK DEF Follows
<1> QED
  BY <1>1, <1>3, <1>7 DEF FaithfulInv

\* What has been read follows the log when a message joins it.
LEMMA EmitFollows ==
  ASSUME log \in Seq(Messages), NEW m \in Messages, log' = Append(log, m), Distinguishable',
         NEW k \in Nat, k = Len(log), NEW acc, Follows(acc)
  PROVE  Follows(Reading(acc, PartRows(m, k + 1)))'
<1>1. CASE m.type = "clear"
  BY <1>1, ClearFollows
<1>2. CASE m.type # "clear"
  <2>1. m.type \in Said
    BY <1>2, MessageTypes
  <2>2. CASE Pending \/ (~Joins(k + 1)' /\ ~Updates(k + 1)')
    BY <2>1, <2>2, NewFollows
  <2>3. CASE ~Pending /\ Joins(k + 1)'
    BY <2>1, <2>3, JoinFollows
  <2>4. CASE ~Pending /\ Updates(k + 1)'
    BY <2>1, <2>4, UpdateFollows
  <2> QED
    BY <2>2, <2>3, <2>4
<1> QED
  BY <1>1, <1>2

LEMMA FaithfulNext == FaithfulInv /\ [LogNext]_log => FaithfulInv'
<1> SUFFICES ASSUME FaithfulInv, [LogNext]_log PROVE FaithfulInv'
  OBVIOUS
<1>1. CASE UNCHANGED log
  <2>1. EventRows' = EventRows /\ (Distinguishable' <=> Distinguishable)
    BY <1>1 DEF EventRows, Distinguishable
  <2>2. /\ ShownItems' = ShownItems /\ (Pending' <=> Pending) /\ LastGroup' = LastGroup
    <3>1. Cleared' = Cleared
      BY <1>1 DEF Cleared
    <3>2. Live' = Live
      BY <1>1, <3>1 DEF Live
    <3>3. \A n : (Joins(n)' <=> Joins(n)) /\ (Updates(n)' <=> Updates(n))
      BY <1>1, <3>2 DEF Joins, Updates
    <3>4. Slots' = Slots
      BY <3>2, <3>3 DEF Slots
    <3>5. \A n : SlotShows(n)' = SlotShows(n)
      BY <1>1 DEF SlotShows, BodyText, Content, RunEnd, Slots, Updates, Joins, Live, Cleared
    <3>6. \A n : SlotItems(n)' = SlotItems(n)
      BY <1>1, <3>4, <3>5 DEF SlotItems
    <3>7. ShownItems' = ShownItems
      BY <1>1, <3>6 DEF ShownItems
    <3> QED
      BY <1>1, <3>1, <3>7 DEF Pending, LastGroup
  <2>3. ASSUME NEW acc, Follows(acc) PROVE Follows(acc)'
    BY <1>1, <2>2, <2>3 DEF Follows, ReaderOK
  <2> QED
    BY <1>1, <2>1, <2>3 DEF FaithfulInv
<1>2. ASSUME NEW m \in Messages, Emit(m) PROVE FaithfulInv'
  <2>1. log \in Seq(Messages) /\ log' = Append(log, m)
    BY <1>2 DEF Emit, FaithfulInv
  <2>2. PICK k \in Nat : k = Len(log)
    BY <2>1, LogGrows
  <2>3. log' \in Seq(Messages)
    BY <2>1, LogGrows
  <2>4. PICK acc : acc = Reading(Start, EventRows)
    OBVIOUS
  <2>5. Reading(Start, EventRows)' = Reading(acc, PartRows(m, k + 1))
    <3>1. Reading(Start, EventRows') = Reading(acc, PartRows(m, k + 1))
      BY <2>1, <2>2, <2>4, EventRowsGrow
    <3>2. Reading(Start, EventRows)' = Reading(Start, EventRows')
      BY DEF Reading, Start
    <3> QED
      BY <3>1, <3>2
  <2>6. ASSUME Distinguishable' PROVE Follows(Reading(acc, PartRows(m, k + 1)))'
    <3>1. Distinguishable
      BY <2>1, <2>2, <2>6, DistinguishableStep
    <3>2. Follows(acc)
      BY <2>4, <3>1 DEF FaithfulInv
    <3> QED
      BY <2>1, <2>2, <2>6, <3>2, EmitFollows
  <2> QED
    BY <2>3, <2>5, <2>6 DEF FaithfulInv
<1> QED
  BY <1>1, <1>2 DEF LogNext

\* RenderedFaithfully: _notebook_outputs turns the stored rows of a log back
\* into the outputs its messages describe: streams run together, updates land
\* on the display they address, clears take effect when they should, binary
\* values are encoded as they came, and only a string displayed as JSON is in
\* the way.
THEOREM ShownFaithfully == LogSpec => []RenderedFaithfully
<1>1. FaithfulInv /\ Distinguishable => RenderedOutputs = ShownAsSent
  <2> SUFFICES ASSUME FaithfulInv, Distinguishable PROVE RenderedOutputs = ShownAsSent
    OBVIOUS
  <2>1. PICK outs \in Seq(Shown1) : outs = Reading(Start, EventRows).outs
    BY DEF FaithfulInv, Follows, ReaderOK
  <2>2. NotebookOutputs = outs
    BY <2>1, WholeTextShowsNothing DEF FaithfulInv
  <2>3. Items(outs) = ShownItems
    BY <2>1 DEF FaithfulInv, Follows
  <2>4. Texts(outs) = TextsIn(Items(outs))
    <3>1. Len(Items(outs)) = Len(outs)
      BY ItemsType
    <3>2. \A i \in 1..Len(outs) : Items(outs)[i] = ItemOf(outs[i])
      BY ItemsType
    <3>3. ASSUME NEW i \in 1..Len(outs) PROVE Items(outs)[i].text = outs[i].text
      <4>1. PICK o : o = outs[i]
        OBVIOUS
      <4>2. Items(outs)[i] = ItemOf(o)
        BY Zenon, <3>2, <4>1
      <4>3. ItemOf(o).text = o.text
        BY DEF ItemOf
      <4> QED
        BY Zenon, <4>1, <4>2, <4>3
    <3> QED
      BY <3>1, <3>3 DEF Texts, TextsIn
  <2>5. TextsIn(ShownItems) = Shown
    BY ShownTexts DEF FaithfulInv
  <2>6. /\ Len(Shown) = Len(NotebookOutputs)
        /\ \A i \in 1..Len(NotebookOutputs) : Shown[i] = NotebookOutputs[i].text
    BY <2>1, <2>2, <2>3, <2>4, <2>5, TextsOf
  <2>7. \A t : Rendered(t) = IF t[2] \in Binary /\ t[4] THEN Base64(Sent(t)) ELSE Sent(t)
    BY DEF Rendered, Sent
  <2> QED
    BY <2>6, <2>7 DEF RenderedOutputs, ShownAsSent
<1>2. LoadsInv /\ Distinguishable => (Raises => JsonString)
  <2> SUFFICES ASSUME LoadsInv, Distinguishable, Raises PROVE JsonString
    OBVIOUS
  <2>1. JsonClash
    BY WholeTextShowsNothing DEF LoadsInv, Explained
  <2>2. \A n \in 1..Len(log) - 1 :
          ~(/\ Displays(log[n])
            /\ KeyOf(log[n], LastMime(log[n])) = KeyOf(log[n + 1], FirstMime(log[n + 1])))
    BY DEF Distinguishable, Displays
  <2> QED
    BY <2>1, <2>2 DEF JsonClash
<1>3. FaithfulInv /\ LoadsInv => RenderedFaithfully
  BY <1>1, <1>2 DEF RenderedFaithfully
<1> QED
  BY <1>3, FaithfulInit, FaithfulNext, LoadsInit, LoadsNext, PTL DEF LogSpec
=============================================================================
