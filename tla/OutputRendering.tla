---------------------------- MODULE OutputRendering ----------------------------
(***************************************************************************)
(* What a cell shows after write-back.  The kernel's messages are          *)
(* normalised and stored as rows, one or more per message: text is cut     *)
(* into chunks, and every MIME representation has rows of its own.  Write- *)
(* back reads the rows, which no longer say where a message ends, and      *)
(* rebuilds the outputs.  Here that loop is compared with what the         *)
(* messages themselves say should be shown.  The text of a message is a    *)
(* sequence of tokens <<position, mime, chunk, raw>>: what is stored of it. *)
(***************************************************************************)
EXTENDS Naturals, Sequences, SequencesExt, FiniteSetsExt

CONSTANTS
  Messages,     \* what a kernel may send
  Json,         \* MIME types whose stored text write-back parses again
  Binary,       \* MIME types stored decoded and encoded again (not _is_text_mime)
  MaxMessages,  \* bound on the length of a log
  Large,        \* chunks above which a representation becomes an artifact
  WholeText     \* rows of text above which the whole text is published too

ASSUME RenderingAssumption ==
  /\ MaxMessages \in Nat /\ Large \in Nat /\ WholeText \in Nat
  /\ Json \cap Binary = {} /\ "none" \notin Json \cup Binary

\* What _normalize_output makes of a message.  A body is one representation of
\* what it shows, cut into size chunks (an empty text is one chunk); they are
\* the entries of a dict, so no MIME type comes twice.  id is the display id,
\* 0 when there is none.  raw: the value is not in the form that storing and
\* showing its MIME type convert: a string displayed as JSON, which is stored
\* without being encoded, or a value displayed as an image that is no strict
\* base64 (it ends in a newline, say), which is stored without being decoded.
ASSUME MessagesAssumption ==
  \A m \in Messages :
    /\ m \in [type : {"stream", "error", "display", "result", "update", "clear"},
             name : STRING, id : Nat, wait : BOOLEAN,
             body : Seq([mime : STRING, size : Nat \ {0}, raw : BOOLEAN])]
    /\ m.type \in {"stream", "error"} => m.id = 0 /\ Len(m.body) = 1
    /\ m.type = "clear" => m.id = 0 /\ m.body = <<>>
    /\ \A i, j \in 1..Len(m.body) : m.body[i].mime = m.body[j].mime => i = j

VARIABLE log    \* messages observed on iopub

Shows(m) == m.type # "clear"
Displays(m) == m.type \in {"display", "result", "update"}

LogInit == log = <<>>

\* One observed message that is an output.
Emit(m) == Len(log) < MaxMessages /\ log' = Append(log, m)

LogNext == \E m \in Messages : Emit(m)

LogSpec == LogInit /\ [][LogNext]_log

-----------------------------------------------------------------------------
(***************************************************************************)
(* Rows: append_output_event, and the whole-text artifact of finalisation. *)
(***************************************************************************)
Tokens(n, b) == [k \in 1..b.size |-> <<n, b.mime, k, b.raw>>]

\* trace is the whole traceback, which the first row of an error carries.
RowOf(m, mime, art, text, trace) ==
  [type |-> m.type, name |-> m.name, mime |-> mime, id |-> m.id, wait |-> m.wait,
   art |-> art, text |-> text, trace |-> trace]

\* Representations kept in a file of their own.
AsArtifact(m, b) == Displays(m) /\ (b.size > Large \/ b.mime \in Binary)

\* The rows of one representation: chunks (at least one), or one row with an
\* artifact.
BodyRows(m, n, b) ==
  IF AsArtifact(m, b) THEN <<RowOf(m, b.mime, TRUE, Tokens(n, b), <<>>)>>
  ELSE [k \in 1..b.size |->
          RowOf(m, b.mime, FALSE, <<Tokens(n, b)[k]>>,
                IF m.type = "error" /\ k = 1 THEN Tokens(n, b) ELSE <<>>)]

\* A message without a representation still has its row.
MessageRows(m, n) ==
  IF m.body = <<>> THEN <<RowOf(m, "none", FALSE, <<>>, <<>>)>>
  ELSE FlattenSeq([i \in 1..Len(m.body) |-> BodyRows(m, n, m.body[i])])

EventRows == FlattenSeq([n \in 1..Len(log) |-> MessageRows(log[n], n)])

Rows ==
  LET whole == [type |-> "artifact", name |-> "none", mime |-> "none", id |-> 0,
                wait |-> FALSE, art |-> TRUE, text |-> <<>>, trace |-> <<>>]
      text == {r \in 1..Len(EventRows) : EventRows[r].text # <<>> /\ ~EventRows[r].art}
  IN IF Cardinality(text) > WholeText THEN Append(EventRows, whole) ELSE EventRows

-----------------------------------------------------------------------------
(***************************************************************************)
(* _notebook_outputs.  group is what the rows of the group being read have *)
(* in common, and at is the group's output.                                *)
(***************************************************************************)
KeyOf(m, mime) ==
  CASE m.type = "stream" -> <<"stream", m.name, 0>>
    [] m.type = "error"  -> <<"error", "none", 0>>
    [] OTHER             -> <<m.type, mime, m.id>>
NoGroup == <<"none", "none", 0>>

\* failed: a group's JSON could not be read.
Start == [outs |-> <<>>, pending |-> FALSE, at |-> 0, group |-> NoGroup, failed |-> FALSE]

Continues(acc, ev) == acc.group = KeyOf(ev, ev.mime)

OutputOf(ev) ==
  [type |-> IF ev.type = "update" THEN "display" ELSE ev.type, name |-> ev.name,
   mime |-> ev.mime, id |-> ev.id, art |-> ev.art,
   text |-> IF ev.type = "error" THEN ev.trace ELSE ev.text]

\* Text is joined; an artifact of the group is taken instead of any text, and
\* so is the last traceback of a group of errors.
Joined(o, ev) ==
  IF ev.art THEN [o EXCEPT !.art = TRUE, !.text = ev.text]
  ELSE IF ev.type = "error" THEN [o EXCEPT !.text = IF ev.trace = <<>> THEN @ ELSE ev.trace]
  ELSE IF o.art THEN o ELSE [o EXCEPT !.text = @ \o ev.text]

Extend(acc, ev) == [acc EXCEPT !.outs[acc.at] = Joined(@, ev)]

\* json.loads of a group's text, when the group ends: it takes one encoded
\* value.  The values of two displays in one text, and a string that was stored
\* without being encoded, raise (or read, when the text happens to be JSON, as
\* a value that nobody displayed).
Loads(o) == \A i, j \in 1..Len(o.text) : o.text[i][1] = o.text[j][1] /\ ~o.text[i][4]
Ended(acc) ==
  \/ acc.failed
  \/ /\ acc.group # NoGroup /\ acc.outs[acc.at].type \notin {"stream", "error"}
     /\ acc.outs[acc.at].mime \in Json /\ ~Loads(acc.outs[acc.at])

\* Mutant: an update replaces the first output of its display id.
AddReplacesFirst(acc, ev) ==
  LET outs == IF acc.pending THEN <<>> ELSE acc.outs
      same == {i \in 1..Len(outs) : ev.type = "update" /\ ev.id # 0 /\ outs[i].id = ev.id}
      at == IF same = {} THEN Len(outs) + 1 ELSE Min(same)
  IN [outs |-> IF same = {} THEN Append(outs, OutputOf(ev)) ELSE [outs EXCEPT ![at] = OutputOf(ev)],
      pending |-> FALSE, at |-> at, group |-> KeyOf(ev, ev.mime), failed |-> Ended(acc)]

\* A new output; an update takes the place of the last one of its display id.
Add(acc, ev) ==
  LET outs == IF acc.pending THEN <<>> ELSE acc.outs
      same == {i \in 1..Len(outs) : ev.type = "update" /\ ev.id # 0 /\ outs[i].id = ev.id}
      at == IF same = {} THEN Len(outs) + 1 ELSE Max(same)
  IN [outs |-> IF same = {} THEN Append(outs, OutputOf(ev)) ELSE [outs EXCEPT ![at] = OutputOf(ev)],
      pending |-> FALSE, at |-> at, group |-> KeyOf(ev, ev.mime), failed |-> Ended(acc)]

\* Mutant: rows are joined only within their first chunk.
ReadsApart(acc, ev) ==
  CASE ev.type = "artifact" -> [acc EXCEPT !.group = NoGroup, !.failed = Ended(acc)]
    [] ev.type = "clear" ->
         IF ev.wait THEN [acc EXCEPT !.pending = TRUE, !.group = NoGroup, !.failed = Ended(acc)]
         ELSE [Start EXCEPT !.failed = Ended(acc)]
    [] OTHER -> IF Continues(acc, ev) THEN acc ELSE Add(acc, ev)

Read(acc, ev) ==
  CASE ev.type = "artifact" -> [acc EXCEPT !.group = NoGroup, !.failed = Ended(acc)]
    [] ev.type = "clear" ->
         IF ev.wait THEN [acc EXCEPT !.pending = TRUE, !.group = NoGroup, !.failed = Ended(acc)]
         ELSE [Start EXCEPT !.failed = Ended(acc)]
    [] OTHER -> IF Continues(acc, ev) THEN Extend(acc, ev) ELSE Add(acc, ev)

\* The loop over the rows.
Reading(acc, rows) ==
  LET read[k \in 0..Len(rows)] == IF k = 0 THEN acc ELSE Read(read[k - 1], rows[k])
  IN read[Len(rows)]

\* Where a group cannot be read the whole write-back fails, and the notebook
\* keeps what it shows.
Raises == Ended(Reading(Start, Rows))
NotebookOutputs == Reading(Start, Rows).outs

\* The conversions of a binary representation, chunk by chunk: _artifact_value
\* encodes what is stored, and storing decoded what the kernel had encoded.
Base64(t) == <<"base64", t>>
Rendered(t) == IF t[2] \in Binary THEN Base64(t) ELSE t
Sent(t) == IF t[2] \in Binary /\ ~t[4] THEN Base64(t) ELSE t
RenderedOutputs ==
  [i \in 1..Len(NotebookOutputs) |->
     [k \in 1..Len(NotebookOutputs[i].text) |-> Rendered(NotebookOutputs[i].text[k])]]

-----------------------------------------------------------------------------
(***************************************************************************)
(* What the messages say should be shown.                                  *)
(***************************************************************************)
\* The last clear that took effect: one that waits needs an output after it.
Cleared ==
  Max({0} \cup {c \in 1..Len(log) : log[c].type = "clear" /\
                  (log[c].wait => \E n \in c + 1..Len(log) : Shows(log[n]))})

Live == {n \in Cleared + 1..Len(log) : Shows(log[n])}
Joins(n) == n - 1 \in Live /\ log[n].type = "stream"
            /\ log[n - 1].type = "stream" /\ log[n - 1].name = log[n].name
Updates(n) == log[n].type = "update" /\ log[n].id # 0
              /\ \E p \in Live : p < n /\ log[p].id = log[n].id
Slots == {n \in Live : ~Joins(n) /\ ~Updates(n)}

\* The message whose content slot s shows: the last update that reaches it.
Content(s) ==
  Max({s} \cup {u \in Live : u > s /\ Updates(u) /\ log[u].id = log[s].id
                 /\ \A t \in Slots : s < t /\ t < u => log[t].id # log[s].id})

\* The end of the run of stream messages that slot s begins.
RunEnd(s) == Max({n \in Live : n >= s /\ \A k \in s + 1..n : k \in Live /\ Joins(k)})

BodyText(n, i) == IF log[n].body = <<>> THEN <<>> ELSE Tokens(n, log[n].body[i])

\* One output for a stream's run, and one for every representation.
SlotShows(s) ==
  IF log[s].type = "stream"
  THEN <<FlattenSeq([k \in 1..RunEnd(s) - s + 1 |-> BodyText(s + k - 1, 1)])>>
  ELSE LET n == Content(s)
       IN IF log[n].body = <<>> THEN <<<<>>>>
          ELSE [i \in 1..Len(log[n].body) |-> BodyText(n, i)]

Shown == FlattenSeq([n \in 1..Len(log) |-> IF n \in Slots THEN SlotShows(n) ELSE <<>>])

\* The rows tell messages apart: no two neighbours but streams end and begin
\* with rows of one group, and an addressed display has one representation.
LastMime(m) == IF m.body = <<>> THEN "none" ELSE m.body[Len(m.body)].mime
FirstMime(m) == IF m.body = <<>> THEN "none" ELSE m.body[1].mime

Distinguishable ==
  /\ \A n \in 1..Len(log) - 1 :
       \/ log[n].type \in {"stream", "clear"}
       \/ KeyOf(log[n], LastMime(log[n])) # KeyOf(log[n + 1], FirstMime(log[n + 1]))
  /\ \A n \in 1..Len(log) : log[n].id # 0 => Len(log[n].body) = 1

\* The same in the form in which it was sent; what was not base64 is encoded.
ShownAsSent ==
  [i \in 1..Len(Shown) |->
     [k \in 1..Len(Shown[i]) |->
        LET t == Shown[i][k] IN IF t[2] \in Binary /\ t[4] THEN Base64(Sent(t)) ELSE Sent(t)]]

\* A string displayed as JSON; JSON displayed right after JSON of the same key.
JsonString ==
  \E n \in 1..Len(log) : Displays(log[n]) /\ \E i \in 1..Len(log[n].body) :
    log[n].body[i].mime \in Json /\ log[n].body[i].raw
JsonClash ==
  \/ JsonString
  \/ \E n \in 1..Len(log) - 1 :
       /\ Displays(log[n]) /\ LastMime(log[n]) \in Json
       /\ KeyOf(log[n], LastMime(log[n])) = KeyOf(log[n + 1], FirstMime(log[n + 1]))

Texts(outs) == [i \in 1..Len(outs) |-> outs[i].text]
-----------------------------------------------------------------------------
\* Write-back shows what the kernel sent: chunks are joined, streams run
\* together, updates land on their display, clears take effect when they should
\* and what storing decoded is encoded again, for every log whose rows still
\* tell its messages apart.  A string displayed as JSON is all that can make it
\* fail, and what was not base64 shows encoded though the kernel did not.
RenderedFaithfully ==
  Distinguishable =>
    IF Raises THEN JsonString ELSE RenderedOutputs = ShownAsSent

\* Where rows do not tell messages apart outputs are merged, but no text is
\* lost or reordered unless it was cleared, replaced, kept as an artifact or
\* an error right before another error.  Nothing is written at all only when
\* JSON was merged with JSON, or was a string.
NothingLost ==
  (/\ \A n \in 1..Len(log) - 1 : ~(log[n].type = "error" /\ log[n + 1].type = "error")
   /\ \A n \in 1..Len(log) :
        /\ log[n].type \notin {"clear", "update"}
        /\ \A i \in 1..Len(log[n].body) : ~AsArtifact(log[n], log[n].body[i]))
  => IF Raises THEN JsonClash
     ELSE FlattenSeq(Texts(NotebookOutputs)) =
            FlattenSeq([n \in 1..Len(log) |->
              FlattenSeq([i \in 1..Len(log[n].body) |-> BodyText(n, i)])])
==============================================================================
