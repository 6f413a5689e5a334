--------------------------- MODULE OutputSpoolProofs ---------------------------
(***************************************************************************)
(* The spool, its index and its artifacts agree, for any texts, chunk size *)
(* and number of appends, faults and finalizers: what is indexed can be    *)
(* read, a complete output has the digest of its whole text, pages follow  *)
(* the index, and the whole implements an append-only log.                 *)
(* SpoolProof is the inductive form.  It says where the file stands during *)
(* an append, which artifact an actor has in hand, and, while the output   *)
(* claims to be complete, that the worker alone finalizes it, over a file  *)
(* that no longer changes.                                                 *)
(***************************************************************************)
EXTENDS OutputSpool, FiniteSetTheorems, SequenceTheorems, WellFoundedInduction, TLAPS

\* A text as bytes of the spool: every byte belongs to a whole character.
WholeBytes(data) ==
  \A i \in 1..Len(data) :
    LET start == i - data[i][2]
        width == data[i][3]
    IN  /\ data[i][2] <= width /\ start \in 0..(Len(data) - width)
        /\ \A p \in 1..width : data[start + p][2] = p /\ data[start + p][3] = width

\* s bytes of a text end with a character.
Boundary(data, s) ==
  /\ s \in 0..Len(data)
  /\ s < Len(data) => Lead(data[s + 1])
  /\ s > 0 => Last(data[s])

\* A chunk of the text that is being appended.
ChunkOf(r) ==
  LET start == r.off - writer.off
      end == start + r.len
  IN  start \in 0..end /\ Boundary(writer.data, start) /\ Boundary(writer.data, end)

Writers == [off : Nat, data : Seq(Byte), left : Seq(Byte), rows : Seq(Rows), cut : Nat,
            stage : {"none", "open", "write", "undo"}]
Locals == [size : Nat, spooled : BOOLEAN, digest : Seq(Byte), existing : SUBSET (Nat \ {0}),
           art : Nat, again : BOOLEAN]
Pages == [at : {"idle", "rows", "more", "end"}, cursor : Nat, from : Nat, got : Seq(Rows),
          spooled : BOOLEAN]
Prunes == [at : {"idle", "delete", "files", "spool"}, files : SUBSET (Nat \ {0}),
           spool : BOOLEAN]

Typed ==
  /\ TypeOK
  /\ writer \in Writers /\ loc \in [Actors -> Locals] /\ page \in Pages /\ prune \in Prunes
  /\ appends \in 0..MaxAppends
  /\ IsFiniteSet(disk) /\ IsFiniteSet(arts) /\ IsFiniteSet(prune.files)

\* A row is sealed before it is terminal, and terminal before it is pruned.
Life ==
  /\ row.terminal => row.sealed
  /\ ~row.exists => row.terminal
  /\ \A a \in Actors : pc[a] \in {"indexonly", "terminal"} => row.sealed
  /\ prune.at = "delete" => row.exists /\ row.terminal
  /\ prune.at \in {"files", "spool"} => ~row.exists

\* The file during an append: what was committed, then what is written.
Written == Len(writer.data) - Len(writer.left)
Transaction ==
  /\ row.exists => row.size <= Len(file) /\ (~row.spooled => row.size = 0)
  /\ ~Free => row.exists /\ ~row.sealed
  /\ writer.stage # "none" => writer.off = row.size /\ WholeBytes(writer.data)
  /\ writer.stage = "open" => writer.left = writer.data /\ writer.rows = <<>> /\ writer.cut = 0
  /\ writer.stage = "write" =>
       /\ Written \in 0..Len(writer.data)
       /\ writer.left = SubSeq(writer.data, Written + 1, Len(writer.data))
       /\ Len(file) = writer.off + Written
       /\ \A i \in 1..Written : file[writer.off + i] = writer.data[i]
       /\ Boundary(writer.data, writer.cut)
       /\ \A i \in 1..Len(writer.rows) : ChunkOf(writer.rows[i])

\* The artifact an actor has written and not recorded yet is its own.
InHand(a) == pc[a] \in {"richrow", "insert"}
Hands ==
  /\ \A a \in Actors : InHand(a) =>
       /\ loc[a].art # 0
       /\ \A t \in arts : t.id # loc[a].art
       /\ row.exists => \E d \in disk : d.id = loc[a].art
       /\ pc[a] = "richrow" => \A d \in disk : d.id = loc[a].art => d.data = <<>>
       /\ \A b \in Actors : a # b /\ InHand(b) => loc[a].art # loc[b].art
  /\ pc["worker"] = "richindex" /\ row.exists => \E t \in arts : t.id = loc["worker"].art
  /\ pc["force"] \notin {"append", "richrow", "richindex"}

\* While the output claims to be complete, the worker finalizes alone, after
\* its last append.
Finalizing == {"read", "hash", "stat", "copy", "insert", "index", "indexonly", "terminal"}
Settled ==
  row.exists /\ row.complete =>
    /\ pc["force"] = "idle"
    /\ pc["worker"] \in Finalizing \/ row.sealed => row.proved
    /\ row.proved => pc["worker"] \notin {"idle", "append", "richrow", "richindex"}
    /\ pc["worker"] \in {"hash", "stat"} => loc["worker"].size = row.size
    /\ pc["worker"] = "stat" => loc["worker"].digest = file
    /\ pc["worker"] = "copy" => file = Readable
    /\ pc["worker"] = "insert" => \A d \in disk : d.id = loc["worker"].art => d.data = Readable
    /\ pc["worker"] \in {"copy", "insert", "index"} => loc["worker"].digest = Readable
    /\ \A t \in arts : t.whole => row.proved /\ t.data = Readable
    /\ row.sealed => row.sha = Readable

\* What a reader has is the part of the index between two cursors.
Paged ==
  row.exists /\ page.at # "idle" =>
    /\ page.from <= page.cursor
    /\ page.from = page.cursor \/ page.cursor <= Len(index)
    /\ page.got = SubSeq(index, page.from + 1, page.cursor)
    /\ page.at \in {"more", "end"} => page.cursor <= Len(index)
    /\ page.at = "more" => page.cursor < Len(index)

SpoolProof == Typed /\ Life /\ Transaction /\ IndexBacked /\ Hands /\ Settled /\ Paged

-----------------------------------------------------------------------------
(***************************************************************************)
(* The operators on texts, files and names.                                *)
(***************************************************************************)
\* A part of a sequence is a sequence of the same elements.
LEMMA Slice ==
  ASSUME NEW S, NEW s \in Seq(S), NEW m \in Nat \ {0}, NEW n \in Nat, n <= Len(s)
  PROVE  /\ SubSeq(s, m, n) \in Seq(S)
         /\ Len(SubSeq(s, m, n)) = IF m <= n THEN n - m + 1 ELSE 0
         /\ \A i \in 1..(n - m + 1) : SubSeq(s, m, n)[i] = s[m + i - 1]
<1>1. \A i \in m..n : s[i] \in S
  <2> SUFFICES ASSUME NEW i \in m..n PROVE s[i] \in S
    OBVIOUS
  <2>1. i \in 1..Len(s)
    OBVIOUS
  <2> QED
    BY <2>1
<1> QED
  BY <1>1, SubSeqProperties

\* Truncation keeps the first bytes.
LEMMA TruncateKeeps ==
  ASSUME NEW bytes \in Seq(Byte), NEW n \in Nat
  PROVE  /\ Truncate(bytes, n) \in Seq(Byte)
         /\ Len(Truncate(bytes, n)) = IF Len(bytes) > n THEN n ELSE Len(bytes)
         /\ \A i \in 1..Len(Truncate(bytes, n)) : Truncate(bytes, n)[i] = bytes[i]
<1>1. CASE Len(bytes) > n
  <2>1. \A i \in 1..n : bytes[i] \in Byte
    BY <1>1
  <2> QED
    BY <1>1, <2>1, SubSeqProperties DEF Truncate
<1>2. CASE ~(Len(bytes) > n)
  BY <1>2 DEF Truncate
<1> QED
  BY <1>1, <1>2

\* A text's bytes are bytes of whole characters.
LEMMA EncodeWhole ==
  ASSUME NEW n \in 1..MaxAppends, NEW text \in Texts
  PROVE  /\ Encode(n, text) \in Seq(Byte)
         /\ WholeBytes(Encode(n, text))
<1>1. text \in Seq((1..ChunkBytes) \X (1..ChunkBytes)) /\ WholeCharacters(text)
  BY SpoolAssumption
<1>2. \A i \in 1..Len(text) : text[i] \in (1..ChunkBytes) \X (1..ChunkBytes)
  BY <1>1
<1>3. /\ Len(Encode(n, text)) = Len(text) /\ Encode(n, text) \in Seq(Byte)
      /\ \A i \in 1..Len(text) : Encode(n, text)[i] = <<n, text[i][1], text[i][2]>>
  <2>1. \A i \in 1..Len(text) : <<n, text[i][1], text[i][2]>> \in Byte
    BY <1>2 DEF Byte
  <2>2. Len(text) \in Nat
    BY <1>1
  <2> QED
    BY <2>1, <2>2 DEF Encode
<1>4. WholeBytes(Encode(n, text))
  <2> DEFINE data == Encode(n, text)
  <2> SUFFICES ASSUME NEW i \in 1..Len(text)
               PROVE  LET start == i - data[i][2]
                          width == data[i][3]
                      IN  /\ data[i][2] <= width /\ start \in 0..(Len(data) - width)
                          /\ \A p \in 1..width :
                                    data[start + p][2] = p /\ data[start + p][3] = width
    BY <1>3 DEF WholeBytes
  <2>1. data[i][2] = text[i][1] /\ data[i][3] = text[i][2] /\ Len(data) = Len(text)
    BY <1>3
  <2>2. /\ text[i][1] <= text[i][2] /\ i - text[i][1] \in 0..(Len(text) - text[i][2])
        /\ \A p \in 1..text[i][2] : text[i - text[i][1] + p] = <<p, text[i][2]>>
    BY <1>1 DEF WholeCharacters
  <2>3. text[i][1] \in 1..ChunkBytes /\ text[i][2] \in 1..ChunkBytes /\ Len(text) \in Nat
    BY <1>1, <1>2
  <2>4. ASSUME NEW p \in 1..text[i][2]
        PROVE  data[i - text[i][1] + p][2] = p /\ data[i - text[i][1] + p][3] = text[i][2]
    <3>1. i - text[i][1] + p \in 1..Len(text)
      <4> DEFINE start == i - text[i][1]
                 width == text[i][2]
                 size == Len(text)
      <4>1. start \in 0..(size - width) /\ p \in 1..width /\ width \in Nat /\ size \in Nat
        BY <2>2, <2>3
      <4> HIDE DEF start, width, size
      <4>2. start + p \in 1..size
        BY <4>1
      <4> QED
        BY <4>2 DEF start, size
    <3>2. text[i - text[i][1] + p] = <<p, text[i][2]>>
      BY <2>2
    <3> QED
      BY <1>3, <3>1, <3>2
  <2> HIDE DEF data
  <2> QED
    BY <2>1, <2>2, <2>4
<1> QED
  BY <1>3, <1>4

\* A text starts and ends with a character; a byte that does not end one is
\* followed by one that does not start one.
LEMMA Characters ==
  ASSUME NEW data \in Seq(Byte), WholeBytes(data)
  PROVE  /\ Boundary(data, 0) /\ Boundary(data, Len(data))
         /\ \A i \in 1..(Len(data) - 1) : Lead(data[i + 1]) => Last(data[i])
         /\ \A s \in 0..(Len(data) - 1) : Boundary(data, s) =>
              \E w \in 1..ChunkBytes : s + w <= Len(data) /\ Boundary(data, s + w)
<1>0. /\ Len(data) \in Nat
      /\ \A i \in 1..Len(data) : data[i][2] \in 1..ChunkBytes /\ data[i][3] \in 1..ChunkBytes
  <2>1. \A i \in 1..Len(data) : data[i] \in Byte
    OBVIOUS
  <2> QED
    BY <2>1 DEF Byte
<1>1. \A i \in 1..Len(data) :
        /\ data[i][2] <= data[i][3] /\ i - data[i][2] \in 0..(Len(data) - data[i][3])
        /\ \A p \in 1..data[i][3] :
             data[i - data[i][2] + p][2] = p /\ data[i - data[i][2] + p][3] = data[i][3]
  BY DEF WholeBytes
<1>2. Len(data) > 0 => Lead(data[1])
  <2> SUFFICES ASSUME Len(data) > 0 PROVE data[1][2] = 1
    BY DEF Lead
  <2>1. 1 \in 1..Len(data)
    BY <1>0
  <2>2. 1 - data[1][2] >= 0
    BY <1>0, <1>1, <2>1
  <2> QED
    BY <1>0, <2>1, <2>2
<1>3. Len(data) > 0 => Last(data[Len(data)])
  <2> SUFFICES ASSUME Len(data) > 0 PROVE data[Len(data)][2] = data[Len(data)][3]
    BY DEF Last
  <2>1. Len(data) \in 1..Len(data)
    BY <1>0
  <2>2. Len(data) - data[Len(data)][2] <= Len(data) - data[Len(data)][3]
    BY <1>0, <1>1, <2>1
  <2>3. data[Len(data)][2] <= data[Len(data)][3]
    BY <1>1, <2>1
  <2>4. data[Len(data)][2] \in Int /\ data[Len(data)][3] \in Int
    BY <1>0, <2>1
  <2> QED
    BY <1>0, <2>2, <2>3, <2>4
<1>4. ASSUME NEW i \in 1..(Len(data) - 1), Lead(data[i + 1]) PROVE Last(data[i])
  <2>0. i \in 1..Len(data)
    BY <1>0
  <2> DEFINE pos == data[i][2]
             width == data[i][3]
  <2>1. pos \in 1..ChunkBytes /\ width \in 1..ChunkBytes /\ pos <= width
    BY <1>0, <1>1, <2>0
  <2>2. \A p \in 1..width : data[i - pos + p][2] = p
    BY <1>1, <2>0
  <2>3. CASE pos = width
    BY <2>3 DEF Last
  <2>4. CASE pos < width
    <3>1. pos + 1 \in 1..width /\ i - pos + (pos + 1) = i + 1
      BY <2>1, <2>4
    <3> HIDE DEF pos, width
    <3>2. data[i + 1][2] = pos + 1
      BY <2>2, <3>1
    <3> QED
      BY <1>4, <2>1, <3>2 DEF Lead
  <2> QED
    BY <2>1, <2>3, <2>4
<1>5. ASSUME NEW s \in 0..(Len(data) - 1), Boundary(data, s)
      PROVE  \E w \in 1..ChunkBytes : s + w <= Len(data) /\ Boundary(data, s + w)
  <2>0. s + 1 \in 1..Len(data)
    BY <1>0
  <2> DEFINE w == data[s + 1][3]
  <2>1. data[s + 1][2] = 1 /\ w \in 1..ChunkBytes
    BY <1>0, <1>5, <2>0 DEF Boundary, Lead
  <2>2. s + w <= Len(data) /\ \A p \in 1..w : data[s + p][2] = p /\ data[s + p][3] = w
    <3>1. (s + 1) - 1 = s
      BY <1>0
    <3>2. /\ (s + 1) - 1 \in 0..(Len(data) - w)
          /\ \A p \in 1..w : data[(s + 1) - 1 + p][2] = p /\ data[(s + 1) - 1 + p][3] = w
      <4>1. /\ (s + 1) - data[s + 1][2] \in 0..(Len(data) - data[s + 1][3])
            /\ \A p \in 1..data[s + 1][3] :
                 /\ data[(s + 1) - data[s + 1][2] + p][2] = p
                 /\ data[(s + 1) - data[s + 1][2] + p][3] = data[s + 1][3]
        BY <1>1, <2>0
      <4> QED
        BY <2>1, <4>1
    <3> HIDE DEF w
    <3>3. s + w <= Len(data)
      BY <1>0, <2>1, <3>1, <3>2
    <3> QED
      BY <3>1, <3>2, <3>3
  <2>3. Last(data[s + w])
    BY <2>1, <2>2 DEF Last
  <2>4. ASSUME s + w < Len(data) PROVE Lead(data[s + w + 1])
    <3>0. s + w + 1 \in 1..Len(data) /\ s + w \in 1..Len(data)
      BY <1>0, <2>1, <2>4
    <3> DEFINE q == data[s + w + 1][2]
               v == data[s + w + 1][3]
    <3>1. q \in 1..ChunkBytes /\ v \in 1..ChunkBytes /\ q <= v
      BY <1>0, <1>1, <3>0
    <3>2. \A p \in 1..v : data[(s + w + 1) - q + p][2] = p /\ data[(s + w + 1) - q + p][3] = v
      BY <1>1, <3>0
    <3>3. data[s + w][2] = w /\ data[s + w][3] = w
      BY <2>1, <2>2
    <3> HIDE DEF q, v, w
    <3>4. q = 1
      <4> SUFFICES ASSUME q > 1 PROVE FALSE
        BY <3>1
      <4>1. q - 1 \in 1..v /\ (s + w + 1) - q + (q - 1) = s + w
        BY <3>1, <2>1
      <4>2. data[s + w][2] = q - 1 /\ data[s + w][3] = v
        BY <3>2, <4>1
      <4> QED
        BY <3>1, <3>3, <4>2
    <3> QED
      BY <3>4 DEF Lead, q
  <2> HIDE DEF w
  <2>5. Boundary(data, s + w)
    BY <1>0, <2>1, <2>2, <2>3, <2>4 DEF Boundary
  <2> QED
    BY <2>1, <2>2, <2>5
<1>6. Boundary(data, 0) /\ Boundary(data, Len(data))
  BY <1>0, <1>2, <1>3 DEF Boundary
<1> QED
  BY <1>4, <1>5, <1>6

\* A nonempty set of numbers below a bound has a greatest one.
LEMMA Greatest ==
  ASSUME NEW S \in SUBSET Nat, S # {}, NEW bound \in Nat, \A x \in S : x <= bound
  PROVE  \E x \in S : \A y \in S : y <= x
<1> DEFINE T == {bound - x : x \in S}
<1>1. T \subseteq Nat /\ T # {}
  <2>1. \A x \in S : bound - x \in Nat
    OBVIOUS
  <2>2. PICK x \in S : TRUE
    OBVIOUS
  <2>3. bound - x \in T
    BY <2>2
  <2> QED
    BY <2>1, <2>3
<1>2. PICK t \in T : \A u \in T : ~(<<u, t>> \in OpToRel(<, Nat))
  BY <1>1, NatLessThanWellFounded, WFMin
<1>3. \A u \in T : ~(u < t)
  BY <1>1, <1>2 DEF OpToRel
<1>4. PICK x \in S : t = bound - x
  BY <1>2
<1>5. \A y \in S : y <= x
  <2> SUFFICES ASSUME NEW y \in S PROVE y <= x
    OBVIOUS
  <2>1. bound - y \in T
    OBVIOUS
  <2>2. ~(bound - y < bound - x)
    BY <1>3, <1>4, <2>1
  <2> QED
    BY <2>2
<1> QED
  BY <1>5

\* A chunk ends with a character, after its start.
LEMMA CutBoundary ==
  ASSUME NEW data \in Seq(Byte), WholeBytes(data), NEW s \in Nat, Boundary(data, s)
  PROVE  /\ Boundary(data, Cut(data, s))
         /\ Cut(data, s) >= s
<1> DEFINE limit == s + ChunkBytes
           starts == {e \in (s + 1)..limit : Lead(data[e + 1])}
<1>0. Len(data) \in Nat /\ ChunkBytes \in Nat \ {0} /\ s <= Len(data)
  BY SpoolAssumption DEF Boundary
<1>1. CASE limit >= Len(data)
  BY <1>0, <1>1, Characters DEF Cut
<1>2. CASE limit < Len(data)
  <2>1. PICK w \in 1..ChunkBytes : s + w <= Len(data) /\ Boundary(data, s + w)
    <3>1. s \in 0..(Len(data) - 1)
      BY <1>0, <1>2
    <3> HIDE DEF limit, starts
    <3>2. \A z \in 0..(Len(data) - 1) : Boundary(data, z) =>
            \E v \in 1..ChunkBytes : z + v <= Len(data) /\ Boundary(data, z + v)
      BY Characters
    <3> QED
      BY <3>1, <3>2, Zenon
  <2>2. s + w \in starts
    BY <1>0, <1>2, <2>1 DEF Boundary
  <2>3. \E e \in starts : \A o \in starts : o <= e
    <3>1. starts \in SUBSET Nat /\ limit \in Nat /\ \A x \in starts : x <= limit
      BY <1>0
    <3>2. starts # {}
      BY <2>2
    <3> HIDE DEF starts, limit
    <3> QED
      BY <3>1, <3>2, Greatest
  <2> DEFINE end == CHOOSE e \in starts : \A o \in starts : o <= e
  <2>4. end \in starts
    BY <2>3
  <2>5. Cut(data, s) = end
    <3>1. Cut(data, s) = IF limit >= Len(data) THEN Len(data)
                         ELSE IF starts = {} THEN limit ELSE end
      BY Zenon DEF Cut
    <3>2. ~(limit >= Len(data))
      BY <1>0, <1>2
    <3>3. starts # {}
      BY <2>2
    <3> HIDE DEF starts, limit, end
    <3> QED
      BY <3>1, <3>2, <3>3
  <2> HIDE DEF end
  <2>6. end \in 1..(Len(data) - 1) /\ end > s /\ Lead(data[end + 1])
    BY <1>0, <1>2, <2>4
  <2>7. Last(data[end])
    BY <2>6, Characters
  <2> QED
    BY <1>0, <2>5, <2>6, <2>7 DEF Boundary
<1> QED
  BY <1>0, <1>1, <1>2

\* Finitely many artifacts have finitely many names.
LEMMA FiniteIds ==
  ASSUME NEW S, IsFiniteSet(S)
  PROVE  IsFiniteSet({x.id : x \in S})
<1> DEFINE f == [x \in S |-> x.id]
           T == {x.id : x \in S}
<1>1. f \in Surjection(S, T)
  BY DEF Surjection
<1> QED
  BY <1>1, FS_Surjection

\* A new artifact name is one that nothing uses.
LEMMA FreshIsNew ==
  ASSUME Typed
  PROVE  /\ Fresh \in Nat \ {0}
         /\ \A d \in disk : d.id # Fresh
         /\ \A t \in arts : t.id # Fresh
         /\ Fresh \notin prune.files
         /\ \A a \in Actors : loc[a].art # Fresh
<1> DEFINE files == {d.id : d \in disk}
           rows == {t.id : t \in arts}
           held == {loc[a].art : a \in Actors}
           taken == files \cup rows \cup prune.files \cup held
<1>1. IsFiniteSet(files) /\ IsFiniteSet(rows) /\ IsFiniteSet(held)
  <2>1. IsFiniteSet(files)
    BY FiniteIds DEF Typed
  <2>2. IsFiniteSet(rows)
    BY FiniteIds DEF Typed
  <2>3. held = ({} \cup {loc["worker"].art}) \cup {loc["force"].art}
    BY DEF Actors
  <2>4. IsFiniteSet({} \cup {loc["worker"].art})
    BY FS_EmptySet, FS_AddElement
  <2>5. IsFiniteSet(held)
    <3> HIDE DEF held
    <3> QED
      BY <2>3, <2>4, FS_AddElement
  <2> QED
    BY <2>1, <2>2, <2>5
<1>2. IsFiniteSet(taken) /\ Cardinality(taken) \in Nat
  <2>1. IsFiniteSet(prune.files)
    BY DEF Typed
  <2> QED
    BY <1>1, <2>1, FS_Union, FS_CardinalityType
<1>3. \E i \in 1..(Cardinality(taken) + 1) : i \notin taken
  <2> HIDE DEF taken
  <2> SUFFICES ASSUME 1..(Cardinality(taken) + 1) \subseteq taken PROVE FALSE
    OBVIOUS
  <2>1. Cardinality(1..(Cardinality(taken) + 1)) = Cardinality(taken) + 1
    BY <1>2, FS_Interval
  <2>2. Cardinality(1..(Cardinality(taken) + 1)) <= Cardinality(taken)
    BY <1>2, FS_Subset
  <2> QED
    BY <1>2, <2>1, <2>2
<1>4. Fresh = CHOOSE i \in 1..(Cardinality(taken) + 1) : i \notin taken
  BY DEF Fresh
<1>5. Fresh \in 1..(Cardinality(taken) + 1) /\ Fresh \notin taken
  <2> HIDE DEF taken
  <2> QED
    BY <1>3, <1>4
<1> QED
  BY <1>2, <1>5

-----------------------------------------------------------------------------
(***************************************************************************)
(* The type invariant.                                                     *)
(***************************************************************************)
\* The values the actions start from are typed.
LEMMA ValuesTyped ==
  /\ NoLoc \in Locals /\ [NoLoc EXCEPT !.again = TRUE] \in Locals
  /\ Idle \in Writers /\ Idle.stage = "none"
  /\ NoPage \in Pages /\ NoPage.at = "idle"
  /\ NoPrune \in Prunes /\ NoPrune.at = "idle" /\ IsFiniteSet(NoPrune.files)
  /\ \A n \in Nat : IndexRow(n) \in Rows
  /\ \A m, n \in Nat : m <= n => Span(m, n) \in Rows
  /\ "worker" \in Actors /\ "force" \in Actors
<1>1. NoLoc \in Locals
  BY DEF NoLoc, Locals
<1>2. [NoLoc EXCEPT !.again = TRUE] \in Locals
  BY <1>1 DEF Locals
<1>3. Idle \in Writers /\ Idle.stage = "none"
  BY DEF Idle, Writers
<1>4. NoPage \in Pages /\ NoPage.at = "idle"
  BY DEF NoPage, Pages
<1>7. NoPrune \in Prunes /\ NoPrune.at = "idle" /\ IsFiniteSet(NoPrune.files)
  BY FS_EmptySet DEF NoPrune, Prunes
<1>5. \A n \in Nat : IndexRow(n) \in Rows
  BY DEF IndexRow, Rows
<1>6. \A m, n \in Nat : m <= n => Span(m, n) \in Rows
  BY DEF Span, Rows
<1> QED
  BY <1>1, <1>2, <1>3, <1>4, <1>5, <1>6, <1>7 DEF Actors

\* Output that is marked incomplete: nothing else in the row changes.
LEMMA RowMarked ==
  ASSUME row \in Execution, row' = [row EXCEPT !.complete = FALSE]
  PROVE  /\ row' \in Execution /\ ~row'.complete
         /\ row'.exists = row.exists /\ row'.size = row.size /\ row'.spooled = row.spooled
         /\ row'.sealed = row.sealed /\ row'.sha = row.sha /\ row'.proved = row.proved
         /\ row'.terminal = row.terminal
  BY DEF Execution

\* A recorded proof: nothing else in the row changes.
LEMMA RowProved ==
  ASSUME row \in Execution, row' = [row EXCEPT !.proved = TRUE]
  PROVE  /\ row' \in Execution /\ row'.proved
         /\ row'.exists = row.exists /\ row'.size = row.size /\ row'.spooled = row.spooled
         /\ row'.sealed = row.sealed /\ row'.sha = row.sha /\ row'.complete = row.complete
         /\ row'.terminal = row.terminal
  BY DEF Execution

\* A terminal transition: nothing else in the row changes.
LEMMA RowEnded ==
  ASSUME row \in Execution, row' = [row EXCEPT !.terminal = TRUE]
  PROVE  /\ row' \in Execution /\ row'.terminal
         /\ row'.exists = row.exists /\ row'.size = row.size /\ row'.spooled = row.spooled
         /\ row'.sealed = row.sealed /\ row'.sha = row.sha /\ row'.complete = row.complete
         /\ row'.proved = row.proved
  BY DEF Execution

\* A deleted row.
LEMMA RowDeleted ==
  ASSUME row \in Execution, row' = [row EXCEPT !.exists = FALSE]
  PROVE  /\ row' \in Execution /\ ~row'.exists
         /\ row'.size = row.size /\ row'.spooled = row.spooled /\ row'.sealed = row.sealed
         /\ row'.sha = row.sha /\ row'.complete = row.complete /\ row'.proved = row.proved
         /\ row'.terminal = row.terminal
  BY DEF Execution

\* A longer text: nothing else in the row changes.
LEMMA RowGrown ==
  ASSUME row \in Execution, NEW n \in Nat,
         row' = [row EXCEPT !.spooled = TRUE, !.size = n]
  PROVE  /\ row' \in Execution /\ row'.spooled /\ row'.size = n
         /\ row'.exists = row.exists /\ row'.sealed = row.sealed /\ row'.sha = row.sha
         /\ row'.complete = row.complete /\ row'.proved = row.proved /\ row'.terminal = row.terminal
  BY DEF Execution

\* A sealed output: nothing else in the row changes.
LEMMA RowSealed ==
  ASSUME row \in Execution, NEW d \in Seq(Byte),
         row' = [row EXCEPT !.sealed = TRUE, !.sha = d]
  PROVE  /\ row' \in Execution /\ row'.sealed /\ row'.sha = d
         /\ row'.exists = row.exists /\ row'.size = row.size /\ row'.spooled = row.spooled
         /\ row'.complete = row.complete /\ row'.proved = row.proved /\ row'.terminal = row.terminal
  BY DEF Execution

\* The text that is written and the rows that are indexed keep the append typed.
LEMMA WriterTyped ==
  ASSUME Typed, Transaction
  PROVE  /\ \A n \in 1..MaxAppends, text \in Texts : Encode(n, text) \in Seq(Byte)
         /\ OpenSpool => file' \in Seq(Byte) /\ writer' \in Writers
         /\ WriteBytes => file' \in Seq(Byte) /\ writer' \in Writers
         /\ IndexChunk => writer' \in Writers
         /\ UndoAppend => file' \in Seq(Byte)
<1>1. \A n \in 1..MaxAppends, text \in Texts : Encode(n, text) \in Seq(Byte)
  BY EncodeWhole
<1>2. file \in Seq(Byte) /\ writer \in Writers
  BY DEF Typed, TypeOK
<1>3. /\ writer.off \in Nat /\ writer.data \in Seq(Byte) /\ writer.left \in Seq(Byte)
      /\ writer.rows \in Seq(Rows) /\ writer.cut \in Nat
  BY <1>2 DEF Writers
<1>4. ASSUME OpenSpool PROVE file' \in Seq(Byte) /\ writer' \in Writers
  <2>1. Truncate(file, writer.off) \in Seq(Byte)
    BY <1>2, <1>3, TruncateKeeps
  <2> QED
    BY <1>2, <1>4, <2>1 DEF OpenSpool, Writers
<1>5. ASSUME WriteBytes PROVE file' \in Seq(Byte) /\ writer' \in Writers
  <2>1. PICK n \in {1, Len(writer.left)} :
          /\ file' = file \o SubSeq(writer.left, 1, n)
          /\ writer' = [writer EXCEPT !.left = SubSeq(writer.left, n + 1, Len(writer.left))]
    BY <1>5 DEF WriteBytes
  <2>2. Len(writer.left) \in Nat /\ Len(writer.left) > 0
    BY <1>3, <1>5, EmptySeq DEF WriteBytes
  <2>3. SubSeq(writer.left, 1, n) \in Seq(Byte)
    BY <1>3, <2>2, Slice
  <2>4. SubSeq(writer.left, n + 1, Len(writer.left)) \in Seq(Byte)
    BY <1>3, <2>2, Slice
  <2>5. file' \in Seq(Byte)
    BY <1>2, <2>1, <2>3, ConcatProperties
  <2> QED
    BY <1>2, <2>1, <2>4, <2>5 DEF Writers
<1>6. ASSUME IndexChunk PROVE writer' \in Writers
  <2> DEFINE end == Cut(writer.data, writer.cut)
             span == Span(writer.off + writer.cut, writer.off + end)
  <2>1. WholeBytes(writer.data) /\ Boundary(writer.data, writer.cut)
    BY <1>6 DEF Transaction, IndexChunk
  <2>2. Boundary(writer.data, end) /\ end >= writer.cut
    BY <1>3, <2>1, CutBoundary
  <2>3. end \in Nat
    BY <1>3, <2>2 DEF Boundary
  <2>4. writer' = [writer EXCEPT !.rows = Append(writer.rows, span), !.cut = end]
    BY <1>6 DEF IndexChunk
  <2> HIDE DEF end
  <2>5. writer.off + writer.cut \in Nat /\ writer.off + end \in Nat
        /\ writer.off + writer.cut <= writer.off + end
    BY <1>3, <2>2, <2>3
  <2>6. span \in Rows
    BY <2>5, ValuesTyped
  <2> HIDE DEF span
  <2>7. Append(writer.rows, span) \in Seq(Rows)
    BY <1>3, <2>6, AppendProperties
  <2> QED
    BY <1>2, <2>3, <2>4, <2>7 DEF Writers
<1>7. ASSUME UndoAppend PROVE file' \in Seq(Byte)
  BY <1>2, <1>3, <1>7, TruncateKeeps DEF UndoAppend
<1> QED
  BY <1>1, <1>4, <1>5, <1>6, <1>7

\* A page ends at a row of the index, or nothing was read.
LEMMA PageTyped ==
  ASSUME Typed, PageRows
  PROVE  /\ page' \in Pages
         /\ page'.at # "idle" => \E n \in Nat :
              /\ page.cursor + n <= Len(index)
              /\ page'.got = page.got \o SubSeq(index, page.cursor + 1, page.cursor + n)
              /\ page'.cursor = page.cursor + n /\ page'.from = page.from
              /\ page'.at = IF n < Len(index) - page.cursor THEN "more" ELSE "end"
<1>0. /\ page \in Pages /\ page.cursor \in Nat /\ page.got \in Seq(Rows) /\ page.from \in Nat
      /\ index \in Seq(Rows) /\ Len(index) \in Nat
  BY DEF Typed, TypeOK, Pages
<1>1. PICK budget \in Budgets :
        LET rest == Len(index) - page.cursor
            n == Fits(index, page.cursor, budget)
            broken == \E i \in 1..(IF n < rest THEN n + 1 ELSE n) :
                        Unreadable(index[page.cursor + i])
        IN  page' = IF rest < 0 \/ broken \/ (rest > 0 /\ n = 0)
                    THEN [page EXCEPT !.at = "idle"]
                    ELSE [page EXCEPT !.got = @ \o SubSeq(index, page.cursor + 1, page.cursor + n),
                                      !.cursor = page.cursor + n,
                                      !.at = IF n < rest THEN "more" ELSE "end"]
  BY Zenon DEF PageRows
<1> DEFINE rest == Len(index) - page.cursor
           n == Fits(index, page.cursor, budget)
           more == SubSeq(index, page.cursor + 1, page.cursor + n)
<1>2. \/ page' = [page EXCEPT !.at = "idle"]
      \/ /\ ~(rest < 0)
         /\ page' = [page EXCEPT !.got = @ \o more, !.cursor = page.cursor + n,
                                 !.at = IF n < rest THEN "more" ELSE "end"]
  BY <1>1, Zenon
<1>3. rest \in Nat => n \in 0..rest
  <2> SUFFICES ASSUME rest \in Nat PROVE n \in 0..rest
    OBVIOUS
  <2> DEFINE fit == {k \in 1..rest : Used(index, page.cursor)[k] <= budget}
  <2>3. n = Cardinality(fit)
    BY DEF Fits
  <2>4. fit \in SUBSET (1..rest)
    OBVIOUS
  <2> HIDE DEF fit, rest, n
  <2>1. IsFiniteSet(1..rest)
    BY FS_Interval
  <2>2. Cardinality(1..rest) <= rest
    BY FS_Interval
  <2>5. IsFiniteSet(fit) /\ Cardinality(fit) <= Cardinality(1..rest)
    BY <2>1, <2>4, FS_Subset
  <2>6. Cardinality(fit) \in Nat /\ Cardinality(1..rest) \in Nat
    BY <2>1, <2>5, FS_CardinalityType
  <2> QED
    BY <2>2, <2>3, <2>5, <2>6
<1>4. CASE page' = [page EXCEPT !.at = "idle"]
  BY <1>0, <1>4 DEF Pages
<1>5. CASE /\ ~(rest < 0)
           /\ page' = [page EXCEPT !.got = @ \o more, !.cursor = page.cursor + n,
                                   !.at = IF n < rest THEN "more" ELSE "end"]
  <2>1. rest \in Nat
    BY <1>0, <1>5
  <2>2. n \in Nat /\ n <= rest
    BY <1>3, <2>1
  <2> HIDE DEF n
  <2>3. page.cursor + n \in Nat /\ page.cursor + n <= Len(index)
    BY <1>0, <2>2
  <2>4. more \in Seq(Rows)
    BY <1>0, <2>3, Slice
  <2> HIDE DEF more
  <2>5. page.got \o more \in Seq(Rows)
    BY <1>0, <2>4, ConcatProperties
  <2> HIDE DEF rest
  <2>6. page' \in Pages /\ page'.got = page.got \o more
        /\ page'.cursor = page.cursor + n /\ page'.from = page.from
        /\ page'.at = IF n < rest THEN "more" ELSE "end"
    BY <1>0, <1>5, <2>3, <2>5 DEF Pages
  <2> QED
    BY <2>2, <2>3, <2>6 DEF more, rest
<1> QED
  BY <1>2, <1>4, <1>5

-----------------------------------------------------------------------------
(***************************************************************************)
(* Typed: the values stay typed, and fresh names stay fresh.               *)
(***************************************************************************)
\* Every step keeps the types.
LEMMA TypedKept ==
  ASSUME Typed, Transaction, Hands, [Next]_vars
  PROVE  Typed'
<1>1. CASE BeginAppend
  <2>1. PICK text \in Texts :
          /\ appends' = appends + 1
          /\ IF row.exists /\ ~row.sealed
             THEN LET data == Encode(appends + 1, text)
                  IN  /\ writer' = [Idle EXCEPT !.off = row.size, !.data = data,
                                                !.left = data, !.stage = "open"]
                      /\ Go("worker", "append")
             ELSE Raise("worker") /\ writer' = writer
    BY <1>1 DEF BeginAppend
  <2>2. appends' \in 1..MaxAppends /\ appends' = appends + 1
    BY <1>1, <2>1, SpoolAssumption DEF BeginAppend, Typed
  <2>3. CASE row.exists /\ ~row.sealed
    <3>1. row.size \in Nat /\ Encode(appends + 1, text) \in Seq(Byte)
      BY <2>2, WriterTyped DEF Typed, TypeOK, Execution
    <3>2. writer' \in Writers /\ writer'.stage = "open"
      BY <2>1, <2>3, <3>1, ValuesTyped DEF Writers
    <3>3. pc' \in [Actors -> Places] /\ pc'["worker"] = "append"
      BY <2>1, <2>3, ValuesTyped DEF Go, Typed, TypeOK, Places
    <3> QED
      BY <1>1, <2>2, <3>2, <3>3 DEF BeginAppend, Typed, TypeOK, store
  <2>4. CASE ~(row.exists /\ ~row.sealed)
    <3>1. pc' \in [Actors -> Places] /\ pc'["worker"] # "append" /\ writer' = writer
      BY <2>1, <2>4, ValuesTyped DEF Raise, Go, Typed, TypeOK, Places
    <3>2. pc["worker"] # "append"
      BY <1>1 DEF BeginAppend
    <3> QED
      BY <1>1, <2>2, <3>1, <3>2 DEF BeginAppend, Typed, TypeOK, store
  <2> QED
    BY <2>3, <2>4
<1>2. CASE OpenSpool
  <2>1. file' \in Seq(Byte) /\ writer' \in Writers /\ writer'.stage = "write"
    BY <1>2, WriterTyped DEF OpenSpool, Typed, Writers
  <2> QED
    BY <1>2, <2>1 DEF OpenSpool, Typed, TypeOK, store, counters
<1>3. CASE WriteBytes
  <2>1. file' \in Seq(Byte) /\ writer' \in Writers /\ writer'.stage = "write"
    BY <1>3, WriterTyped DEF WriteBytes, Typed, Writers
  <2> QED
    BY <1>3, <2>1 DEF WriteBytes, Typed, TypeOK, store, counters
<1>4. CASE IndexChunk
  <2>1. writer' \in Writers /\ writer'.stage = "write"
    BY <1>4, WriterTyped DEF IndexChunk, Typed, Writers
  <2> QED
    BY <1>4, <2>1 DEF IndexChunk, Typed, TypeOK, store, counters
<1>5. CASE CommitAppend
  <2>1. /\ writer.off + Len(writer.data) \in Nat /\ writer.rows \in Seq(Rows)
        /\ row \in Execution /\ index \in Seq(Rows)
    BY DEF Typed, TypeOK, Writers
  <2>2. row' \in Execution
    BY <1>5, <2>1, RowGrown DEF CommitAppend
  <2>3. index' \in Seq(Rows)
    BY <1>5, <2>1, ConcatProperties DEF CommitAppend
  <2>4. writer' \in Writers /\ writer'.stage = "none"
    BY <1>5, ValuesTyped DEF CommitAppend
  <2>5. pc' \in [Actors -> Places] /\ pc'["worker"] = "idle"
    BY <1>5, ValuesTyped DEF CommitAppend, Go, Typed, TypeOK, Places
  <2> QED
    BY <1>5, <2>2, <2>3, <2>4, <2>5 DEF CommitAppend, Typed, TypeOK, counters
<1>6. CASE AppendFails
  <2>1. writer' \in Writers /\ writer'.stage = "undo"
    BY <1>6 DEF AppendFails, Typed, Writers
  <2> QED
    BY <1>6, <2>1 DEF AppendFails, Typed, TypeOK, store
<1>7. CASE UndoAppend
  <2>1. file' \in Seq(Byte)
    BY <1>7, WriterTyped
  <2>2. writer' \in Writers /\ writer'.stage = "none"
    BY <1>7, ValuesTyped DEF UndoAppend
  <2>3. pc' \in [Actors -> Places] /\ pc'["worker"] # "append"
    BY <1>7, ValuesTyped DEF UndoAppend, Raise, Go, Typed, TypeOK, Places
  <2> QED
    BY <1>7, <2>1, <2>2, <2>3 DEF UndoAppend, Typed, TypeOK, store
<1>8. CASE WriteRich
  <2>1. Fresh \in Nat \ {0}
    BY FreshIsNew
  <2>2. disk' \subseteq ArtifactFile /\ IsFiniteSet(disk')
    <3>1. [id |-> Fresh, data |-> <<>>] \in ArtifactFile
      BY <2>1 DEF ArtifactFile
    <3> QED
      BY <1>8, <3>1, FS_AddElement DEF WriteRich, Typed, TypeOK
  <2>3. loc' \in [Actors -> Locals]
    <3>1. loc' = [loc EXCEPT !["worker"].art = Fresh] /\ loc \in [Actors -> Locals]
      BY <1>8 DEF WriteRich, Typed
    <3> HIDE DEF Fresh
    <3> QED
      BY <2>1, <3>1, ValuesTyped DEF Locals
  <2>4. /\ pc' \in [Actors -> Places]
        /\ pc'["worker"] # "append" /\ pc["worker"] # "append"
    BY <1>8, ValuesTyped DEF WriteRich, Go, Typed, TypeOK, Places
  <2> QED
    BY <1>8, <2>2, <2>3, <2>4 DEF WriteRich, Typed, TypeOK, store
<1>9. CASE InsertRich
  <2>1. disk' \subseteq disk
    BY <1>9 DEF InsertRich
  <2>2. disk' \subseteq ArtifactFile /\ IsFiniteSet(disk')
    BY <2>1, FS_Subset DEF Typed, TypeOK
  <2>3. arts' \subseteq Artifact /\ IsFiniteSet(arts')
    <3> DEFINE art == [id |-> loc["worker"].art, data |-> <<>>, whole |-> FALSE]
    <3>1. arts' = arts \/ (arts' = arts \cup {art} /\ row.exists)
      BY <1>9 DEF InsertRich
    <3>2. art \in Artifact
      <4>1. loc["worker"].art # 0
        BY <1>9, ValuesTyped DEF InsertRich, Hands, InHand
      <4>2. loc["worker"].art \in Nat
        BY ValuesTyped DEF Typed, Locals
      <4> QED
        BY <4>1, <4>2 DEF Artifact
    <3> HIDE DEF art
    <3> QED
      BY <3>1, <3>2, FS_AddElement DEF Typed, TypeOK
  <2>4. /\ pc' \in [Actors -> Places]
        /\ pc'["worker"] # "append" /\ pc["worker"] # "append"
    BY <1>9, ValuesTyped DEF InsertRich, Raise, Go, Typed, TypeOK, Places
  <2> QED
    BY <1>9, <2>2, <2>3, <2>4 DEF InsertRich, Typed, TypeOK
<1>10. CASE IndexRich
  <2>1. index' \in Seq(Rows)
    <3>1. loc["worker"].art \in Nat
      BY ValuesTyped DEF Typed, Locals
    <3>2. IndexRow(loc["worker"].art) \in Rows
      BY <3>1, ValuesTyped
    <3>3. Append(index, IndexRow(loc["worker"].art)) \in Seq(Rows)
      BY <3>2, AppendProperties DEF Typed, TypeOK
    <3> QED
      BY <1>10, <3>3 DEF IndexRich, Typed, TypeOK
  <2>2. /\ pc' \in [Actors -> Places]
        /\ pc'["worker"] # "append" /\ pc["worker"] # "append"
    BY <1>10, ValuesTyped DEF IndexRich, Raise, Go, Typed, TypeOK, Places
  <2> QED
    BY <1>10, <2>1, <2>2 DEF IndexRich, Typed, TypeOK, counters
<1>11. CASE IndexEvent
  <2>1. index' \in Seq(Rows)
    <3>1. Append(index, IndexRow(0)) \in Seq(Rows)
      BY ValuesTyped, AppendProperties DEF Typed, TypeOK
    <3> QED
      BY <1>11, <3>1 DEF IndexEvent, Typed, TypeOK
  <2>2. /\ pc' \in [Actors -> Places]
        /\ pc'["worker"] # "append" /\ pc["worker"] # "append"
    BY <1>11, ValuesTyped DEF IndexEvent, Raise, Go, Typed, TypeOK, Places
  <2> QED
    BY <1>11, <2>1, <2>2 DEF IndexEvent, Typed, TypeOK
<1>12. CASE Settle
  <2>1. row' \in Execution
    BY <1>12, RowProved DEF Settle, Typed, TypeOK
  <2>2. /\ pc' \in [Actors -> Places]
        /\ pc'["worker"] # "append" /\ pc["worker"] # "append"
    BY <1>12, ValuesTyped DEF Settle, Go, Typed, TypeOK, Places
  <2> QED
    BY <1>12, <2>1, <2>2 DEF Settle, Typed, TypeOK, counters
<1>13. CASE Fail
  <2>1. row' \in Execution
    BY <1>13, RowMarked DEF Fail, Typed, TypeOK
  <2>2. loc' \in [Actors -> Locals]
    BY <1>13, ValuesTyped DEF Fail, Typed
  <2>3. /\ pc' \in [Actors -> Places]
        /\ pc'["worker"] # "append" /\ pc["worker"] # "append"
    BY <1>13, ValuesTyped DEF Fail, Go, Typed, TypeOK, Places
  <2> QED
    BY <1>13, <2>1, <2>2, <2>3 DEF Fail, Typed, TypeOK, counters
<1>14. CASE ForcedStop
  <2>1. row' \in Execution
    BY <1>14, RowMarked DEF ForcedStop, Typed, TypeOK
  <2>2. loc' \in [Actors -> Locals]
    BY <1>14, ValuesTyped DEF ForcedStop, Typed
  <2>3. pc' \in [Actors -> Places] /\ pc'["worker"] = pc["worker"]
    BY <1>14, ValuesTyped DEF ForcedStop, Go, Typed, TypeOK, Places
  <2> QED
    BY <1>14, <2>1, <2>2, <2>3 DEF ForcedStop, Typed, TypeOK
<1>15. CASE WorkerYields
  <2>1. /\ pc' \in [Actors -> Places]
        /\ pc'["worker"] # "append" /\ pc["worker"] # "append"
    BY <1>15, ValuesTyped DEF WorkerYields, Go, Typed, TypeOK, Places
  <2> QED
    BY <1>15, <2>1 DEF WorkerYields, Typed, TypeOK, store, counters
<1>16. CASE Crash
  <2>1. pc' \in [Actors -> Places] /\ pc'["worker"] # "append"
    BY <1>16, ValuesTyped DEF Crash, Places
  <2>2. loc' \in [Actors -> Locals]
    BY <1>16, ValuesTyped DEF Crash
  <2>3. writer' \in Writers /\ writer'.stage = "none"
    BY <1>16, ValuesTyped DEF Crash
  <2> QED
    BY <1>16, <2>1, <2>2, <2>3 DEF Crash, Typed, TypeOK, store
<1>17. CASE Restart
  <2>1. row' \in Execution
    BY <1>17, RowMarked DEF Restart, Typed, TypeOK
  <2>2. /\ pc' \in [Actors -> Places]
        /\ pc'["worker"] # "append" /\ pc["worker"] # "append"
    BY <1>17, ValuesTyped DEF Restart, Go, Typed, TypeOK, Places
  <2> QED
    BY <1>17, <2>1, <2>2 DEF Restart, Typed, TypeOK, counters
<1>18. ASSUME NEW a \in Actors, FinalizeReads(a) PROVE Typed'
  <2>1. loc' \in [Actors -> Locals]
    <3> DEFINE whole == {t.id : t \in {t \in arts : t.whole}}
    <3>1. whole \in SUBSET (Nat \ {0})
      BY DEF Typed, TypeOK, Artifact
    <3>2. loc' = [loc EXCEPT ![a].size = row.size, ![a].spooled = row.spooled,
                             ![a].digest = <<>>, ![a].existing = whole]
      BY <1>18 DEF FinalizeReads
    <3>3. row.size \in Nat /\ row.spooled \in BOOLEAN
      BY DEF Typed, TypeOK, Execution
    <3>4. <<>> \in Seq(Byte)
      BY EmptySeq
    <3> HIDE DEF whole
    <3>5. [loc[a] EXCEPT !.size = row.size, !.spooled = row.spooled,
                         !.digest = <<>>, !.existing = whole] \in Locals
      BY <3>1, <3>3, <3>4 DEF Typed, Locals
    <3> QED
      BY <3>2, <3>5 DEF Typed
  <2>2. pc' \in [Actors -> Places] /\ (pc'["worker"] = "append" <=> pc["worker"] = "append")
    BY <1>18 DEF FinalizeReads, Raise, Go, Typed, TypeOK, Places, Actors
  <2> QED
    BY <1>18, <2>1, <2>2 DEF FinalizeReads, Typed, TypeOK, store, counters
<1>19. ASSUME NEW a \in Actors, FinalizeHashes(a) PROVE Typed'
  <2>1. loc' \in [Actors -> Locals]
    BY <1>19 DEF FinalizeHashes, Typed, TypeOK, Locals
  <2>2. pc' \in [Actors -> Places] /\ (pc'["worker"] = "append" <=> pc["worker"] = "append")
    BY <1>19 DEF FinalizeHashes, Go, Typed, TypeOK, Places, Actors
  <2> QED
    BY <1>19, <2>1, <2>2 DEF FinalizeHashes, Typed, TypeOK, store, counters
<1>20. ASSUME NEW a \in Actors, FinalizeStats(a) PROVE Typed'
  <2>1. pc' \in [Actors -> Places] /\ (pc'["worker"] = "append" <=> pc["worker"] = "append")
    BY <1>20 DEF FinalizeStats, Raise, Go, Typed, TypeOK, Places, Actors
  <2> QED
    BY <1>20, <2>1 DEF FinalizeStats, Typed, TypeOK, store, counters
<1>21. ASSUME NEW a \in Actors, FinalizeCopies(a) PROVE Typed'
  <2>1. Fresh \in Nat \ {0}
    BY FreshIsNew
  <2> HIDE DEF Fresh
  <2>2. disk' \subseteq ArtifactFile /\ IsFiniteSet(disk')
    <3>1. [id |-> Fresh, data |-> file] \in ArtifactFile
      BY <2>1 DEF ArtifactFile, Typed, TypeOK
    <3>2. disk' = disk \/ disk' = disk \cup {[id |-> Fresh, data |-> file]}
      BY <1>21 DEF FinalizeCopies
    <3>3. IsFiniteSet(disk \cup {[id |-> Fresh, data |-> file]})
      BY FS_AddElement DEF Typed
    <3>4. disk \subseteq ArtifactFile /\ IsFiniteSet(disk)
      BY DEF Typed, TypeOK
    <3> QED
      BY <3>1, <3>2, <3>3, <3>4
  <2>3. loc' \in [Actors -> Locals]
    <3>1. loc' = loc \/ loc' = [loc EXCEPT ![a].art = Fresh]
      BY <1>21 DEF FinalizeCopies
    <3>2. [loc[a] EXCEPT !.art = Fresh] \in Locals
      BY <2>1 DEF Typed, Locals
    <3> QED
      BY <3>1, <3>2 DEF Typed
  <2>4. pc' \in [Actors -> Places] /\ (pc'["worker"] = "append" <=> pc["worker"] = "append")
    BY <1>21 DEF FinalizeCopies, Raise, Go, Typed, TypeOK, Places, Actors
  <2> QED
    BY <1>21, <2>2, <2>3, <2>4 DEF FinalizeCopies, Typed, TypeOK, store, counters
<1>22. ASSUME NEW a \in Actors, FinalizeInserts(a) PROVE Typed'
  <2>1. disk' \subseteq disk
    BY <1>22 DEF FinalizeInserts
  <2>2. disk' \subseteq ArtifactFile /\ IsFiniteSet(disk')
    BY <2>1, FS_Subset DEF Typed, TypeOK
  <2>3. arts' \subseteq Artifact /\ IsFiniteSet(arts')
    <3>1. CASE arts' = arts
      BY <3>1 DEF Typed, TypeOK
    <3>2. ASSUME NEW d \in disk, arts' = arts \cup {[id |-> d.id, data |-> d.data, whole |-> TRUE]}
          PROVE  arts' \subseteq Artifact /\ IsFiniteSet(arts')
      <4>1. [id |-> d.id, data |-> d.data, whole |-> TRUE] \in Artifact
        BY DEF Typed, TypeOK, ArtifactFile, Artifact
      <4> QED
        BY <3>2, <4>1, FS_AddElement DEF Typed, TypeOK
    <3> QED
      BY <1>22, <3>1, <3>2 DEF FinalizeInserts
  <2>6. loc[a].art \in Nat \ {0}
    BY <1>22 DEF FinalizeInserts, Hands, InHand, Typed, Locals
  <2>4. loc' \in [Actors -> Locals]
    <3>1. loc' \in {loc, [loc EXCEPT ![a].existing = {loc[a].art}]}
      BY <1>22 DEF FinalizeInserts
    <3>2. loc[a] \in Locals /\ loc \in [Actors -> Locals]
      BY DEF Typed
    <3>3. [loc[a] EXCEPT !.existing = {loc[a].art}] \in Locals
      BY <2>6, <3>2 DEF Locals
    <3>4. [loc EXCEPT ![a].existing = {loc[a].art}]
            = [loc EXCEPT ![a] = [loc[a] EXCEPT !.existing = {loc[a].art}]]
      BY <3>2, Zenon
    <3> QED
      BY <3>1, <3>2, <3>3, <3>4
  <2>5. pc' \in [Actors -> Places] /\ (pc'["worker"] = "append" <=> pc["worker"] = "append")
    BY <1>22 DEF FinalizeInserts, Raise, Go, Typed, TypeOK, Places, Actors
  <2> QED
    BY <1>22, <2>2, <2>3, <2>4, <2>5 DEF FinalizeInserts, Typed, TypeOK
<1>23. ASSUME NEW a \in Actors, FinalizeIndexes(a) PROVE Typed'
  <2> DEFINE art == CHOOSE x \in loc[a].existing : TRUE
  <2>1. art \in loc[a].existing /\ loc[a].existing \in SUBSET (Nat \ {0})
    BY <1>23 DEF FinalizeIndexes, Typed, Locals
  <2>2. /\ index' \in {index, Append(index, IndexRow(art))}
        /\ loc' \in {loc, [loc EXCEPT ![a].existing = @ \ {art}]}
    BY <1>23 DEF FinalizeIndexes
  <2> HIDE DEF art
  <2>3. index' \in Seq(Rows)
    <3>1. IndexRow(art) \in Rows
      BY <2>1, ValuesTyped
    <3> QED
      BY <2>2, <3>1, AppendProperties DEF Typed, TypeOK
  <2>4. loc' \in [Actors -> Locals]
    <3>1. loc[a].existing \ {art} \in SUBSET (Nat \ {0})
      BY <2>1
    <3>2. CASE loc' = [loc EXCEPT ![a].existing = @ \ {art}]
      <4>1. loc' = [loc EXCEPT ![a] = [loc[a] EXCEPT !.existing = loc[a].existing \ {art}]]
        BY <3>2
      <4>2. [loc[a] EXCEPT !.existing = loc[a].existing \ {art}] \in Locals
        BY <3>1 DEF Typed, Locals
      <4> QED
        BY <4>1, <4>2 DEF Typed
    <3> QED
      BY <2>2, <3>2 DEF Typed
  <2>5. pc' \in [Actors -> Places] /\ (pc'["worker"] = "append" <=> pc["worker"] = "append")
    BY <1>23, Zenon DEF FinalizeIndexes, Raise, Go, Typed, TypeOK, Places, Actors
  <2> QED
    BY <1>23, <2>3, <2>4, <2>5 DEF FinalizeIndexes, Typed, TypeOK, counters
<1>24. ASSUME NEW a \in Actors, FinalizeCommits(a) PROVE Typed'
  <2>1. row' \in Execution
    <3>1. loc[a].digest \in Seq(Byte)
      BY DEF Typed, Locals
    <3> QED
      BY <1>24, <3>1, RowSealed DEF FinalizeCommits, Typed, TypeOK
  <2>2. pc' \in [Actors -> Places] /\ (pc'["worker"] = "append" <=> pc["worker"] = "append")
    BY <1>24 DEF FinalizeCommits, Raise, Go, Typed, TypeOK, Places, Actors
  <2> QED
    BY <1>24, <2>1, <2>2 DEF FinalizeCommits, Typed, TypeOK, counters
<1>25. ASSUME NEW a \in Actors, Terminate(a) PROVE Typed'
  <2>1. row' \in Execution
    BY <1>25, RowEnded DEF Terminate, Typed, TypeOK
  <2>2. pc' \in [Actors -> Places] /\ (pc'["worker"] = "append" <=> pc["worker"] = "append")
    BY <1>25 DEF Terminate, Raise, Go, Typed, TypeOK, Places, Actors
  <2> QED
    BY <1>25, <2>1, <2>2 DEF Terminate, Typed, TypeOK, counters
<1>26. CASE PageReads
  <2>1. page' \in Pages
    <3>1. PICK cursor \in IF page.at = "more" THEN {page.cursor} ELSE {0, 1} :
            page' = [page EXCEPT !.at = "rows", !.cursor = cursor, !.spooled = row.spooled,
                                 !.from = IF page.at = "more" THEN @ ELSE cursor,
                                 !.got = IF page.at = "more" THEN @ ELSE <<>>]
      BY <1>26 DEF PageReads
    <3>2. cursor \in Nat /\ row.spooled \in BOOLEAN
      BY DEF Typed, TypeOK, Pages, Execution
    <3>3. (IF page.at = "more" THEN page.from ELSE cursor) \in Nat
      BY <3>2 DEF Typed, Pages
    <3>4. (IF page.at = "more" THEN page.got ELSE <<>>) \in Seq(Rows)
      BY DEF Typed, Pages
    <3> QED
      BY <3>1, <3>2, <3>3, <3>4 DEF Typed, Pages
  <2> QED
    BY <1>26, <2>1 DEF PageReads, Typed, TypeOK, Pages, store, counters
<1>27. CASE PageRows
  <2>1. page' \in Pages
    BY <1>27, PageTyped
  <2> QED
    BY <1>27, <2>1 DEF PageRows, Typed, TypeOK, Pages, store, counters
<1>28. CASE PageEnds
  BY <1>28, ValuesTyped DEF PageEnds, Typed, TypeOK, Pages, store, counters
<1>29. CASE PruneSelects
  <2>1. {t.id : t \in arts} \in SUBSET (Nat \ {0}) /\ IsFiniteSet({t.id : t \in arts})
    BY FiniteIds DEF Typed, TypeOK, Artifact
  <2>2. row.spooled \in BOOLEAN
    BY DEF Typed, TypeOK, Execution
  <2>3. prune' \in Prunes /\ prune'.at = "delete" /\ IsFiniteSet(prune'.files)
    BY <1>29, <2>1, <2>2 DEF PruneSelects, Prunes
  <2> QED
    BY <1>29, <2>3 DEF PruneSelects, Typed, TypeOK, store, counters
<1>30. CASE PruneDeletes
  <2>1. row' \in Execution
    BY <1>30, RowDeleted DEF PruneDeletes, Typed, TypeOK
  <2>2. prune' \in Prunes /\ prune'.at = "files" /\ prune'.files = prune.files
    BY <1>30 DEF PruneDeletes, Typed, Prunes
  <2>3. index' \in Seq(Rows) /\ arts' \subseteq Artifact /\ IsFiniteSet(arts')
    BY <1>30, FS_EmptySet DEF PruneDeletes
  <2> QED
    BY <1>30, <2>1, <2>2, <2>3 DEF PruneDeletes, Typed, TypeOK, counters
<1>31. CASE PruneUnlinks
  <2>1. disk' \subseteq disk /\ file' \in {file, <<>>}
    BY <1>31 DEF PruneUnlinks
  <2>2. disk' \subseteq ArtifactFile /\ IsFiniteSet(disk')
    BY <2>1, FS_Subset DEF Typed, TypeOK
  <2>4. file' \in Seq(Byte)
    BY <2>1, EmptySeq DEF Typed, TypeOK
  <2>3. prune' \in Prunes /\ prune'.at \in {"spool", "idle"} /\ IsFiniteSet(prune'.files)
    BY <1>31, ValuesTyped DEF PruneUnlinks, Typed, Prunes
  <2> QED
    BY <1>31, <2>2, <2>3, <2>4 DEF PruneUnlinks, Typed, TypeOK, store, counters
<1>32. CASE PruneDies
  BY <1>32, ValuesTyped DEF PruneDies, Typed, TypeOK, store
<1>33. CASE UNCHANGED vars
  BY <1>33 DEF vars, store, Typed, TypeOK
<1> QED
  BY <1>1, <1>2, <1>3, <1>4, <1>5, <1>6, <1>7, <1>8, <1>9, <1>10, <1>11, <1>12, <1>13, <1>14,
     <1>15, <1>16, <1>17, <1>18, <1>19, <1>20, <1>21, <1>22, <1>23, <1>24, <1>25, <1>26, <1>27,
     <1>28, <1>29, <1>30, <1>31, <1>32, <1>33 DEF Next

-----------------------------------------------------------------------------
(***************************************************************************)
(* Life: a row is sealed, then terminal, then pruned.                      *)
(***************************************************************************)
\* Sealed, then terminal, then deleted.
LEMMA LifeKept ==
  ASSUME Typed, Life, Transaction, [Next]_vars
  PROVE  Life'
<1>0. /\ row \in Execution /\ pc \in [Actors -> Places] /\ prune \in Prunes
      /\ row.terminal => row.sealed
      /\ ~row.exists => row.terminal
      /\ \A a \in Actors : pc[a] \in {"indexonly", "terminal"} => row.sealed
      /\ prune.at = "delete" => row.exists /\ row.terminal
      /\ prune.at \in {"files", "spool"} => ~row.exists
  BY DEF Typed, TypeOK, Life
<1>1. CASE BeginAppend
  BY <1>0, <1>1 DEF BeginAppend, Life, Go, Raise, Free, store
<1>2. CASE OpenSpool
  BY <1>0, <1>2 DEF OpenSpool, Life, store, counters
<1>3. CASE WriteBytes
  BY <1>0, <1>3 DEF WriteBytes, Life, store, counters
<1>4. CASE IndexChunk
  BY <1>0, <1>4 DEF IndexChunk, Life, store, counters
<1>5. CASE CommitAppend
  <2>1. row.exists /\ writer.off + Len(writer.data) \in Nat
    BY <1>5, <1>0 DEF CommitAppend, Transaction, Free, Typed, TypeOK, Writers
  <2> QED
    BY <1>0, <1>5, <2>1, RowGrown DEF CommitAppend, Life, Go, Actors
<1>6. CASE AppendFails
  BY <1>0, <1>6 DEF AppendFails, Life, store
<1>7. CASE UndoAppend
  BY <1>0, <1>7 DEF UndoAppend, Life, Raise, store, Go
<1>8. CASE WriteRich
  BY <1>0, <1>8 DEF WriteRich, Life, Go, store
<1>9. CASE InsertRich
  BY <1>0, <1>9 DEF InsertRich, Life, Go, Raise, Free
<1>10. CASE IndexRich
  BY <1>0, <1>10 DEF IndexRich, Life, Go, Raise, Free, counters
<1>11. CASE IndexEvent
  BY <1>0, <1>11 DEF IndexEvent, Life, Raise, Free, Go
<1>12. CASE Settle
  BY <1>0, <1>12, RowProved DEF Settle, Life, Go, Free, counters
<1>13. CASE Fail
  BY <1>0, <1>13, RowMarked DEF Fail, Life, Go, Free, counters
<1>14. CASE ForcedStop
  BY <1>0, <1>14, RowMarked DEF ForcedStop, Life, Go, Free
<1>15. CASE WorkerYields
  BY <1>0, <1>15 DEF WorkerYields, Life, Go, store, counters
<1>16. CASE Crash
  BY <1>0, <1>16 DEF Crash, Life, store, Actors
<1>17. CASE Restart
  <2>1. row'.exists = row.exists /\ row'.terminal = row.terminal /\ row'.sealed = row.sealed
    BY <1>0, <1>17, RowMarked DEF Restart
  <2>2. /\ prune' = prune
        /\ \E place \in {"done", "read", "idle"} : pc' = [pc EXCEPT !["worker"] = place]
    BY <1>17 DEF Restart, Go
  <2> QED
    BY <1>0, <2>1, <2>2 DEF Life, Actors
<1>18. ASSUME NEW a \in Actors, FinalizeReads(a) PROVE Life'
  BY <1>0, <1>18 DEF FinalizeReads, Life, Go, Raise, store, counters, Actors
<1>19. ASSUME NEW a \in Actors, FinalizeHashes(a) PROVE Life'
  BY <1>0, <1>19 DEF FinalizeHashes, Life, Go, store, counters, Actors
<1>20. ASSUME NEW a \in Actors, FinalizeStats(a) PROVE Life'
  <2>1. row' = row /\ prune' = prune
    BY <1>20 DEF FinalizeStats, store
  <2>2. \E place \in {"index", "copy", "idle", "dead", "failing"} : pc' = [pc EXCEPT ![a] = place]
    BY <1>20 DEF FinalizeStats, Raise, Go
  <2> QED
    BY <1>0, <2>1, <2>2 DEF Life, Actors
<1>21. ASSUME NEW a \in Actors, FinalizeCopies(a) PROVE Life'
  BY <1>0, <1>21 DEF FinalizeCopies, Life, Go, Raise, store, counters, Actors
<1>22. ASSUME NEW a \in Actors, FinalizeInserts(a) PROVE Life'
  <2>1. row' = row /\ prune' = prune
    BY <1>22 DEF FinalizeInserts
  <2>2. \E place \in {"index", "idle", "dead", "failing"} : pc' = [pc EXCEPT ![a] = place]
    BY <1>22 DEF FinalizeInserts, Raise, Go
  <2> QED
    BY <1>0, <2>1, <2>2 DEF Life, Actors
<1>23. ASSUME NEW a \in Actors, FinalizeIndexes(a) PROVE Life'
  BY <1>0, <1>23 DEF FinalizeIndexes, Life, Raise, Free, counters, Go, Actors
<1>24. ASSUME NEW a \in Actors, FinalizeCommits(a) PROVE Life'
  <2>1. loc[a].digest \in Seq(Byte)
    BY DEF Typed, Locals
  <2>2. CASE ~row.exists
    BY <1>0, <1>24, <2>2 DEF FinalizeCommits, Life, Raise, Go, Actors
  <2>3. CASE row.exists
    <3>1. row'.exists = row.exists /\ row'.terminal = row.terminal /\ row'.sealed
      BY <1>0, <1>24, <2>1, <2>3, RowSealed DEF FinalizeCommits
    <3>2. pc' = [pc EXCEPT ![a] = "terminal"] /\ prune' = prune
      BY <1>24, <2>3 DEF FinalizeCommits, Go
    <3> QED
      BY <1>0, <2>3, <3>1, <3>2 DEF Life, Actors
  <2> QED
    BY <2>2, <2>3
<1>25. ASSUME NEW a \in Actors, Terminate(a) PROVE Life'
  <2>1. CASE row.exists /\ ~row.terminal
    <3>1. row'.exists = row.exists /\ row'.terminal /\ row'.sealed = row.sealed
      BY <1>0, <1>25, <2>1, RowEnded DEF Terminate
    <3>2. pc' = [pc EXCEPT ![a] = IF a = "worker" THEN "done" ELSE "idle"] /\ prune' = prune
      BY <1>25, <2>1 DEF Terminate, Go
    <3> QED
      BY <1>0, <1>25, <3>1, <3>2 DEF Terminate, Life, Actors
  <2>2. CASE ~(row.exists /\ ~row.terminal)
    BY <1>0, <1>25, <2>2 DEF Terminate, Life, Raise, Go, Actors
  <2> QED
    BY <2>1, <2>2
<1>26. CASE PageReads
  BY <1>0, <1>26 DEF PageReads, Life, store, counters
<1>27. CASE PageRows
  BY <1>0, <1>27 DEF PageRows, Life, store, counters
<1>28. CASE PageEnds
  BY <1>0, <1>28 DEF PageEnds, Life, store, counters
<1>29. CASE PruneSelects
  BY <1>0, <1>29 DEF PruneSelects, Life, store, counters
<1>30. CASE PruneDeletes
  <2>1. ~row'.exists /\ row'.terminal = row.terminal /\ row'.sealed = row.sealed
    BY <1>0, <1>30, RowDeleted DEF PruneDeletes
  <2>2. pc' = pc /\ prune'.at = "files"
    BY <1>0, <1>30 DEF PruneDeletes, Prunes
  <2> QED
    BY <1>0, <1>30, <2>1, <2>2 DEF PruneDeletes, Life
<1>31. CASE PruneUnlinks
  <2>1. row' = row /\ pc' = pc
    BY <1>31 DEF PruneUnlinks, store
  <2>2. prune'.at \in {"spool", "idle"} /\ (prune'.at = "spool" => prune.at = "files")
    BY <1>0, <1>31 DEF PruneUnlinks, Prunes, NoPrune
  <2> QED
    BY <1>0, <2>1, <2>2 DEF Life
<1>32. CASE PruneDies
  BY <1>0, <1>32 DEF PruneDies, Life, NoPrune, store
<1>33. CASE UNCHANGED vars
  BY <1>0, <1>33 DEF vars, store, counters, Life
<1> QED
  BY <1>1, <1>2, <1>3, <1>4, <1>5, <1>6, <1>7, <1>8, <1>9, <1>10, <1>11, <1>12, <1>13, <1>14,
     <1>15, <1>16, <1>17, <1>18, <1>19, <1>20, <1>21, <1>22, <1>23, <1>24, <1>25, <1>26, <1>27,
     <1>28, <1>29, <1>30, <1>31, <1>32, <1>33 DEF Next

-----------------------------------------------------------------------------
(***************************************************************************)
(* Transaction: where the file stands during an append.                    *)
(***************************************************************************)
\* What is left of a text after w bytes, and after n more.
LEMMA TextLeft ==
  ASSUME NEW S, NEW data \in Seq(S), NEW w \in 0..Len(data),
         NEW left, left = SubSeq(data, w + 1, Len(data)), NEW n \in 1..Len(left)
  PROVE  /\ Len(left) = Len(data) - w /\ w + n \in 0..Len(data)
         /\ SubSeq(left, n + 1, Len(left)) = SubSeq(data, w + n + 1, Len(data))
         /\ SubSeq(left, 1, n) \in Seq(S) /\ Len(SubSeq(left, 1, n)) = n
         /\ \A i \in 1..n : SubSeq(left, 1, n)[i] = data[w + i]
<1>1. /\ left \in Seq(S) /\ Len(left) = Len(data) - w /\ Len(data) \in Nat
      /\ \A i \in 1..(Len(data) - w) : left[i] = data[w + i]
  <2>1. /\ left \in Seq(S) /\ Len(left) = IF w + 1 <= Len(data) THEN Len(data) - (w + 1) + 1 ELSE 0
        /\ \A i \in 1..(Len(data) - (w + 1) + 1) : left[i] = data[(w + 1) + i - 1]
    BY Slice
  <2> QED
    BY <2>1
<1>2. w + n \in 0..Len(data) /\ n \in Nat /\ n <= Len(left)
  BY <1>1
<1>3. /\ SubSeq(left, 1, n) \in Seq(S) /\ Len(SubSeq(left, 1, n)) = n
      /\ \A i \in 1..n : SubSeq(left, 1, n)[i] = left[i]
  <2>1. /\ SubSeq(left, 1, n) \in Seq(S)
        /\ Len(SubSeq(left, 1, n)) = IF 1 <= n THEN n - 1 + 1 ELSE 0
        /\ \A i \in 1..(n - 1 + 1) : SubSeq(left, 1, n)[i] = left[1 + i - 1]
    BY <1>1, <1>2, Slice
  <2> QED
    BY <1>2, <2>1
<1>4. SubSeq(left, n + 1, Len(left)) = SubSeq(data, w + n + 1, Len(data))
  <2> DEFINE rest == SubSeq(left, n + 1, Len(left))
             tail == SubSeq(data, w + n + 1, Len(data))
  <2>1. /\ rest \in Seq(S)
        /\ Len(rest) = IF n + 1 <= Len(left) THEN Len(left) - (n + 1) + 1 ELSE 0
        /\ \A i \in 1..(Len(left) - (n + 1) + 1) : rest[i] = left[(n + 1) + i - 1]
    BY <1>1, <1>2, Slice
  <2>2. /\ tail \in Seq(S)
        /\ Len(tail) = IF w + n + 1 <= Len(data) THEN Len(data) - (w + n + 1) + 1 ELSE 0
        /\ \A i \in 1..(Len(data) - (w + n + 1) + 1) : tail[i] = data[(w + n + 1) + i - 1]
    BY <1>1, <1>2, Slice
  <2> HIDE DEF rest, tail
  <2>3. Len(rest) = Len(tail) /\ Len(rest) = Len(data) - w - n
    BY <1>1, <1>2, <2>1, <2>2
  <2>4. \A i \in 1..Len(rest) : rest[i] = tail[i]
    <3> SUFFICES ASSUME NEW i \in 1..Len(rest) PROVE rest[i] = tail[i]
      OBVIOUS
    <3>1. n + i \in 1..(Len(data) - w) /\ (n + 1) + i - 1 = n + i
          /\ (w + n + 1) + i - 1 = w + (n + i)
      BY <1>1, <1>2, <2>3
    <3>2. rest[i] = left[n + i]
      <4>1. i \in 1..(Len(left) - (n + 1) + 1)
        BY <1>1, <1>2, <2>3
      <4>2. rest[i] = left[(n + 1) + i - 1]
        BY <2>1, <4>1
      <4> QED
        BY <3>1, <4>2
    <3>3. tail[i] = data[w + (n + i)]
      <4>1. i \in 1..(Len(data) - (w + n + 1) + 1)
        BY <1>1, <1>2, <2>3
      <4>2. tail[i] = data[(w + n + 1) + i - 1]
        BY <2>2, <4>1
      <4> QED
        BY <3>1, <4>2
    <3> QED
      BY <1>1, <3>1, <3>2, <3>3
  <2>5. rest = tail
    BY <2>1, <2>2, <2>3, <2>4, SeqEqual
  <2> QED
    BY <2>5 DEF rest, tail
<1> QED
  BY <1>1, <1>2, <1>3, <1>4

\* After its offset a file holds the first w bytes of a text, and nothing more.
Holds(f, off, data, w) == Len(f) = off + w /\ \A i \in 1..w : f[off + i] = data[i]

\* A piece of a text that follows its first w bytes.
Follows(piece, data, w) == \A i \in 1..Len(piece) : piece[i] = data[w + i]

\* A file that holds w bytes of a text holds more once the next are written.
LEMMA FileGrows ==
  ASSUME NEW f \in Seq(Byte), NEW data, NEW piece \in Seq(Byte),
         NEW off \in Nat, NEW w \in Nat, Holds(f, off, data, w), Follows(piece, data, w)
  PROVE  Holds(f \o piece, off, data, w + Len(piece))
<1> DEFINE g == f \o piece
           n == Len(piece)
<1>0. /\ n \in Nat /\ Len(f) = off + w /\ \A i \in 1..w : f[off + i] = data[i]
      /\ \A i \in 1..n : piece[i] = data[w + i]
  BY DEF Holds, Follows
<1>1. /\ Len(g) = Len(f) + n
      /\ \A i \in 1..(Len(f) + n) : g[i] = IF i <= Len(f) THEN f[i] ELSE piece[i - Len(f)]
  BY ConcatProperties
<1> HIDE DEF g, n
<1>2. \A i \in 1..(w + n) : g[off + i] = data[i]
  <2> SUFFICES ASSUME NEW i \in 1..(w + n) PROVE g[off + i] = data[i]
    OBVIOUS
  <2>1. CASE i <= w
    BY <1>0, <1>1, <2>1
  <2>2. CASE i > w
    <3>1. i - w \in 1..n /\ (off + i) - Len(f) = i - w /\ w + (i - w) = i
      BY <1>0, <1>1, <2>2
    <3>2. g[off + i] = piece[i - w]
      BY <1>0, <1>1, <2>2, <3>1
    <3> QED
      BY <1>0, <3>1, <3>2
  <2> QED
    BY <1>0, <2>1, <2>2
<1>3. Len(g) = off + (w + n)
  BY <1>0, <1>1
<1> QED
  BY <1>2, <1>3 DEF g, n, Holds

\* The transaction is undisturbed while the file, the append and the committed
\* length stay, and the row is sealed or deleted outside it only.
LEMMA TransactionFrame ==
  ASSUME Transaction, UNCHANGED <<file, writer>>,
         row'.size = row.size, row'.spooled = row.spooled, row'.exists => row.exists,
         Free \/ (row'.exists = row.exists /\ row'.sealed = row.sealed)
  PROVE  Transaction'
  BY DEF Transaction, Free, Written, ChunkOf, Boundary

\* An append that is not open leaves only the committed length to keep.
LEMMA NoTransaction ==
  ASSUME writer'.stage \in {"none", "undo"},
         writer'.stage = "undo" => writer'.off = row'.size /\ WholeBytes(writer'.data),
         row'.exists => row'.size <= Len(file') /\ (~row'.spooled => row'.size = 0)
  PROVE  Transaction'
  BY DEF Transaction, Free

\* Every step keeps the file and the append in step.
LEMMA TransactionKept ==
  ASSUME Typed, Life, Transaction, [Next]_vars
  PROVE  Transaction'
<1>0. /\ row \in Execution /\ file \in Seq(Byte) /\ writer \in Writers
      /\ row.size \in Nat /\ Len(file) \in Nat
      /\ writer.off \in Nat /\ writer.data \in Seq(Byte) /\ writer.left \in Seq(Byte)
      /\ writer.rows \in Seq(Rows) /\ writer.cut \in Nat
      /\ Len(writer.data) \in Nat /\ Len(writer.left) \in Nat
  BY DEF Typed, TypeOK, Execution, Writers
<1>a. /\ row.exists => row.size <= Len(file) /\ (~row.spooled => row.size = 0)
      /\ ~Free => row.exists /\ ~row.sealed
      /\ writer.stage # "none" => writer.off = row.size /\ WholeBytes(writer.data)
  BY DEF Transaction
<1>1. CASE BeginAppend
  <2>1. CASE ~(row.exists /\ ~row.sealed)
    BY <1>1, <2>1, TransactionFrame DEF BeginAppend, store
  <2>2. CASE row.exists /\ ~row.sealed
    <3>1. PICK text \in Texts :
            writer' = [Idle EXCEPT !.off = row.size, !.data = Encode(appends + 1, text),
                                   !.left = Encode(appends + 1, text), !.stage = "open"]
      BY <1>1, <2>2 DEF BeginAppend
    <3>2. appends + 1 \in 1..MaxAppends
      BY <1>1, SpoolAssumption DEF BeginAppend, Typed
    <3> DEFINE data == Encode(appends + 1, text)
    <3>3. data \in Seq(Byte) /\ WholeBytes(data)
      BY <3>2, EncodeWhole
    <3> HIDE DEF data
    <3>4. /\ writer'.off = row.size /\ writer'.data = data /\ writer'.left = data
          /\ writer'.stage = "open" /\ writer'.rows = <<>> /\ writer'.cut = 0
      BY <3>1 DEF Idle, data
    <3>5. UNCHANGED <<row, file>>
      BY <1>1 DEF BeginAppend, store
    <3> QED
      BY <1>a, <2>2, <3>3, <3>4, <3>5 DEF Transaction, Free
  <2> QED
    BY <2>1, <2>2
<1>2. CASE OpenSpool
  <2>1. /\ writer.stage = "open" /\ row' = row
        /\ file' = Truncate(file, writer.off)
        /\ writer' = [writer EXCEPT !.stage = "write"]
    BY <1>2 DEF OpenSpool, store
  <2>2. /\ row.exists /\ ~row.sealed /\ writer.off = row.size /\ WholeBytes(writer.data)
        /\ writer.left = writer.data /\ writer.rows = <<>> /\ writer.cut = 0
    BY <1>a, <2>1 DEF Free, Transaction
  <2>3. Len(file') = row.size
    BY <1>0, <1>a, <2>1, <2>2, TruncateKeeps
  <2>4. /\ writer'.stage = "write" /\ writer'.off = row.size /\ writer'.data = writer.data
        /\ writer'.left = writer.data /\ writer'.rows = <<>> /\ writer'.cut = 0
    BY <1>0, <2>1, <2>2 DEF Writers
  <2>5. writer.data = SubSeq(writer.data, 1, Len(writer.data))
    BY <1>0, SubSeqFull
  <2>6. Boundary(writer.data, 0)
    BY <1>0, <2>2, Characters
  <2>7. Written' = 0
    BY <1>0, <2>4 DEF Written
  <2> QED
    BY <1>0, <1>a, <2>1, <2>2, <2>3, <2>4, <2>5, <2>6, <2>7 DEF Transaction, Free
<1>3. CASE WriteBytes
  <2>1. /\ writer.stage = "write" /\ row' = row /\ writer.left # <<>>
    BY <1>3 DEF WriteBytes, store
  <2>2. PICK n \in {1, Len(writer.left)} :
          /\ file' = file \o SubSeq(writer.left, 1, n)
          /\ writer' = [writer EXCEPT !.left = SubSeq(writer.left, n + 1, Len(writer.left))]
    BY <1>3 DEF WriteBytes
  <2> DEFINE piece == SubSeq(writer.left, 1, n)
             rest == SubSeq(writer.left, n + 1, Len(writer.left))
             data == writer.data
  <2>3. /\ Written \in 0..Len(data) /\ writer.left = SubSeq(data, Written + 1, Len(data))
        /\ Len(file) = writer.off + Written
        /\ \A i \in 1..Written : file[writer.off + i] = data[i]
        /\ Boundary(data, writer.cut)
        /\ \A i \in 1..Len(writer.rows) : ChunkOf(writer.rows[i])
    BY <2>1 DEF Transaction
  <2> DEFINE w == Written
  <2> HIDE DEF piece, rest, data, w
  <2>4. n \in 1..Len(writer.left)
    BY <1>0, <2>1, EmptySeq
  <2>5. /\ data \in Seq(Byte) /\ w \in 0..Len(data) /\ Len(data) \in Nat
        /\ writer.left = SubSeq(data, w + 1, Len(data))
        /\ Len(file) = writer.off + w
        /\ \A i \in 1..w : file[writer.off + i] = data[i]
    BY <1>0, <2>3 DEF data, w
  <2>6. /\ Len(writer.left) = Len(data) - w /\ w + n \in 0..Len(data)
        /\ rest = SubSeq(data, w + n + 1, Len(data))
        /\ piece \in Seq(Byte) /\ Len(piece) = n
        /\ \A i \in 1..n : piece[i] = data[w + i]
    BY <2>4, <2>5, TextLeft DEF piece, rest
  <2>7. /\ writer'.stage = "write" /\ writer'.off = writer.off /\ writer'.data = data
        /\ writer'.left = rest /\ writer'.rows = writer.rows /\ writer'.cut = writer.cut
    BY <1>0, <2>1, <2>2 DEF Writers, data, rest
  <2>8. Written' = w + n
    <3>1. Written' = Len(data) - Len(rest)
      BY <2>7 DEF Written
    <3>2. rest \in Seq(Byte) /\ Len(rest) = Len(writer.left) - n
      BY <1>0, <2>4, Slice DEF rest
    <3>3. Len(writer.left) \in Nat /\ n \in Nat
      BY <1>0, <2>4
    <3>4. Len(rest) = Len(data) - w - n
      BY <2>5, <2>6, <3>2, <3>3
    <3> QED
      BY <2>5, <3>1, <3>3, <3>4
  <2>9. file' = file \o piece
    BY <2>2 DEF piece
  <2>11. /\ Len(file') = writer.off + (w + n)
         /\ \A i \in 1..(w + n) : file'[writer.off + i] = data[i]
    <3>1. w \in Nat /\ writer.off \in Nat /\ file \in Seq(Byte)
      BY <1>0, <2>5
    <3>2. Holds(file, writer.off, data, w) /\ Follows(piece, data, w) /\ piece \in Seq(Byte)
      BY <2>5, <2>6 DEF Holds, Follows
    <3>3. Holds(file \o piece, writer.off, data, w + Len(piece))
      BY <3>1, <3>2, FileGrows
    <3> QED
      BY <2>6, <2>9, <3>3 DEF Holds
  <2>13. row.exists /\ ~row.sealed /\ writer.off = row.size /\ WholeBytes(data)
    BY <1>a, <2>1 DEF Free, data
  <2>14. \A i \in 1..Len(writer'.rows) : ChunkOf(writer.rows[i])'
    BY <2>3, <2>7 DEF ChunkOf, data
  <2>15. Len(file') >= row.size
    BY <1>0, <2>5, <2>6, <2>11, <2>13
  <2>16. /\ Written' \in 0..Len(data)
         /\ writer'.left = SubSeq(data, Written' + 1, Len(data))
         /\ Len(file') = writer'.off + Written'
         /\ \A i \in 1..Written' : file'[writer'.off + i] = data[i]
    BY <2>6, <2>7, <2>8, <2>11
  <2> HIDE DEF Written
  <2> QED
    BY <1>a, <2>1, <2>3, <2>7, <2>13, <2>14, <2>15, <2>16 DEF Transaction, Free
<1>4. CASE IndexChunk
  <2> DEFINE end == Cut(writer.data, writer.cut)
             span == Span(writer.off + writer.cut, writer.off + end)
  <2>1. /\ writer.stage = "write" /\ UNCHANGED <<row, file>>
        /\ writer' = [writer EXCEPT !.rows = Append(writer.rows, span), !.cut = end]
    BY <1>4 DEF IndexChunk, store
  <2>2. WholeBytes(writer.data) /\ Boundary(writer.data, writer.cut)
    BY <1>a, <2>1 DEF Transaction
  <2>3. Boundary(writer.data, end) /\ end >= writer.cut
    BY <1>0, <2>2, CutBoundary
  <2>4. end \in Nat
    BY <1>0, <2>3 DEF Boundary
  <2> HIDE DEF end
  <2>5. ChunkOf(span)
    <3>1. span.off = writer.off + writer.cut /\ span.len = end - writer.cut
      BY <1>0, <2>4 DEF Span
    <3>2. span.off - writer.off = writer.cut /\ writer.cut + span.len = end
      BY <1>0, <2>4, <3>1
    <3> HIDE DEF span
    <3> QED
      BY <1>0, <2>2, <2>3, <2>4, <3>2 DEF ChunkOf
  <2>6. span \in Rows
    <3>1. /\ writer.off + writer.cut \in Nat /\ writer.off + end \in Nat
          /\ writer.off + writer.cut <= writer.off + end
      BY <1>0, <2>3, <2>4
    <3> QED
      BY <3>1, ValuesTyped
  <2> HIDE DEF span
  <2>7. /\ writer'.stage = "write" /\ writer'.off = writer.off /\ writer'.data = writer.data
        /\ writer'.left = writer.left /\ writer'.rows = Append(writer.rows, span)
        /\ writer'.cut = end
    BY <1>0, <2>1 DEF Writers
  <2>9. \A i \in 1..Len(writer'.rows) : ChunkOf(writer'.rows[i])
    <3> SUFFICES ASSUME NEW i \in 1..(Len(writer.rows) + 1)
                 PROVE  ChunkOf(Append(writer.rows, span)[i])
      BY <1>0, <2>6, <2>7, AppendProperties
    <3>1. CASE i <= Len(writer.rows)
      <4>1. ChunkOf(writer.rows[i])
        BY <1>0, <2>1, <3>1 DEF Transaction
      <4> QED
        BY <1>0, <2>6, <3>1, <4>1, AppendProperties
    <3>2. CASE i = Len(writer.rows) + 1
      BY <1>0, <2>5, <2>6, <3>2, AppendProperties
    <3> QED
      BY <1>0, <3>1, <3>2
  <2>10. \A i \in 1..Len(writer'.rows) : ChunkOf(writer.rows[i])'
    BY <2>7, <2>9 DEF ChunkOf
  <2>11. Written' = Written
    BY <2>7 DEF Written
  <2> HIDE DEF Written
  <2> QED
    BY <1>a, <2>1, <2>2, <2>3, <2>7, <2>10, <2>11 DEF Transaction, Free
<1>5. CASE CommitAppend
  <2>1. writer.stage = "write" /\ writer.left = <<>>
    BY <1>5 DEF CommitAppend
  <2>2. Len(file) = writer.off + Len(writer.data)
    BY <1>0, <2>1 DEF Transaction, Written
  <2>3. writer'.stage = "none" /\ file' = file
    BY <1>5, ValuesTyped DEF CommitAppend
  <2>4. writer.off + Len(writer.data) \in Nat
    BY <1>0
  <2>5. row'.spooled /\ row'.size = writer.off + Len(writer.data)
    BY <1>0, <1>5, <2>4, RowGrown DEF CommitAppend
  <2> QED
    BY <1>0, <2>2, <2>3, <2>5, NoTransaction
<1>6. CASE AppendFails
  <2>1. writer' = [writer EXCEPT !.stage = "undo"] /\ UNCHANGED <<row, file>>
    BY <1>6 DEF AppendFails, store
  <2>2. writer.stage # "none"
    BY <1>6 DEF AppendFails
  <2> QED
    BY <1>0, <1>a, <2>1, <2>2, NoTransaction DEF Writers
<1>7. CASE UndoAppend
  <2>1. writer'.stage = "none" /\ row' = row /\ writer.off = row.size
    BY <1>a, <1>7, ValuesTyped DEF UndoAppend, store
  <2>2. row.exists => row.size <= Len(file')
    <3>1. file' = file \/ file' = Truncate(file, row.size)
      BY <1>7, <2>1 DEF UndoAppend
    <3> QED
      BY <1>0, <1>a, <3>1, TruncateKeeps
  <2> QED
    BY <1>a, <2>1, <2>2, NoTransaction
<1>8. CASE WriteRich
  BY <1>8, TransactionFrame DEF WriteRich, store
<1>9. CASE InsertRich
  BY <1>9, TransactionFrame DEF InsertRich
<1>10. CASE IndexRich
  BY <1>10, TransactionFrame DEF IndexRich, counters
<1>11. CASE IndexEvent
  BY <1>11, TransactionFrame DEF IndexEvent
<1>12. CASE Settle
  BY <1>0, <1>12, TransactionFrame, RowProved DEF Settle, counters
<1>13. CASE Fail
  BY <1>0, <1>13, TransactionFrame, RowMarked DEF Fail, counters
<1>14. CASE ForcedStop
  BY <1>0, <1>14, TransactionFrame, RowMarked DEF ForcedStop
<1>15. CASE WorkerYields
  BY <1>15, TransactionFrame DEF WorkerYields, store, counters
<1>16. CASE Crash
  <2>1. writer'.stage = "none" /\ UNCHANGED <<row, file>>
    BY <1>16, ValuesTyped DEF Crash, store
  <2> QED
    BY <1>a, <2>1, NoTransaction
<1>17. CASE Restart
  BY <1>0, <1>17, TransactionFrame, RowMarked DEF Restart, counters
<1>18. ASSUME NEW a \in Actors, FinalizeReads(a) PROVE Transaction'
  BY <1>18, TransactionFrame DEF FinalizeReads, store, counters
<1>19. ASSUME NEW a \in Actors, FinalizeHashes(a) PROVE Transaction'
  BY <1>19, TransactionFrame DEF FinalizeHashes, store, counters
<1>20. ASSUME NEW a \in Actors, FinalizeStats(a) PROVE Transaction'
  BY <1>20, TransactionFrame DEF FinalizeStats, store, counters
<1>21. ASSUME NEW a \in Actors, FinalizeCopies(a) PROVE Transaction'
  BY <1>21, TransactionFrame DEF FinalizeCopies, store, counters
<1>22. ASSUME NEW a \in Actors, FinalizeInserts(a) PROVE Transaction'
  BY <1>22, TransactionFrame DEF FinalizeInserts
<1>23. ASSUME NEW a \in Actors, FinalizeIndexes(a) PROVE Transaction'
  BY <1>23, TransactionFrame DEF FinalizeIndexes, counters
<1>24. ASSUME NEW a \in Actors, FinalizeCommits(a) PROVE Transaction'
  <2>1. loc[a].digest \in Seq(Byte)
    BY DEF Typed, Locals
  <2> QED
    BY <1>0, <1>24, <2>1, RowSealed, TransactionFrame DEF FinalizeCommits
<1>25. ASSUME NEW a \in Actors, Terminate(a) PROVE Transaction'
  BY <1>0, <1>25, TransactionFrame, RowEnded DEF Terminate, counters
<1>26. CASE PageReads
  BY <1>26, TransactionFrame DEF PageReads, store, counters
<1>27. CASE PageRows
  BY <1>27, TransactionFrame DEF PageRows, store, counters
<1>28. CASE PageEnds
  BY <1>28, TransactionFrame DEF PageEnds, store, counters
<1>29. CASE PruneSelects
  BY <1>29, TransactionFrame DEF PruneSelects, store, counters
<1>30. CASE PruneDeletes
  BY <1>0, <1>30, TransactionFrame, RowDeleted DEF PruneDeletes, counters
<1>31. CASE PruneUnlinks
  <2>1. ~row.exists /\ UNCHANGED <<row, writer>>
    BY <1>31 DEF PruneUnlinks, store, Life
  <2>2. writer.stage \in {"none", "undo"}
    BY <1>0, <1>a, <2>1 DEF Free, Writers
  <2> QED
    BY <1>a, <2>1, <2>2, NoTransaction
<1>32. CASE PruneDies
  BY <1>32, TransactionFrame DEF PruneDies, store
<1>33. CASE UNCHANGED vars
  BY <1>33, TransactionFrame DEF vars, store
<1> QED
  BY <1>1, <1>2, <1>3, <1>4, <1>5, <1>6, <1>7, <1>8, <1>9, <1>10, <1>11, <1>12, <1>13, <1>14,
     <1>15, <1>16, <1>17, <1>18, <1>19, <1>20, <1>21, <1>22, <1>23, <1>24, <1>25, <1>26, <1>27,
     <1>28, <1>29, <1>30, <1>31, <1>32, <1>33 DEF Next

-----------------------------------------------------------------------------
(***************************************************************************)
(* IndexBacked: what is indexed is in the file, the rows or the directory. *)
(***************************************************************************)
\* The fields of an index row.
LEMMA RowFields ==
  ASSUME NEW rows \in Seq(Rows), NEW i \in 1..Len(rows)
  PROVE  rows[i].off \in Int /\ rows[i].len \in Nat /\ rows[i].art \in Nat
<1>1. rows[i] \in Rows
  BY ElementOfSeq
<1> QED
  BY <1>1 DEF Rows

\* What is indexed stays readable while its bytes, rows and files stay.
LEMMA IndexFrame ==
  ASSUME Typed, Transaction, IndexBacked, Typed', UNCHANGED <<index, arts>>,
         row'.exists => row.exists /\ disk \subseteq disk', row'.size = row.size,
         row'.exists => row.size <= Len(file') /\ \A i \in 1..row.size : file'[i] = file[i]
  PROVE  IndexBacked'
<1> SUFFICES ASSUME row'.exists PROVE IndexBacked'
  BY DEF IndexBacked
<1>0. /\ row.exists /\ row.size \in Nat /\ Len(file) \in Nat /\ row.size <= Len(file)
      /\ Len(file') \in Nat /\ index \in Seq(Rows)
  BY DEF Typed, TypeOK, Execution, Transaction
<1>1. ASSUME NEW i \in 1..Len(index'), index'[i].off >= 0 PROVE RangeBacked(index[i])'
  <2> DEFINE r == index[i]
  <2>0. index' = index
    OBVIOUS
  <2>1. RangeBacked(r) /\ r.off \in Int /\ r.off >= 0 /\ r.len \in Nat
    <3>1. i \in 1..Len(index) /\ r.off \in Int /\ r.len \in Nat
      BY <1>0, <1>1, <2>0, RowFields
    <3> QED
      BY <1>0, <1>1, <2>0, <3>1 DEF IndexBacked
  <2> HIDE DEF r
  <2>2. r.off + r.len <= row.size
    BY <2>1 DEF RangeBacked
  <2>3. r.len > 0 => r.off + 1 \in 1..row.size /\ r.off + r.len \in 1..row.size
    BY <1>0, <2>1, <2>2
  <2>4. r.off + r.len <= row'.size /\ r.off + r.len <= Len(file')
    BY <1>0, <2>1, <2>2
  <2>5. r.len > 0 => Lead(file'[r.off + 1]) /\ Last(file'[r.off + r.len])
    <3>1. r.len > 0 => Lead(file[r.off + 1]) /\ Last(file[r.off + r.len])
      BY <2>1 DEF RangeBacked
    <3> QED
      BY <1>0, <2>3, <3>1
  <2> QED
    BY <2>0, <2>4, <2>5 DEF RangeBacked, r
<1>2. ASSUME NEW i \in 1..Len(index'), ~(index'[i].off >= 0), index'[i].art # 0
      PROVE  \E t \in arts' : t.id = index'[i].art
  BY <1>0, <1>2 DEF IndexBacked
<1>3. ASSUME NEW t \in arts' PROVE ArtifactBacked(t)'
  BY <1>0, <1>3 DEF IndexBacked, ArtifactBacked
<1> QED
  BY <1>1, <1>2, <1>3 DEF IndexBacked

\* An artifact or an event may be indexed once its row is there.
LEMMA IndexGrows ==
  ASSUME Typed, IndexBacked, UNCHANGED <<row, arts, file, disk>>,
         NEW art \in Nat, art = 0 \/ \E t \in arts : t.id = art,
         index' = Append(index, IndexRow(art))
  PROVE  IndexBacked'
<1> SUFFICES ASSUME row'.exists PROVE IndexBacked'
  BY DEF IndexBacked
<1>0. /\ row.exists /\ index \in Seq(Rows) /\ IndexRow(art) \in Rows /\ Len(index) \in Nat
      /\ IndexRow(art).off = -1 /\ IndexRow(art).art = art
  BY ValuesTyped DEF Typed, TypeOK, IndexRow
<1>1. /\ Len(index') = Len(index) + 1 /\ index'[Len(index) + 1] = IndexRow(art)
      /\ \A i \in 1..Len(index) : index'[i] = index[i]
  BY <1>0, AppendProperties
<1>2. ASSUME NEW i \in 1..Len(index')
      PROVE  IF index'[i].off >= 0 THEN RangeBacked(index[i])'
             ELSE index'[i].art # 0 => \E t \in arts' : t.id = index'[i].art
  <2>1. CASE i <= Len(index)
    <3>1. i \in 1..Len(index) /\ index'[i] = index[i]
      BY <1>0, <1>1, <2>1
    <3>2. IF index[i].off >= 0 THEN RangeBacked(index[i])
          ELSE index[i].art # 0 => \E t \in arts : t.id = index[i].art
      BY <1>0, <3>1 DEF IndexBacked
    <3> QED
      BY <3>1, <3>2 DEF RangeBacked
  <2>2. CASE i = Len(index) + 1
    BY <1>0, <1>1, <2>2
  <2> QED
    BY <1>0, <1>1, <2>1, <2>2
<1>3. \A t \in arts' : ArtifactBacked(t)'
  BY <1>0 DEF IndexBacked, ArtifactBacked
<1> QED
  BY <1>2, <1>3 DEF IndexBacked

\* A new row of the artifacts table has its file.
LEMMA ArtifactGrows ==
  ASSUME Typed, IndexBacked, UNCHANGED <<row, index, file, disk>>, NEW art, NEW d \in disk,
         arts' = arts \cup {art}, art.id = d.id /\ art.data = d.data
  PROVE  IndexBacked'
<1> SUFFICES ASSUME row'.exists PROVE IndexBacked'
  BY DEF IndexBacked
<1>1. \A t \in arts' : ArtifactBacked(t)'
  BY DEF IndexBacked, ArtifactBacked
<1>2. ASSUME NEW i \in 1..Len(index')
      PROVE  IF index'[i].off >= 0 THEN RangeBacked(index[i])'
             ELSE index'[i].art # 0 => \E t \in arts' : t.id = index'[i].art
  <2>1. IF index[i].off >= 0 THEN RangeBacked(index[i])
        ELSE index[i].art # 0 => \E t \in arts : t.id = index[i].art
    BY <1>2 DEF IndexBacked
  <2> QED
    BY <2>1 DEF RangeBacked
<1> QED
  BY <1>1, <1>2 DEF IndexBacked

\* A file that no row of the artifacts table names may go.
LEMMA ArtifactDropped ==
  ASSUME Typed, IndexBacked, UNCHANGED <<row, index, file, arts>>, NEW art,
         disk' = {d \in disk : d.id # art}, \A t \in arts : t.id # art
  PROVE  IndexBacked'
<1> SUFFICES ASSUME row'.exists PROVE IndexBacked'
  BY DEF IndexBacked
<1>1. \A t \in arts' : ArtifactBacked(t)'
  BY DEF IndexBacked, ArtifactBacked
<1>2. \A i \in 1..Len(index) :
        IF index[i].off >= 0 THEN RangeBacked(index[i])'
        ELSE index[i].art # 0 => \E t \in arts : t.id = index[i].art
  <2> SUFFICES ASSUME NEW i \in 1..Len(index)
               PROVE  IF index[i].off >= 0 THEN RangeBacked(index[i])'
                      ELSE index[i].art # 0 => \E t \in arts : t.id = index[i].art
    OBVIOUS
  <2>1. IF index[i].off >= 0 THEN RangeBacked(index[i])
        ELSE index[i].art # 0 => \E t \in arts : t.id = index[i].art
    BY DEF IndexBacked
  <2> QED
    BY <2>1 DEF RangeBacked
<1> QED
  BY <1>1, <1>2 DEF IndexBacked, RangeBacked

\* Every step keeps what is indexed readable.
LEMMA IndexBackedKept ==
  ASSUME Typed, Typed', Life, Transaction, IndexBacked, Hands, [Next]_vars
  PROVE  IndexBacked'
<1>0. /\ row \in Execution /\ file \in Seq(Byte) /\ row.size \in Nat /\ Len(file) \in Nat
  BY DEF Typed, TypeOK, Execution
<1>b. row.exists => row.size <= Len(file)
  BY DEF Transaction
<1>1. CASE BeginAppend
  BY <1>0, <1>b, <1>1, IndexFrame DEF BeginAppend, store
<1>2. CASE OpenSpool
  <2>1. /\ UNCHANGED <<row, index, arts, disk>> /\ row.exists /\ row.size = writer.off
        /\ file' = Truncate(file, row.size)
    BY <1>2 DEF OpenSpool, store, Transaction, Free
  <2>2. row.size <= Len(file') /\ \A i \in 1..row.size : file'[i] = file[i]
    BY <1>0, <1>b, <2>1, TruncateKeeps
  <2> QED
    BY <1>0, <2>1, <2>2, IndexFrame
<1>3. CASE WriteBytes
  <2>1. UNCHANGED <<row, index, arts, disk>>
    BY <1>3 DEF WriteBytes, store
  <2>2. PICK n \in {1, Len(writer.left)} : file' = file \o SubSeq(writer.left, 1, n)
    BY <1>3 DEF WriteBytes
  <2>3. SubSeq(writer.left, 1, n) \in Seq(Byte)
    <3>1. writer.left \in Seq(Byte) /\ Len(writer.left) \in Nat /\ Len(writer.left) > 0
      BY <1>3, EmptySeq DEF WriteBytes, Typed, Writers
    <3> QED
      BY <3>1, Slice
  <2>4. Len(file') >= Len(file) /\ \A i \in 1..Len(file) : file'[i] = file[i]
    BY <1>0, <2>2, <2>3, ConcatProperties
  <2>5. row.exists => row.size <= Len(file') /\ \A i \in 1..row.size : file'[i] = file[i]
    BY <1>0, <1>b, <2>4
  <2> QED
    BY <1>0, <2>1, <2>5, IndexFrame
<1>4. CASE IndexChunk
  BY <1>0, <1>b, <1>4, IndexFrame DEF IndexChunk, store, counters
<1>5. CASE CommitAppend
  <2> DEFINE rows == writer.rows
  <2>1. /\ writer.stage = "write" /\ writer.left = <<>> /\ index' = index \o rows
        /\ UNCHANGED <<file, arts, disk>>
    BY <1>5 DEF CommitAppend
  <2>2. /\ writer.off \in Nat /\ writer.data \in Seq(Byte) /\ Len(writer.data) \in Nat
        /\ rows \in Seq(Rows) /\ index \in Seq(Rows) /\ Len(rows) \in Nat /\ Len(index) \in Nat
    BY DEF Typed, TypeOK, Writers
  <2>3. /\ row.exists /\ writer.off = row.size
        /\ Len(file) = writer.off + Len(writer.data)
        /\ \A i \in 1..Len(writer.data) : file[writer.off + i] = writer.data[i]
        /\ \A i \in 1..Len(rows) : ChunkOf(rows[i])
    <3>1. Written = Len(writer.data)
      BY <2>1, <2>2 DEF Written
    <3> QED
      BY <2>1, <3>1 DEF Transaction, Free
  <2>4. row'.exists = row.exists /\ row'.size = writer.off + Len(writer.data)
    <3>1. writer.off + Len(writer.data) \in Nat
      BY <2>2
    <3>2. row' = [row EXCEPT !.spooled = TRUE, !.size = writer.off + Len(writer.data)]
      BY <1>5 DEF CommitAppend
    <3> QED
      BY <1>0, <3>1, <3>2, RowGrown
  <2> HIDE DEF rows
  <2>5. /\ Len(index') = Len(index) + Len(rows)
        /\ \A i \in 1..(Len(index) + Len(rows)) :
             index'[i] = IF i <= Len(index) THEN index[i] ELSE rows[i - Len(index)]
    BY <2>1, <2>2, ConcatProperties
  <2>6. ASSUME NEW i \in 1..Len(index)
        PROVE  IF index[i].off >= 0 THEN RangeBacked(index[i])'
               ELSE index[i].art # 0 => \E t \in arts' : t.id = index[i].art
    <3>1. IF index[i].off >= 0 THEN RangeBacked(index[i])
          ELSE index[i].art # 0 => \E t \in arts : t.id = index[i].art
      BY <2>3 DEF IndexBacked
    <3> DEFINE r == index[i]
    <3>2. r.off \in Int /\ r.len \in Nat
      BY <2>2, RowFields
    <3> HIDE DEF r
    <3>3. index[i] = r
      BY DEF r
    <3>4. r.off >= 0 /\ RangeBacked(r) =>
            /\ r.off + r.len <= row'.size /\ r.off + r.len <= Len(file')
            /\ r.len > 0 => Lead(file'[r.off + 1]) /\ Last(file'[r.off + r.len])
      BY <1>0, <2>1, <2>2, <2>3, <2>4, <3>2 DEF RangeBacked
    <3>5. CASE r.off >= 0
      <4>1. RangeBacked(r)
        BY <3>1, <3>3, <3>5
      <4>2. RangeBacked(index[i])' <=>
              /\ r.off + r.len <= row'.size /\ r.off + r.len <= Len(file')
              /\ r.len > 0 => Lead(file'[r.off + 1]) /\ Last(file'[r.off + r.len])
        <5>1. index'[i] = index[i]
          BY <2>2, <2>5
        <5> QED
          BY <3>3, <5>1 DEF RangeBacked
      <4> QED
        BY <3>3, <3>4, <3>5, <4>1, <4>2
    <3>6. CASE ~(r.off >= 0)
      BY <2>1, <3>1, <3>3, <3>6
    <3> QED
      BY <3>5, <3>6
  <2>7. ASSUME NEW k \in 1..Len(rows)
        PROVE  rows[k].off >= 0 =>
                 /\ rows[k].off + rows[k].len <= row'.size
                 /\ rows[k].off + rows[k].len <= Len(file')
                 /\ rows[k].len > 0 => /\ Lead(file'[rows[k].off + 1])
                                       /\ Last(file'[rows[k].off + rows[k].len])
    <3> DEFINE r == rows[k]
               start == r.off - writer.off
               end == start + r.len
    <3>1. start \in 0..end /\ Boundary(writer.data, start) /\ Boundary(writer.data, end)
      BY <2>3 DEF ChunkOf
    <3>2. r.off \in Int /\ r.len \in Nat
      BY <2>2, RowFields
    <3> HIDE DEF r
    <3>3. end \in 0..Len(writer.data) /\ start \in Nat
      BY <3>1 DEF Boundary
    <3>4. r.off + r.len = writer.off + end /\ r.off + 1 = writer.off + (start + 1)
      BY <2>2, <3>2
    <3> HIDE DEF start, end
    <3>5. r.off + r.len <= row'.size /\ r.off + r.len <= Len(file')
      BY <2>1, <2>2, <2>3, <2>4, <3>3, <3>4
    <3>6. ASSUME r.len > 0 PROVE Lead(file'[r.off + 1]) /\ Last(file'[r.off + r.len])
      <4>1. start < end
        BY <2>2, <3>2, <3>6 DEF start, end
      <4>2. start + 1 \in 1..Len(writer.data) /\ end \in 1..Len(writer.data)
        BY <2>2, <3>3, <4>1
      <4>3. /\ file'[r.off + 1] = writer.data[start + 1]
            /\ file'[r.off + r.len] = writer.data[end]
        BY <2>1, <2>3, <3>4, <4>2
      <4>4. Lead(writer.data[start + 1]) /\ Last(writer.data[end])
        BY <2>2, <3>1, <3>3, <4>1, <4>2 DEF Boundary
      <4> QED
        BY <4>3, <4>4
    <3> QED
      BY <3>5, <3>6 DEF r
  <2>8. \A k \in 1..Len(rows) : rows[k].off >= 0
    <3> SUFFICES ASSUME NEW k \in 1..Len(rows) PROVE rows[k].off >= 0
      OBVIOUS
    <3>1. rows[k].off - writer.off >= 0 /\ rows[k].off \in Int
      <4>1. rows[k].off \in Int /\ rows[k].len \in Nat
        BY <2>2, RowFields
      <4>2. rows[k].off - writer.off \in 0..(rows[k].off - writer.off + rows[k].len)
        BY <2>3 DEF ChunkOf
      <4> QED
        BY <2>2, <4>1, <4>2
    <3> QED
      BY <2>2, <3>1
  <2>9. ASSUME NEW i \in 1..Len(index')
        PROVE  IF index'[i].off >= 0 THEN RangeBacked(index[i])'
               ELSE index'[i].art # 0 => \E t \in arts' : t.id = index'[i].art
    <3>1. CASE i <= Len(index)
      <4>1. i \in 1..Len(index) /\ index'[i] = index[i]
        BY <2>2, <2>5, <3>1
      <4>2. RangeBacked(index[i])' <=>
              /\ index'[i].off + index'[i].len <= row'.size
              /\ index'[i].off + index'[i].len <= Len(file')
              /\ index'[i].len > 0 => /\ Lead(file'[index'[i].off + 1])
                                      /\ Last(file'[index'[i].off + index'[i].len])
        BY DEF RangeBacked
      <4> QED
        BY <2>6, <4>1, <4>2
    <3>2. CASE ~(i <= Len(index))
      <4> DEFINE k == i - Len(index)
      <4>1. k \in 1..Len(rows) /\ index'[i] = rows[k]
        BY <2>2, <2>5, <3>2
      <4> QED
        BY <2>7, <2>8, <4>1 DEF RangeBacked
    <3> QED
      BY <3>1, <3>2
  <2>10. \A t \in arts' : ArtifactBacked(t)'
    BY <2>1, <2>3 DEF IndexBacked, ArtifactBacked
  <2> QED
    BY <2>9, <2>10 DEF IndexBacked
<1>6. CASE AppendFails
  BY <1>0, <1>b, <1>6, IndexFrame DEF AppendFails, store
<1>7. CASE UndoAppend
  <2>1. /\ UNCHANGED <<row, index, arts, disk>> /\ row.size = writer.off
        /\ file' = file \/ file' = Truncate(file, row.size)
    BY <1>7 DEF UndoAppend, store, Transaction
  <2>2. row.exists => row.size <= Len(file') /\ \A i \in 1..row.size : file'[i] = file[i]
    BY <1>0, <1>b, <2>1, TruncateKeeps
  <2> QED
    BY <1>0, <2>1, <2>2, IndexFrame
<1>8. CASE WriteRich
  BY <1>0, <1>b, <1>8, IndexFrame DEF WriteRich, store
<1>9. CASE InsertRich
  <2> DEFINE art == [id |-> loc["worker"].art, data |-> <<>>, whole |-> FALSE]
  <2>0. InHand("worker") /\ pc["worker"] = "richrow"
    BY <1>9 DEF InsertRich, InHand
  <2>1. CASE row.exists /\ arts' = arts \cup {art} /\ UNCHANGED disk
    <3>1. PICK d \in disk : d.id = loc["worker"].art /\ d.data = <<>>
      BY <2>0, <2>1, ValuesTyped DEF Hands
    <3>2. art.id = d.id /\ art.data = d.data
      BY <3>1
    <3> HIDE DEF art
    <3> QED
      BY <1>9, <2>1, <3>2, ArtifactGrows DEF InsertRich
  <2>2. CASE disk' = {d \in disk : d.id # loc["worker"].art} /\ UNCHANGED arts
    <3>1. \A t \in arts : t.id # loc["worker"].art
      BY <2>0, ValuesTyped DEF Hands
    <3> QED
      BY <1>9, <2>2, <3>1, ArtifactDropped DEF InsertRich
  <2> QED
    BY <1>9, <2>1, <2>2 DEF InsertRich
<1>10. CASE IndexRich
  <2>1. CASE row.exists /\ ~row.sealed
    <3>1. loc["worker"].art \in Nat
      BY ValuesTyped DEF Typed, Locals
    <3>2. \E t \in arts : t.id = loc["worker"].art
      BY <1>10, <2>1 DEF IndexRich, Hands
    <3> QED
      BY <1>10, <2>1, <3>1, <3>2, IndexGrows DEF IndexRich
  <2>2. CASE ~(row.exists /\ ~row.sealed)
    BY <1>0, <1>b, <1>10, <2>2, IndexFrame DEF IndexRich
  <2> QED
    BY <2>1, <2>2
<1>11. CASE IndexEvent
  <2>1. CASE row.exists /\ ~row.sealed
    BY <1>11, <2>1, IndexGrows DEF IndexEvent
  <2>2. CASE ~(row.exists /\ ~row.sealed)
    BY <1>0, <1>b, <1>11, <2>2, IndexFrame DEF IndexEvent
  <2> QED
    BY <2>1, <2>2
<1>12. CASE Settle
  BY <1>0, <1>b, <1>12, IndexFrame, RowProved DEF Settle, counters
<1>13. CASE Fail
  BY <1>0, <1>b, <1>13, IndexFrame, RowMarked DEF Fail, counters
<1>14. CASE ForcedStop
  BY <1>0, <1>b, <1>14, IndexFrame, RowMarked DEF ForcedStop
<1>15. CASE WorkerYields
  BY <1>0, <1>b, <1>15, IndexFrame DEF WorkerYields, store, counters
<1>16. CASE Crash
  BY <1>0, <1>b, <1>16, IndexFrame DEF Crash, store
<1>17. CASE Restart
  BY <1>0, <1>b, <1>17, IndexFrame, RowMarked DEF Restart, counters
<1>18. ASSUME NEW a \in Actors, FinalizeReads(a) PROVE IndexBacked'
  BY <1>0, <1>b, <1>18, IndexFrame DEF FinalizeReads, store, counters
<1>19. ASSUME NEW a \in Actors, FinalizeHashes(a) PROVE IndexBacked'
  BY <1>0, <1>b, <1>19, IndexFrame DEF FinalizeHashes, store, counters
<1>20. ASSUME NEW a \in Actors, FinalizeStats(a) PROVE IndexBacked'
  BY <1>0, <1>b, <1>20, IndexFrame DEF FinalizeStats, store, counters
<1>21. ASSUME NEW a \in Actors, FinalizeCopies(a) PROVE IndexBacked'
  <2>1. UNCHANGED <<row, index, file, arts>> /\ disk \subseteq disk'
    BY <1>21 DEF FinalizeCopies, store
  <2> QED
    BY <1>0, <1>b, <2>1, IndexFrame
<1>22. ASSUME NEW a \in Actors, FinalizeInserts(a) PROVE IndexBacked'
  <2>0. InHand(a)
    BY <1>22 DEF FinalizeInserts, InHand
  <2>1. CASE row.exists /\ UNCHANGED disk /\ \E d \in disk :
               arts' = arts \cup {[id |-> d.id, data |-> d.data, whole |-> TRUE]}
    <3>1. PICK d \in disk : arts' = arts \cup {[id |-> d.id, data |-> d.data, whole |-> TRUE]}
      BY <2>1
    <3> DEFINE art == [id |-> d.id, data |-> d.data, whole |-> TRUE]
    <3>2. art.id = d.id /\ art.data = d.data /\ arts' = arts \cup {art}
      BY <3>1
    <3> HIDE DEF art
    <3> QED
      BY <1>22, <2>1, <3>2, ArtifactGrows DEF FinalizeInserts
  <2>2. CASE disk' = {d \in disk : d.id # loc[a].art} /\ UNCHANGED arts
    <3>1. \A t \in arts : t.id # loc[a].art
      BY <2>0 DEF Hands
    <3> QED
      BY <1>22, <2>2, <3>1, ArtifactDropped DEF FinalizeInserts
  <2> QED
    BY <1>22, <2>1, <2>2 DEF FinalizeInserts
<1>23. ASSUME NEW a \in Actors, FinalizeIndexes(a) PROVE IndexBacked'
  <2> DEFINE art == CHOOSE x \in loc[a].existing : TRUE
  <2>1. art \in Nat
    BY <1>23 DEF FinalizeIndexes, Typed, Locals
  <2>2. UNCHANGED <<row, arts, file, disk>>
    BY <1>23 DEF FinalizeIndexes
  <2>3. \/ index' = index
        \/ index' = Append(index, IndexRow(art)) /\ \E t \in arts : t.id = art
    BY <1>23, Zenon DEF FinalizeIndexes
  <2> HIDE DEF art
  <2>4. CASE index' = index
    BY <1>0, <1>b, <2>2, <2>4, IndexFrame
  <2>5. CASE index' = Append(index, IndexRow(art)) /\ \E t \in arts : t.id = art
    BY <2>1, <2>2, <2>5, IndexGrows
  <2> QED
    BY <2>3, <2>4, <2>5
<1>24. ASSUME NEW a \in Actors, FinalizeCommits(a) PROVE IndexBacked'
  <2>1. loc[a].digest \in Seq(Byte)
    BY DEF Typed, Locals
  <2> QED
    BY <1>0, <1>b, <1>24, <2>1, RowSealed, IndexFrame DEF FinalizeCommits
<1>25. ASSUME NEW a \in Actors, Terminate(a) PROVE IndexBacked'
  BY <1>0, <1>b, <1>25, IndexFrame, RowEnded DEF Terminate, counters
<1>26. CASE PageReads
  BY <1>0, <1>b, <1>26, IndexFrame DEF PageReads, store, counters
<1>27. CASE PageRows
  BY <1>0, <1>b, <1>27, IndexFrame DEF PageRows, store, counters
<1>28. CASE PageEnds
  BY <1>0, <1>b, <1>28, IndexFrame DEF PageEnds, store, counters
<1>29. CASE PruneSelects
  BY <1>0, <1>b, <1>29, IndexFrame DEF PruneSelects, store, counters
<1>30. CASE PruneDeletes
  BY <1>0, <1>30, RowDeleted DEF PruneDeletes, IndexBacked
<1>31. CASE PruneUnlinks
  BY <1>31 DEF PruneUnlinks, store, IndexBacked, Life
<1>32. CASE PruneDies
  BY <1>0, <1>b, <1>32, IndexFrame DEF PruneDies, store
<1>33. CASE UNCHANGED vars
  BY <1>0, <1>b, <1>33, IndexFrame DEF vars, store
<1> QED
  BY <1>1, <1>2, <1>3, <1>4, <1>5, <1>6, <1>7, <1>8, <1>9, <1>10, <1>11, <1>12, <1>13, <1>14,
     <1>15, <1>16, <1>17, <1>18, <1>19, <1>20, <1>21, <1>22, <1>23, <1>24, <1>25, <1>26, <1>27,
     <1>28, <1>29, <1>30, <1>31, <1>32, <1>33 DEF Next

-----------------------------------------------------------------------------
(***************************************************************************)
(* Hands: the artifact an actor has written and not recorded.              *)
(***************************************************************************)
\* What the actors have in hand is undisturbed while no artifact comes or goes
\* and nobody takes one up.
LEMMA HandsFrame ==
  ASSUME Hands, UNCHANGED <<arts, disk>>, row'.exists => row.exists,
         \A a \in Actors : pc'[a] \in {"richrow", "insert"} =>
           pc'[a] = pc[a] /\ loc'[a].art = loc[a].art,
         pc'["worker"] = "richindex" =>
           pc["worker"] = "richindex" /\ loc'["worker"].art = loc["worker"].art,
         pc'["force"] \notin {"append", "richrow", "richindex"}
  PROVE  Hands'
<1>1. ASSUME NEW a \in Actors, InHand(a)'
      PROVE  /\ loc'[a].art # 0
             /\ \A t \in arts' : t.id # loc'[a].art
             /\ row'.exists => \E d \in disk' : d.id = loc'[a].art
             /\ pc'[a] = "richrow" => \A d \in disk' : d.id = loc'[a].art => d.data = <<>>
             /\ \A b \in Actors : a # b /\ InHand(b)' => loc'[a].art # loc'[b].art
  BY <1>1 DEF Hands, InHand
<1>2. pc'["worker"] = "richindex" /\ row'.exists => \E t \in arts' : t.id = loc'["worker"].art
  BY DEF Hands
<1> QED
  BY <1>1, <1>2 DEF Hands

\* An actor takes up an artifact it has just written.
LEMMA HandsTake ==
  ASSUME Typed, Hands, UNCHANGED <<arts, row>>, NEW a \in Actors, NEW data,
         disk' = disk \cup {[id |-> Fresh, data |-> data]},
         loc' = [loc EXCEPT ![a].art = Fresh],
         NEW place \in {"richrow", "insert"}, pc' = [pc EXCEPT ![a] = place],
         place = "richrow" => a = "worker" /\ data = <<>>
  PROVE  Hands'
<1> DEFINE new == [id |-> Fresh, data |-> data]
<1>0. /\ Fresh \in Nat \ {0} /\ \A d \in disk : d.id # Fresh
      /\ \A t \in arts : t.id # Fresh
      /\ \A b \in Actors : loc[b].art # Fresh
  BY FreshIsNew
<1>1. /\ loc'[a].art = Fresh /\ \A b \in Actors : b # a => loc'[b].art = loc[b].art
      /\ pc'[a] = place /\ \A b \in Actors : b # a => pc'[b] = pc[b]
  <2>1. loc \in [Actors -> Locals] /\ pc \in [Actors -> Places]
    BY DEF Typed, TypeOK
  <2> HIDE DEF Fresh
  <2> QED
    BY <2>1 DEF Locals
<1> HIDE DEF Fresh
<1>2. disk' = disk \cup {new} /\ new.id = Fresh /\ new.data = data
  OBVIOUS
<1> HIDE DEF new
<1>3. ASSUME NEW b \in Actors, InHand(b)'
      PROVE  /\ loc'[b].art # 0
             /\ \A t \in arts' : t.id # loc'[b].art
             /\ row'.exists => \E d \in disk' : d.id = loc'[b].art
             /\ pc'[b] = "richrow" => \A d \in disk' : d.id = loc'[b].art => d.data = <<>>
             /\ \A c \in Actors : b # c /\ InHand(c)' => loc'[b].art # loc'[c].art
  <2>1. CASE b = a
    BY <1>0, <1>1, <1>2, <1>3, <2>1 DEF Hands, InHand
  <2>2. CASE b # a
    BY <1>0, <1>1, <1>2, <1>3, <2>2 DEF Hands, InHand
  <2> QED
    BY <2>1, <2>2
<1>4. pc'["worker"] = "richindex" /\ row'.exists => \E t \in arts' : t.id = loc'["worker"].art
  BY <1>1, ValuesTyped DEF Hands
<1>5. pc'["force"] \notin {"append", "richrow", "richindex"}
  BY <1>1, ValuesTyped DEF Hands
<1> QED
  BY <1>3, <1>4, <1>5 DEF Hands

\* An actor whose artifact is not recorded removes its file.
LEMMA HandsDrop ==
  ASSUME Typed, Hands, UNCHANGED <<arts, row, loc>>, NEW a \in Actors, InHand(a),
         disk' = {d \in disk : d.id # loc[a].art}, Raise(a)
  PROVE  Hands'
<1>1. /\ pc'[a] \in {"idle", "dead", "failing"}
      /\ \A b \in Actors : b # a => pc'[b] = pc[b]
  BY DEF Raise, Go, Typed, TypeOK
<1>2. ASSUME NEW b \in Actors, InHand(b)'
      PROVE  /\ loc'[b].art # 0
             /\ \A t \in arts' : t.id # loc'[b].art
             /\ row'.exists => \E d \in disk' : d.id = loc'[b].art
             /\ pc'[b] = "richrow" => \A d \in disk' : d.id = loc'[b].art => d.data = <<>>
             /\ \A c \in Actors : b # c /\ InHand(c)' => loc'[b].art # loc'[c].art
  <2>1. b # a /\ InHand(b)
    BY <1>1, <1>2 DEF InHand
  <2>2. loc[b].art # loc[a].art
    BY <2>1 DEF Hands
  <2>3. \A c \in Actors : InHand(c)' => InHand(c)
    BY <1>1 DEF InHand
  <2> QED
    BY <1>1, <2>1, <2>2, <2>3 DEF Hands
<1>3. pc'["worker"] = "richindex" /\ row'.exists => \E t \in arts' : t.id = loc'["worker"].art
  BY <1>1, ValuesTyped DEF Hands
<1>4. pc'["force"] \notin {"append", "richrow", "richindex"}
  BY <1>1, ValuesTyped DEF Hands
<1> QED
  BY <1>2, <1>3, <1>4 DEF Hands

\* An actor records the artifact it has in hand.
LEMMA HandsRecord ==
  ASSUME Typed, Hands, UNCHANGED <<disk, row>>, NEW a \in Actors, InHand(a), NEW art,
         art.id = loc[a].art, arts' = arts \cup {art},
         \A b \in Actors : loc'[b].art = loc[b].art,
         NEW place \in {"richindex", "index"}, pc' = [pc EXCEPT ![a] = place],
         place = "richindex" => a = "worker"
  PROVE  Hands'
<1>1. pc'[a] = place /\ \A b \in Actors : b # a => pc'[b] = pc[b]
  BY DEF Typed, TypeOK
<1>2. ASSUME NEW b \in Actors, InHand(b)'
      PROVE  /\ loc'[b].art # 0
             /\ \A t \in arts' : t.id # loc'[b].art
             /\ row'.exists => \E d \in disk' : d.id = loc'[b].art
             /\ pc'[b] = "richrow" => \A d \in disk' : d.id = loc'[b].art => d.data = <<>>
             /\ \A c \in Actors : b # c /\ InHand(c)' => loc'[b].art # loc'[c].art
  <2>1. b # a /\ InHand(b)
    BY <1>1, <1>2 DEF InHand
  <2>2. loc[b].art # loc[a].art
    BY <2>1 DEF Hands
  <2>3. \A c \in Actors : InHand(c)' => InHand(c)
    BY <1>1 DEF InHand
  <2> QED
    BY <1>1, <2>1, <2>2, <2>3 DEF Hands
<1>3. pc'["worker"] = "richindex" /\ row'.exists => \E t \in arts' : t.id = loc'["worker"].art
  BY <1>1, ValuesTyped DEF Hands
<1>4. pc'["force"] \notin {"append", "richrow", "richindex"}
  BY <1>1, ValuesTyped DEF Hands
<1> QED
  BY <1>2, <1>3, <1>4 DEF Hands

\* Every step keeps what the actors have in hand.
LEMMA HandsKept ==
  ASSUME Typed, Life, Hands, [Next]_vars
  PROVE  Hands'
<1>0. /\ row \in Execution /\ pc \in [Actors -> Places] /\ loc \in [Actors -> Locals]
      /\ pc["force"] \notin {"append", "richrow", "richindex"}
  BY DEF Typed, TypeOK, Hands
<1>1. CASE BeginAppend
  BY <1>0, <1>1, HandsFrame DEF BeginAppend, Go, Raise, store, Actors
<1>2. CASE OpenSpool
  BY <1>0, <1>2, HandsFrame DEF OpenSpool, store, counters, Actors
<1>3. CASE WriteBytes
  BY <1>0, <1>3, HandsFrame DEF WriteBytes, store, counters, Actors
<1>4. CASE IndexChunk
  BY <1>0, <1>4, HandsFrame DEF IndexChunk, store, counters, Actors
<1>5. CASE CommitAppend
  <2>1. row'.exists = row.exists
    <3>1. writer.off + Len(writer.data) \in Nat
      BY DEF Typed, Writers
    <3> QED
      BY <1>0, <1>5, <3>1, RowGrown DEF CommitAppend
  <2> QED
    BY <1>0, <1>5, <2>1, HandsFrame DEF CommitAppend, Go, Actors
<1>6. CASE AppendFails
  BY <1>0, <1>6, HandsFrame DEF AppendFails, store, Actors
<1>7. CASE UndoAppend
  BY <1>0, <1>7, HandsFrame DEF UndoAppend, Raise, store, Go, Actors
<1>8. CASE WriteRich
  BY <1>8, HandsTake, ValuesTyped DEF WriteRich, Go, store
<1>9. CASE InsertRich
  <2>0. InHand("worker")
    BY <1>9 DEF InsertRich, InHand
  <2> DEFINE art == [id |-> loc["worker"].art, data |-> <<>>, whole |-> FALSE]
  <2>1. CASE /\ UNCHANGED arts /\ disk' = {d \in disk : d.id # loc["worker"].art}
             /\ Raise("worker")
    BY <1>9, <2>0, <2>1, HandsDrop, ValuesTyped DEF InsertRich
  <2>2. CASE arts' = arts \cup {art} /\ UNCHANGED disk /\ Go("worker", "richindex")
    <3>1. arts' = arts \cup {art} /\ UNCHANGED <<disk, row, loc>>
          /\ pc' = [pc EXCEPT !["worker"] = "richindex"]
      BY <1>9, <2>2 DEF InsertRich, Go
    <3>2. art.id = loc["worker"].art
      OBVIOUS
    <3> HIDE DEF art
    <3> QED
      BY <2>0, <3>1, <3>2, HandsRecord, ValuesTyped
  <2> QED
    BY <1>9, <2>1, <2>2 DEF InsertRich
<1>10. CASE IndexRich
  BY <1>0, <1>10, HandsFrame DEF IndexRich, Go, Raise, counters, Actors
<1>11. CASE IndexEvent
  BY <1>0, <1>11, HandsFrame DEF IndexEvent, Raise, Go, Actors
<1>12. CASE Settle
  BY <1>0, <1>12, HandsFrame, RowProved DEF Settle, Go, counters, Actors
<1>13. CASE Fail
  BY <1>0, <1>13, HandsFrame, RowMarked DEF Fail, Go, counters, Actors
<1>14. CASE ForcedStop
  BY <1>0, <1>14, HandsFrame, RowMarked DEF ForcedStop, Go, Actors
<1>15. CASE WorkerYields
  BY <1>0, <1>15, HandsFrame DEF WorkerYields, Go, store, counters, Actors
<1>16. CASE Crash
  BY <1>0, <1>16, HandsFrame DEF Crash, store, Actors
<1>17. CASE Restart
  BY <1>0, <1>17, HandsFrame, RowMarked DEF Restart, Go, counters, Actors
<1>18. ASSUME NEW a \in Actors, FinalizeReads(a) PROVE Hands'
  BY <1>0, <1>18, HandsFrame DEF FinalizeReads, Go, Raise, store, counters, Actors
<1>19. ASSUME NEW a \in Actors, FinalizeHashes(a) PROVE Hands'
  BY <1>0, <1>19, HandsFrame DEF FinalizeHashes, Go, store, counters, Actors
<1>20. ASSUME NEW a \in Actors, FinalizeStats(a) PROVE Hands'
  BY <1>0, <1>20, HandsFrame DEF FinalizeStats, Go, Raise, store, counters, Actors
<1>21. ASSUME NEW a \in Actors, FinalizeCopies(a) PROVE Hands'
  <2>1. CASE row.exists
    BY <1>21, <2>1, HandsTake DEF FinalizeCopies, Go, store
  <2>2. CASE ~row.exists
    BY <1>0, <1>21, <2>2, HandsFrame DEF FinalizeCopies, Raise, Go, Actors, store
  <2> QED
    BY <2>1, <2>2
<1>22. ASSUME NEW a \in Actors, FinalizeInserts(a) PROVE Hands'
  <2>0. InHand(a)
    BY <1>22 DEF FinalizeInserts, InHand
  <2>1. CASE UNCHANGED <<arts, loc>> /\ disk' = {d \in disk : d.id # loc[a].art} /\ Raise(a)
    BY <1>22, <2>0, <2>1, HandsDrop DEF FinalizeInserts
  <2>2. CASE /\ \E d \in disk :
                  /\ d.id = loc[a].art
                  /\ arts' = arts \cup {[id |-> d.id, data |-> d.data, whole |-> TRUE]}
             /\ loc' = [loc EXCEPT ![a].existing = {loc[a].art}]
             /\ Go(a, "index") /\ UNCHANGED disk
    <3>1. PICK d \in disk :
            d.id = loc[a].art /\ arts' = arts \cup {[id |-> d.id, data |-> d.data, whole |-> TRUE]}
      BY <2>2
    <3>2. /\ loc' = [loc EXCEPT ![a].existing = {loc[a].art}] /\ UNCHANGED <<disk, row>>
          /\ pc' = [pc EXCEPT ![a] = "index"]
      BY <1>22, <2>2 DEF FinalizeInserts, Go
    <3> DEFINE art == [id |-> d.id, data |-> d.data, whole |-> TRUE]
    <3>3. art.id = loc[a].art /\ arts' = arts \cup {art}
      BY <3>1
    <3>4. \A b \in Actors : loc'[b].art = loc[b].art
      BY <1>0, <3>2 DEF Locals
    <3> HIDE DEF art
    <3> QED
      BY <2>0, <3>2, <3>3, <3>4, HandsRecord
  <2> QED
    BY <1>22, <2>1, <2>2 DEF FinalizeInserts
<1>23. ASSUME NEW a \in Actors, FinalizeIndexes(a) PROVE Hands'
  <2>1. UNCHANGED <<row, arts, disk>> /\ (pc' = pc \/ Raise(a))
    BY <1>23, Zenon DEF FinalizeIndexes
  <2>2. \A b \in Actors : loc'[b].art = loc[b].art
    <3> DEFINE rest == loc[a].existing \ {CHOOSE x \in loc[a].existing : TRUE}
    <3>1. loc' = loc \/ loc' = [loc EXCEPT ![a].existing = rest]
      BY <1>23 DEF FinalizeIndexes
    <3> HIDE DEF rest
    <3>2. \A b \in Actors : [loc EXCEPT ![a].existing = rest][b].art = loc[b].art
      BY <1>0 DEF Locals
    <3> QED
      BY <3>1, <3>2
  <2> QED
    BY <1>0, <2>1, <2>2, HandsFrame DEF Raise, Go, Actors
<1>24. ASSUME NEW a \in Actors, FinalizeCommits(a) PROVE Hands'
  BY <1>0, <1>24, HandsFrame, RowSealed DEF FinalizeCommits, Go, Raise, counters, Actors
<1>25. ASSUME NEW a \in Actors, Terminate(a) PROVE Hands'
  BY <1>0, <1>25, HandsFrame, RowEnded DEF Terminate, Go, Raise, counters, Actors
<1>26. CASE PageReads
  BY <1>0, <1>26, HandsFrame DEF PageReads, store, counters, Actors
<1>27. CASE PageRows
  BY <1>0, <1>27, HandsFrame DEF PageRows, store, counters, Actors
<1>28. CASE PageEnds
  BY <1>0, <1>28, HandsFrame DEF PageEnds, store, counters, Actors
<1>29. CASE PruneSelects
  BY <1>0, <1>29, HandsFrame DEF PruneSelects, store, counters, Actors
<1>30. CASE PruneDeletes
  <2>1. ~row'.exists /\ arts' = {} /\ UNCHANGED <<pc, loc, disk>>
    BY <1>0, <1>30, RowDeleted DEF PruneDeletes
  <2> QED
    BY <2>1 DEF Hands, InHand
<1>31. CASE PruneUnlinks
  <2>1. ~row.exists /\ UNCHANGED <<row, arts, pc, loc>> /\ disk' \subseteq disk
    BY <1>31 DEF PruneUnlinks, store, Life
  <2> QED
    BY <2>1 DEF Hands, InHand
<1>32. CASE PruneDies
  BY <1>0, <1>32, HandsFrame DEF PruneDies, store, Actors
<1>33. CASE UNCHANGED vars
  BY <1>0, <1>33, HandsFrame DEF vars, store
<1> QED
  BY <1>1, <1>2, <1>3, <1>4, <1>5, <1>6, <1>7, <1>8, <1>9, <1>10, <1>11, <1>12, <1>13, <1>14,
     <1>15, <1>16, <1>17, <1>18, <1>19, <1>20, <1>21, <1>22, <1>23, <1>24, <1>25, <1>26, <1>27,
     <1>28, <1>29, <1>30, <1>31, <1>32, <1>33 DEF Next

-----------------------------------------------------------------------------
(***************************************************************************)
(* Paged: what a reader has got.                                           *)
(***************************************************************************)
\* A reader keeps what it has while the index only grows.
LEMMA PagedGrows ==
  ASSUME Typed, Paged, UNCHANGED page, row'.exists => row.exists,
         NEW more \in Seq(Rows), index' = index \o more
  PROVE  Paged'
<1> SUFFICES ASSUME row'.exists, page.at # "idle" PROVE Paged'
  BY DEF Paged
<1>0. /\ row.exists /\ index \in Seq(Rows) /\ page.cursor \in Nat /\ page.from \in Nat
      /\ Len(index) \in Nat /\ Len(more) \in Nat
  BY DEF Typed, TypeOK, Pages
<1>1. Len(index') = Len(index) + Len(more)
  BY <1>0, ConcatProperties
<1>2. SubSeq(index', page.from + 1, page.cursor) = SubSeq(index, page.from + 1, page.cursor)
  <2>1. CASE page.from = page.cursor
    BY <1>0, <2>1, SubSeqEmpty
  <2>2. CASE page.from # page.cursor
    <3>1. page.from + 1 \in 1..Len(index) /\ page.cursor \in 1..Len(index)
      BY <1>0, <2>2 DEF Paged
    <3> QED
      BY <1>0, <3>1, SubSeqOfConcat1
  <2> QED
    BY <2>1, <2>2
<1> QED
  BY <1>0, <1>1, <1>2 DEF Paged

\* A reader keeps what it has while the index stays.
LEMMA PagedFrame ==
  ASSUME Paged, UNCHANGED <<page, index>>, row'.exists => row.exists
  PROVE  Paged'
  BY DEF Paged

\* Every step keeps the reader's pages a part of the index.
LEMMA PagedKept ==
  ASSUME Typed, Paged, [Next]_vars
  PROVE  Paged'
<1>0. /\ row \in Execution /\ index \in Seq(Rows) /\ page \in Pages
      /\ loc \in [Actors -> Locals] /\ "worker" \in Actors
  BY ValuesTyped DEF Typed, TypeOK
<1>1. CASE BeginAppend
  BY <1>0, <1>1, PagedFrame DEF BeginAppend, store
<1>2. CASE OpenSpool
  BY <1>0, <1>2, PagedFrame DEF OpenSpool, store, counters
<1>3. CASE WriteBytes
  BY <1>0, <1>3, PagedFrame DEF WriteBytes, store, counters
<1>4. CASE IndexChunk
  BY <1>0, <1>4, PagedFrame DEF IndexChunk, store, counters
<1>5. CASE CommitAppend
  <2>1. writer.off + Len(writer.data) \in Nat /\ writer.rows \in Seq(Rows)
    BY DEF Typed, Writers
  <2>2. row'.exists = row.exists
    BY <1>0, <1>5, <2>1, RowGrown DEF CommitAppend
  <2> QED
    BY <1>5, <2>1, <2>2, PagedGrows DEF CommitAppend
<1>6. CASE AppendFails
  BY <1>0, <1>6, PagedFrame DEF AppendFails, store
<1>7. CASE UndoAppend
  BY <1>0, <1>7, PagedFrame DEF UndoAppend, store
<1>8. CASE WriteRich
  BY <1>0, <1>8, PagedFrame DEF WriteRich, store
<1>9. CASE InsertRich
  BY <1>0, <1>9, PagedFrame DEF InsertRich
<1>10. CASE IndexRich
  <2>1. IndexRow(loc["worker"].art) \in Rows
    BY <1>0, ValuesTyped DEF Locals
  <2>2. <<IndexRow(loc["worker"].art)>> \in Seq(Rows)
    BY <2>1
  <2>3. Append(index, IndexRow(loc["worker"].art)) = index \o <<IndexRow(loc["worker"].art)>>
    BY <1>0, <2>1, AppendIsConcat
  <2>4. UNCHANGED <<row, page>>
    BY <1>10 DEF IndexRich
  <2>5. CASE UNCHANGED index
    BY <2>4, <2>5, PagedFrame
  <2>6. CASE index' = Append(index, IndexRow(loc["worker"].art))
    BY <2>2, <2>3, <2>4, <2>6, PagedGrows
  <2> QED
    BY <1>10, <2>5, <2>6 DEF IndexRich
<1>11. CASE IndexEvent
  <2>1. IndexRow(0) \in Rows
    BY <1>0, ValuesTyped DEF Locals
  <2>2. <<IndexRow(0)>> \in Seq(Rows)
    BY <2>1
  <2>3. Append(index, IndexRow(0)) = index \o <<IndexRow(0)>>
    BY <1>0, <2>1, AppendIsConcat
  <2>4. UNCHANGED <<row, page>>
    BY <1>11 DEF IndexEvent
  <2>5. CASE UNCHANGED index
    BY <2>4, <2>5, PagedFrame
  <2>6. CASE index' = Append(index, IndexRow(0))
    BY <2>2, <2>3, <2>4, <2>6, PagedGrows
  <2> QED
    BY <1>11, <2>5, <2>6 DEF IndexEvent
<1>12. CASE Settle
  BY <1>0, <1>12, PagedFrame, RowProved DEF Settle, counters
<1>13. CASE Fail
  BY <1>0, <1>13, PagedFrame, RowMarked DEF Fail, counters
<1>14. CASE ForcedStop
  BY <1>0, <1>14, PagedFrame, RowMarked DEF ForcedStop
<1>15. CASE WorkerYields
  BY <1>0, <1>15, PagedFrame DEF WorkerYields, store, counters
<1>16. CASE Crash
  BY <1>0, <1>16, PagedFrame DEF Crash, store
<1>17. CASE Restart
  BY <1>0, <1>17, PagedFrame, RowMarked DEF Restart, counters
<1>18. ASSUME NEW a \in Actors, FinalizeReads(a) PROVE Paged'
  BY <1>0, <1>18, PagedFrame DEF FinalizeReads, store, counters
<1>19. ASSUME NEW a \in Actors, FinalizeHashes(a) PROVE Paged'
  BY <1>0, <1>19, PagedFrame DEF FinalizeHashes, store, counters
<1>20. ASSUME NEW a \in Actors, FinalizeStats(a) PROVE Paged'
  BY <1>0, <1>20, PagedFrame DEF FinalizeStats, store, counters
<1>21. ASSUME NEW a \in Actors, FinalizeCopies(a) PROVE Paged'
  BY <1>0, <1>21, PagedFrame DEF FinalizeCopies, store, counters
<1>22. ASSUME NEW a \in Actors, FinalizeInserts(a) PROVE Paged'
  BY <1>0, <1>22, PagedFrame DEF FinalizeInserts
<1>23. ASSUME NEW a \in Actors, FinalizeIndexes(a) PROVE Paged'
  <2> DEFINE art == CHOOSE x \in loc[a].existing : TRUE
  <2>1. art \in Nat
    BY <1>0, <1>23 DEF FinalizeIndexes, Locals
  <2>2. UNCHANGED <<row, page>> /\ index' \in {index, Append(index, IndexRow(art))}
    BY <1>23 DEF FinalizeIndexes
  <2> HIDE DEF art
  <2>3. IndexRow(art) \in Rows
    BY <2>1, ValuesTyped
  <2>4. <<IndexRow(art)>> \in Seq(Rows)
    BY <2>3
  <2>5. Append(index, IndexRow(art)) = index \o <<IndexRow(art)>>
    BY <1>0, <2>3, AppendIsConcat
  <2>6. CASE index' = index
    BY <2>2, <2>6, PagedFrame
  <2>7. CASE index' = Append(index, IndexRow(art))
    BY <2>2, <2>4, <2>5, <2>7, PagedGrows
  <2> QED
    BY <2>2, <2>6, <2>7
<1>24. ASSUME NEW a \in Actors, FinalizeCommits(a) PROVE Paged'
  <2>1. loc[a].digest \in Seq(Byte)
    BY DEF Typed, Locals
  <2> QED
    BY <1>0, <1>24, <2>1, RowSealed, PagedFrame DEF FinalizeCommits
<1>25. ASSUME NEW a \in Actors, Terminate(a) PROVE Paged'
  BY <1>0, <1>25, PagedFrame, RowEnded DEF Terminate, counters
<1>26. CASE PageReads
  <2>1. PICK cursor \in IF page.at = "more" THEN {page.cursor} ELSE {0, 1} :
          page' = [page EXCEPT !.at = "rows", !.cursor = cursor, !.spooled = row.spooled,
                               !.from = IF page.at = "more" THEN @ ELSE cursor,
                               !.got = IF page.at = "more" THEN @ ELSE <<>>]
    BY <1>26 DEF PageReads
  <2>2. row.exists /\ UNCHANGED <<row, index>>
    BY <1>26 DEF PageReads, store
  <2>3. /\ page'.at = "rows" /\ page'.cursor = cursor
        /\ page'.from = IF page.at = "more" THEN page.from ELSE cursor
        /\ page'.got = IF page.at = "more" THEN page.got ELSE <<>>
    BY <1>0, <2>1 DEF Pages
  <2>4. CASE page.at = "more"
    BY <2>1, <2>2, <2>3, <2>4 DEF Paged
  <2>5. CASE page.at # "more"
    <3>1. cursor \in Nat /\ page'.from = cursor /\ page'.got = <<>>
      BY <2>1, <2>3, <2>5
    <3>2. SubSeq(index, cursor + 1, cursor) = <<>>
      BY <3>1, SubSeqEmpty
    <3> QED
      BY <2>2, <2>3, <3>1, <3>2 DEF Paged
  <2> QED
    BY <2>4, <2>5
<1>27. CASE PageRows
  <2>0. UNCHANGED <<row, index>> /\ page.at = "rows"
    BY <1>27 DEF PageRows, store
  <2>1. CASE page'.at = "idle" \/ ~row.exists
    BY <2>0, <2>1 DEF Paged
  <2>2. CASE page'.at # "idle" /\ row.exists
    <3>1. PICK n \in Nat :
            /\ page.cursor + n <= Len(index)
            /\ page'.got = page.got \o SubSeq(index, page.cursor + 1, page.cursor + n)
            /\ page'.cursor = page.cursor + n /\ page'.from = page.from
            /\ page'.at = IF n < Len(index) - page.cursor THEN "more" ELSE "end"
      BY <1>27, <2>2, PageTyped
    <3>2. /\ page.cursor \in Nat /\ page.from \in Nat /\ Len(index) \in Nat
          /\ page.from <= page.cursor /\ page.got = SubSeq(index, page.from + 1, page.cursor)
      BY <1>0, <2>0, <2>2 DEF Pages, Paged
    <3>3. SubSeq(index, page.from + 1, page.cursor)
            \o SubSeq(index, page.cursor + 1, page.cursor + n)
            = SubSeq(index, page.from + 1, page.cursor + n)
      <4> DEFINE m == page.from + 1
                 k == page.cursor
                 last == page.cursor + n
                 size == Len(index)
      <4>1. /\ page.from \in Nat /\ k \in Nat /\ size \in Nat /\ m = page.from + 1
            /\ page.from <= k /\ last = k + n /\ last <= size
        BY <3>1, <3>2
      <4> HIDE DEF m, k, last, size
      <4>2. m \in 1..(size + 1) /\ k \in (m - 1)..size /\ last \in k..size
        BY <4>1
      <4>3. SubSeq(index, m, k) \o SubSeq(index, k + 1, last) = SubSeq(index, m, last)
        BY <1>0, <4>2, ConcatAdjacentSubSeq DEF size
      <4> QED
        BY <4>3 DEF m, k, last
    <3>4. page'.from <= page'.cursor /\ page'.cursor <= Len(index')
      BY <2>0, <3>1, <3>2
    <3>5. page'.at = "more" => page'.cursor < Len(index')
      <4>1. page'.at = "more" => n < Len(index) - page.cursor
        BY <3>1
      <4> QED
        BY <2>0, <3>1, <3>2, <4>1
    <3>6. page'.got = SubSeq(index', page'.from + 1, page'.cursor)
      BY <2>0, <3>1, <3>2, <3>3
    <3> QED
      BY <3>4, <3>5, <3>6 DEF Paged
  <2> QED
    BY <2>1, <2>2
<1>28. CASE PageEnds
  BY <1>28, ValuesTyped DEF PageEnds, Paged
<1>29. CASE PruneSelects
  BY <1>0, <1>29, PagedFrame DEF PruneSelects, store, counters
<1>30. CASE PruneDeletes
  BY <1>0, <1>30, RowDeleted DEF PruneDeletes, Paged
<1>31. CASE PruneUnlinks
  BY <1>0, <1>31, PagedFrame DEF PruneUnlinks, store, counters
<1>32. CASE PruneDies
  BY <1>0, <1>32, PagedFrame DEF PruneDies, store
<1>33. CASE UNCHANGED vars
  BY <1>33, PagedFrame DEF vars, store
<1> QED
  BY <1>1, <1>2, <1>3, <1>4, <1>5, <1>6, <1>7, <1>8, <1>9, <1>10, <1>11, <1>12, <1>13, <1>14,
     <1>15, <1>16, <1>17, <1>18, <1>19, <1>20, <1>21, <1>22, <1>23, <1>24, <1>25, <1>26, <1>27,
     <1>28, <1>29, <1>30, <1>31, <1>32, <1>33 DEF Next

-----------------------------------------------------------------------------
(***************************************************************************)
(* Settled: complete output is finalized by the worker alone.              *)
(***************************************************************************)
\* What a row loses it never gets back.
LEMMA RowSteps ==
  ASSUME Typed, [Next]_vars
  PROVE  (row'.exists => row.exists) /\ (row'.complete => row.complete)
<1>0. row \in Execution
  BY DEF Typed, TypeOK
<1>1. CASE BeginAppend
  BY <1>0, <1>1 DEF BeginAppend, store
<1>2. CASE OpenSpool
  BY <1>0, <1>2 DEF OpenSpool, store
<1>3. CASE WriteBytes
  BY <1>0, <1>3 DEF WriteBytes, store
<1>4. CASE IndexChunk
  BY <1>0, <1>4 DEF IndexChunk, store
<1>5. CASE CommitAppend
  <2>1. writer.off + Len(writer.data) \in Nat
    BY DEF Typed, Writers
  <2> QED
    BY <1>0, <1>5, <2>1, RowGrown DEF CommitAppend
<1>6. CASE AppendFails
  BY <1>0, <1>6 DEF AppendFails, store
<1>7. CASE UndoAppend
  BY <1>0, <1>7 DEF UndoAppend, store
<1>8. CASE WriteRich
  BY <1>0, <1>8 DEF WriteRich, store
<1>9. CASE InsertRich
  BY <1>0, <1>9 DEF InsertRich
<1>10. CASE IndexRich
  BY <1>0, <1>10 DEF IndexRich
<1>11. CASE IndexEvent
  BY <1>0, <1>11 DEF IndexEvent
<1>12. CASE Settle
  BY <1>0, <1>12, RowProved DEF Settle
<1>13. CASE Fail
  BY <1>0, <1>13, RowMarked DEF Fail
<1>14. CASE ForcedStop
  BY <1>0, <1>14, RowMarked DEF ForcedStop
<1>15. CASE WorkerYields
  BY <1>0, <1>15 DEF WorkerYields, store
<1>16. CASE Crash
  BY <1>0, <1>16 DEF Crash, store
<1>17. CASE Restart
  BY <1>0, <1>17, RowMarked DEF Restart
<1>18. ASSUME NEW a \in Actors, FinalizeReads(a)
       PROVE  (row'.exists => row.exists) /\ (row'.complete => row.complete)
  BY <1>0, <1>18 DEF FinalizeReads, store
<1>19. ASSUME NEW a \in Actors, FinalizeHashes(a)
       PROVE  (row'.exists => row.exists) /\ (row'.complete => row.complete)
  BY <1>0, <1>19 DEF FinalizeHashes, store
<1>20. ASSUME NEW a \in Actors, FinalizeStats(a)
       PROVE  (row'.exists => row.exists) /\ (row'.complete => row.complete)
  BY <1>0, <1>20 DEF FinalizeStats, store
<1>21. ASSUME NEW a \in Actors, FinalizeCopies(a)
       PROVE  (row'.exists => row.exists) /\ (row'.complete => row.complete)
  BY <1>0, <1>21 DEF FinalizeCopies, store
<1>22. ASSUME NEW a \in Actors, FinalizeInserts(a)
       PROVE  (row'.exists => row.exists) /\ (row'.complete => row.complete)
  BY <1>0, <1>22 DEF FinalizeInserts
<1>23. ASSUME NEW a \in Actors, FinalizeIndexes(a)
       PROVE  (row'.exists => row.exists) /\ (row'.complete => row.complete)
  BY <1>0, <1>23 DEF FinalizeIndexes
<1>24. ASSUME NEW a \in Actors, FinalizeCommits(a)
       PROVE  (row'.exists => row.exists) /\ (row'.complete => row.complete)
  <2>1. loc[a].digest \in Seq(Byte)
    BY DEF Typed, Locals
  <2> QED
    BY <1>0, <1>24, <2>1, RowSealed DEF FinalizeCommits
<1>25. ASSUME NEW a \in Actors, Terminate(a)
       PROVE  (row'.exists => row.exists) /\ (row'.complete => row.complete)
  BY <1>0, <1>25, RowEnded DEF Terminate
<1>26. CASE PageReads
  BY <1>0, <1>26 DEF PageReads, store
<1>27. CASE PageRows
  BY <1>0, <1>27 DEF PageRows, store
<1>28. CASE PageEnds
  BY <1>0, <1>28 DEF PageEnds, store
<1>29. CASE PruneSelects
  BY <1>0, <1>29 DEF PruneSelects, store
<1>30. CASE PruneDeletes
  BY <1>0, <1>30, RowDeleted DEF PruneDeletes
<1>31. CASE PruneUnlinks
  BY <1>0, <1>31 DEF PruneUnlinks, store
<1>32. CASE PruneDies
  BY <1>0, <1>32 DEF PruneDies, store
<1>33. CASE UNCHANGED vars
  BY <1>0, <1>33 DEF vars, store
<1> QED
  BY <1>1, <1>2, <1>3, <1>4, <1>5, <1>6, <1>7, <1>8, <1>9, <1>10, <1>11, <1>12, <1>13, <1>14,
     <1>15, <1>16, <1>17, <1>18, <1>19, <1>20, <1>21, <1>22, <1>23, <1>24, <1>25, <1>26, <1>27,
     <1>28, <1>29, <1>30, <1>31, <1>32, <1>33 DEF Next

\* The committed text stays while the file and the committed length stay.
LEMMA ReadableKept ==
  ASSUME UNCHANGED file, row'.exists = row.exists, row'.size = row.size
  PROVE  Readable' = Readable
  BY DEF Readable

\* A spool of the committed length is the committed text.
LEMMA WholeFile ==
  ASSUME Typed, row.exists, Len(file) = row.size
  PROVE  file = Readable
<1>1. file \in Seq(Byte) /\ row.size \in Nat
  BY DEF Typed, TypeOK, Execution
<1>2. /\ Readable = [i \in 1..row.size |-> file[i]]
  BY <1>1 DEF Readable
<1> QED
  BY <1>1, <1>2

\* Output that nobody finalizes yet needs nothing but an idle forced stop.
LEMMA SettledOpen ==
  ASSUME ~row'.proved, pc'["force"] = "idle", pc'["worker"] \notin Finalizing, ~row'.sealed,
         \A t \in arts' : ~t.whole
  PROVE  Settled'
<1>1. pc'["worker"] \notin {"hash", "stat", "copy", "insert", "index"}
  BY DEF Finalizing
<1> QED
  BY <1>1 DEF Settled

\* Output stays settled while its row, its text and its whole-text artifacts
\* stay, and the worker leaves finalization.
LEMMA SettledLeft ==
  ASSUME Settled, row.exists, row.complete,
         row'.proved = row.proved, row'.sealed = row.sealed, row'.sha = row.sha,
         Readable' = Readable, UNCHANGED arts,
         pc'["force"] = "idle", pc'["worker"] \in {"failing", "dead", "done", "down"}
  PROVE  Settled'
  BY DEF Settled, Finalizing

\* Output stays settled while nothing of it changes.
LEMMA SettledFrame ==
  ASSUME Settled, UNCHANGED <<row, pc, loc, file, arts>>, disk' \subseteq disk
  PROVE  Settled'
<1>1. Readable' = Readable
  BY DEF Readable
<1> QED
  BY <1>1 DEF Settled

\* Every step keeps complete output settled.
LEMMA SettledKept ==
  ASSUME Typed, Life, Transaction, Settled, [Next]_vars
  PROVE  Settled'
<1> SUFFICES ASSUME row'.exists, row'.complete PROVE Settled'
  BY DEF Settled
<1>0. /\ row \in Execution /\ pc \in [Actors -> Places] /\ loc \in [Actors -> Locals]
      /\ "worker" \in Actors /\ "force" \in Actors
  BY ValuesTyped DEF Typed, TypeOK
<1>a. row.exists /\ row.complete
  BY RowSteps
<1>b. /\ pc["force"] = "idle"
      /\ pc["worker"] \in Finalizing \/ row.sealed => row.proved
      /\ row.proved => pc["worker"] \notin {"idle", "append", "richrow", "richindex"}
      /\ pc["worker"] \in {"hash", "stat"} => loc["worker"].size = row.size
      /\ pc["worker"] = "stat" => loc["worker"].digest = file
      /\ pc["worker"] = "copy" => file = Readable
      /\ pc["worker"] = "insert" => \A d \in disk : d.id = loc["worker"].art => d.data = Readable
      /\ pc["worker"] \in {"copy", "insert", "index"} => loc["worker"].digest = Readable
      /\ \A t \in arts : t.whole => row.proved /\ t.data = Readable
      /\ row.sealed => row.sha = Readable
  BY <1>a DEF Settled
<1>1. CASE BeginAppend
  <2>1. ~row.proved
    BY <1>b, <1>1 DEF BeginAppend
  <2>2. /\ pc'["worker"] \in {"append", "failing", "dead"} /\ pc'["force"] = "idle"
        /\ UNCHANGED <<row, arts>>
    BY <1>0, <1>b, <1>1 DEF BeginAppend, Raise, Go, store
  <2> QED
    BY <1>b, <2>1, <2>2, SettledOpen DEF Finalizing
<1>2. CASE OpenSpool
  <2>1. pc["worker"] = "append"
    BY <1>2 DEF OpenSpool, Typed, TypeOK
  <2>2. ~row.proved
    BY <1>b, <2>1
  <2> QED
    BY <1>b, <1>2, <2>2, SettledOpen DEF OpenSpool, store
<1>3. CASE WriteBytes
  <2>1. pc["worker"] = "append"
    BY <1>3 DEF WriteBytes, Typed, TypeOK
  <2>2. ~row.proved
    BY <1>b, <2>1
  <2> QED
    BY <1>b, <1>3, <2>2, SettledOpen DEF WriteBytes, store
<1>4. CASE IndexChunk
  BY <1>4, SettledFrame DEF IndexChunk, store
<1>5. CASE CommitAppend
  <2>1. pc["worker"] = "append" /\ writer.off + Len(writer.data) \in Nat
    BY <1>5 DEF CommitAppend, Typed, TypeOK, Writers
  <2>2. ~row.proved
    BY <1>b, <2>1
  <2>3. row'.proved = row.proved /\ row'.sealed = row.sealed
    BY <1>0, <1>5, <2>1, RowGrown DEF CommitAppend
  <2>4. pc'["worker"] = "idle" /\ pc'["force"] = "idle" /\ arts' = arts
    BY <1>0, <1>b, <1>5 DEF CommitAppend, Go
  <2> QED
    BY <1>b, <2>2, <2>3, <2>4, SettledOpen DEF Finalizing
<1>6. CASE AppendFails
  BY <1>6, SettledFrame DEF AppendFails, store
<1>7. CASE UndoAppend
  <2>1. pc["worker"] = "append"
    BY <1>7 DEF UndoAppend, Typed, TypeOK
  <2>2. ~row.proved
    BY <1>b, <2>1
  <2>3. pc'["worker"] \in {"failing", "dead"} /\ pc'["force"] = "idle" /\ UNCHANGED <<row, arts>>
    BY <1>0, <1>b, <1>7 DEF UndoAppend, Raise, Go, store
  <2> QED
    BY <1>b, <2>2, <2>3, SettledOpen DEF Finalizing
<1>8. CASE WriteRich
  <2>1. ~row.proved
    BY <1>b, <1>8 DEF WriteRich
  <2>2. pc'["worker"] \in {"richrow"} /\ pc'["force"] = "idle" /\ UNCHANGED <<row, arts>>
    BY <1>0, <1>b, <1>8 DEF WriteRich, Go, store
  <2> QED
    BY <1>b, <2>1, <2>2, SettledOpen DEF Finalizing
<1>9. CASE InsertRich
  <2>1. ~row.proved
    BY <1>b, <1>9 DEF InsertRich
  <2>2. pc'["worker"] \in {"richindex", "failing", "dead"} /\ pc'["force"] = "idle" /\ row' = row
    BY <1>0, <1>b, <1>9 DEF InsertRich, Raise, Go
  <2>3. \A t \in arts' : ~t.whole
    <3> DEFINE art == [id |-> loc["worker"].art, data |-> <<>>, whole |-> FALSE]
    <3>1. arts' = arts \/ arts' = arts \cup {art}
      BY <1>9 DEF InsertRich
    <3>2. ~art.whole
      OBVIOUS
    <3> HIDE DEF art
    <3> QED
      BY <1>b, <2>1, <3>1, <3>2
  <2> QED
    BY <1>b, <2>1, <2>2, <2>3, SettledOpen DEF Finalizing
<1>10. CASE IndexRich
  <2>1. ~row.proved
    BY <1>b, <1>10 DEF IndexRich
  <2>2. /\ pc'["worker"] \in {"idle", "failing", "dead"} /\ pc'["force"] = "idle"
        /\ UNCHANGED <<row, arts>>
    BY <1>0, <1>b, <1>10 DEF IndexRich, Raise, Go
  <2> QED
    BY <1>b, <2>1, <2>2, SettledOpen DEF Finalizing
<1>11. CASE IndexEvent
  <2>1. ~row.proved
    BY <1>b, <1>11 DEF IndexEvent
  <2>2. /\ pc'["worker"] \in {"idle", "failing", "dead"} /\ pc'["force"] = "idle"
        /\ UNCHANGED <<row, arts>>
    BY <1>0, <1>b, <1>11 DEF IndexEvent, Raise, Go
  <2> QED
    BY <1>b, <2>1, <2>2, SettledOpen DEF Finalizing
<1>12. CASE Settle
  <2>1. ~row.proved /\ ~row.sealed /\ \A t \in arts : ~t.whole
    BY <1>b, <1>12 DEF Settle
  <2>2. row'.proved /\ row'.sealed = row.sealed
    BY <1>0, <1>12, RowProved DEF Settle
  <2>3. pc'["worker"] = "read" /\ pc'["force"] = "idle" /\ arts' = arts
    BY <1>0, <1>b, <1>12 DEF Settle, Go
  <2> QED
    BY <2>1, <2>2, <2>3 DEF Settled
<1>13. CASE Fail
  <2>1. row' = row /\ pc' = [pc EXCEPT !["worker"] = "done"] /\ UNCHANGED <<file, arts>>
    BY <1>0, <1>13, RowMarked DEF Fail, Go
  <2>2. pc'["worker"] = "done" /\ pc'["force"] = "idle" /\ Readable' = Readable
    BY <1>0, <1>b, <2>1, ReadableKept
  <2> QED
    BY <1>a, <2>1, <2>2, SettledLeft
<1>14. CASE ForcedStop
  BY <1>0, <1>14, RowMarked DEF ForcedStop
<1>15. CASE WorkerYields
  BY <1>b, <1>15 DEF WorkerYields, Life
<1>16. CASE Crash
  <2>1. /\ pc'["worker"] = "down" /\ pc'["force"] = "idle" /\ UNCHANGED <<row, arts, file>>
    BY <1>16, ValuesTyped DEF Crash, store
  <2>2. Readable' = Readable
    BY <2>1, ReadableKept
  <2> QED
    BY <1>a, <2>1, <2>2, SettledLeft
<1>17. CASE Restart
  <2>1. /\ row' = row /\ UNCHANGED <<arts, file>>
        /\ \/ pc' = [pc EXCEPT !["worker"] = "done"]
           \/ row.proved /\ pc' = [pc EXCEPT !["worker"] = "read"]
    BY <1>0, <1>17, RowMarked DEF Restart, Go
  <2>2. Readable' = Readable
    BY <2>1, ReadableKept
  <2>3. CASE pc' = [pc EXCEPT !["worker"] = "done"]
    <3>1. pc'["worker"] = "done" /\ pc'["force"] = "idle"
      BY <1>0, <1>b, <2>3
    <3> QED
      BY <1>a, <2>1, <2>2, <3>1, SettledLeft
  <2>4. CASE row.proved /\ pc' = [pc EXCEPT !["worker"] = "read"]
    <3>1. pc'["worker"] = "read" /\ pc'["force"] = "idle"
      BY <1>0, <1>b, <2>4
    <3> QED
      BY <1>b, <2>1, <2>2, <2>4, <3>1 DEF Settled
  <2> QED
    BY <2>1, <2>3, <2>4
<1>18. ASSUME NEW a \in Actors, FinalizeReads(a) PROVE Settled'
  <2>0. a = "worker"
    BY <1>b, <1>18 DEF FinalizeReads, Actors
  <2>1. /\ UNCHANGED <<row, file, arts, disk>> /\ pc["worker"] = "read"
        /\ loc'["worker"].size = row.size /\ loc'["worker"].digest = <<>>
    BY <1>0, <1>18, <2>0 DEF FinalizeReads, store, Locals
  <2>2. /\ pc' = [pc EXCEPT !["worker"] = IF row.sealed THEN "indexonly"
                                         ELSE IF row.spooled THEN "hash" ELSE "index"]
    BY <1>a, <1>18, <2>0 DEF FinalizeReads, Go
  <2>3. Readable' = Readable
    BY <2>1, ReadableKept
  <2>4. pc'["force"] = "idle" /\ row.proved
    BY <1>0, <1>b, <2>1, <2>2 DEF Finalizing
  <2>5. CASE row.sealed
    <3>1. pc'["worker"] = "indexonly"
      BY <1>0, <2>2, <2>5
    <3> QED
      BY <1>b, <2>1, <2>3, <2>4, <3>1 DEF Settled
  <2>6. CASE ~row.sealed /\ row.spooled
    <3>1. pc'["worker"] = "hash"
      BY <1>0, <2>2, <2>6
    <3> QED
      BY <1>b, <2>1, <2>3, <2>4, <3>1 DEF Settled
  <2>7. CASE ~row.sealed /\ ~row.spooled
    <3>1. pc'["worker"] = "index"
      BY <1>0, <2>2, <2>7
    <3>2. Readable = <<>>
      <4>1. row.size = 0
        BY <1>a, <2>7 DEF Transaction
      <4> QED
        BY <1>a, <4>1 DEF Readable
    <3> QED
      BY <1>b, <2>1, <2>3, <2>4, <3>1, <3>2 DEF Settled
  <2> QED
    BY <2>5, <2>6, <2>7
<1>19. ASSUME NEW a \in Actors, FinalizeHashes(a) PROVE Settled'
  <2>0. a = "worker"
    BY <1>b, <1>19 DEF FinalizeHashes, Actors
  <2>1. /\ UNCHANGED <<row, file, arts, disk>> /\ pc["worker"] = "hash"
        /\ loc'["worker"].size = loc["worker"].size /\ loc'["worker"].digest = file
        /\ pc'["worker"] = "stat" /\ pc'["force"] = "idle"
    BY <1>0, <1>b, <1>19, <2>0 DEF FinalizeHashes, store, Locals, Go
  <2>2. Readable' = Readable
    BY <2>1, ReadableKept
  <2> QED
    BY <1>b, <2>1, <2>2 DEF Settled, Finalizing
<1>20. ASSUME NEW a \in Actors, FinalizeStats(a) PROVE Settled'
  <2>0. a = "worker"
    BY <1>b, <1>20 DEF FinalizeStats, Actors
  <2>1. UNCHANGED <<row, file, arts, disk, loc>> /\ pc["worker"] = "stat"
    BY <1>20, <2>0 DEF FinalizeStats, store
  <2>2. loc["worker"].size = row.size /\ loc["worker"].digest = file /\ row.proved
    BY <1>b, <2>1 DEF Finalizing
  <2>3. Readable' = Readable
    BY <2>1, ReadableKept
  <2>4. CASE Len(file) # row.size
    <3>1. pc'["worker"] \in {"failing", "dead"} /\ pc'["force"] = "idle"
      BY <1>0, <1>b, <1>20, <2>0, <2>2, <2>4 DEF FinalizeStats, Raise, Go
    <3> QED
      BY <1>a, <2>1, <2>3, <3>1, SettledLeft
  <2>5. CASE Len(file) = row.size
    <3>1. file = Readable
      BY <1>a, <2>5, WholeFile
    <3>2. pc'["worker"] \in {"copy", "index"} /\ pc'["force"] = "idle"
      BY <1>0, <1>b, <1>20, <2>0, <2>2, <2>5 DEF FinalizeStats, Go
    <3> QED
      BY <1>b, <2>1, <2>2, <2>3, <3>1, <3>2 DEF Settled
  <2> QED
    BY <2>4, <2>5
<1>21. ASSUME NEW a \in Actors, FinalizeCopies(a) PROVE Settled'
  <2>0. a = "worker"
    BY <1>b, <1>21 DEF FinalizeCopies, Actors
  <2>1. /\ UNCHANGED <<row, file, arts>> /\ pc["worker"] = "copy"
        /\ disk' = disk \cup {[id |-> Fresh, data |-> file]}
        /\ loc' = [loc EXCEPT !["worker"].art = Fresh]
        /\ pc' = [pc EXCEPT !["worker"] = "insert"]
    BY <1>a, <1>21, <2>0 DEF FinalizeCopies, store, Go
  <2>2. /\ loc'["worker"].art = Fresh /\ loc'["worker"].digest = loc["worker"].digest
        /\ pc'["worker"] = "insert" /\ pc'["force"] = "idle"
    BY <1>0, <1>b, <2>1 DEF Locals
  <2>3. Readable' = Readable
    BY <2>1, ReadableKept
  <2>4. file = Readable /\ loc["worker"].digest = Readable /\ row.proved
    BY <1>b, <2>1 DEF Finalizing
  <2>5. \A d \in disk' : d.id = loc'["worker"].art => d.data = Readable
    <3>1. \A d \in disk : d.id # Fresh
      BY FreshIsNew
    <3> DEFINE new == [id |-> Fresh, data |-> file]
    <3>2. disk' = disk \cup {new} /\ new.data = file
      BY <2>1
    <3> HIDE DEF new
    <3> QED
      BY <2>2, <2>4, <3>1, <3>2
  <2> QED
    BY <1>b, <2>1, <2>2, <2>3, <2>4, <2>5 DEF Settled
<1>22. ASSUME NEW a \in Actors, FinalizeInserts(a) PROVE Settled'
  <2>0. a = "worker"
    BY <1>b, <1>22 DEF FinalizeInserts, Actors
  <2>1. UNCHANGED <<row, file>> /\ pc["worker"] = "insert"
    BY <1>22, <2>0 DEF FinalizeInserts
  <2>2. Readable' = Readable
    BY <2>1, ReadableKept
  <2>3. /\ loc["worker"].digest = Readable /\ row.proved
        /\ \A d \in disk : d.id = loc["worker"].art => d.data = Readable
    BY <1>b, <2>1 DEF Finalizing
  <2>4. CASE UNCHANGED arts /\ Raise("worker")
    <3>1. pc'["worker"] \in {"failing", "dead"} /\ pc'["force"] = "idle"
      BY <1>0, <1>b, <2>4 DEF Raise, Go
    <3> QED
      BY <1>a, <2>1, <2>2, <2>4, <3>1, SettledLeft
  <2>5. CASE /\ \E d \in disk :
                  /\ d.id = loc["worker"].art
                  /\ arts' = arts \cup {[id |-> d.id, data |-> d.data, whole |-> TRUE]}
             /\ loc' = [loc EXCEPT !["worker"].existing = {loc["worker"].art}]
             /\ Go("worker", "index")
    <3>1. PICK d \in disk :
            /\ d.id = loc["worker"].art
            /\ arts' = arts \cup {[id |-> d.id, data |-> d.data, whole |-> TRUE]}
      BY <2>5
    <3> DEFINE new == [id |-> d.id, data |-> d.data, whole |-> TRUE]
    <3>2. arts' = arts \cup {new} /\ new.data = Readable
      BY <2>3, <3>1
    <3> HIDE DEF new
    <3>3. /\ pc'["worker"] = "index" /\ pc'["force"] = "idle"
          /\ loc'["worker"].digest = loc["worker"].digest
      BY <1>0, <1>b, <2>5 DEF Go, Locals
    <3> QED
      BY <1>b, <2>1, <2>2, <2>3, <3>2, <3>3 DEF Settled
  <2> QED
    BY <1>22, <2>0, <2>4, <2>5 DEF FinalizeInserts
<1>23. ASSUME NEW a \in Actors, FinalizeIndexes(a) PROVE Settled'
  <2>0. a = "worker"
    BY <1>b, <1>23 DEF FinalizeIndexes, Actors
  <2>1. UNCHANGED <<row, file, arts, disk>> /\ pc["worker"] \in {"index", "indexonly"}
    BY <1>23, <2>0 DEF FinalizeIndexes
  <2>2. Readable' = Readable
    BY <2>1, ReadableKept
  <2>3. \/ pc' = pc /\ loc'["worker"].digest = loc["worker"].digest
        \/ Raise("worker")
    <3> DEFINE rest == loc[a].existing \ {CHOOSE x \in loc[a].existing : TRUE}
    <3>1. \/ pc' = pc /\ loc' = [loc EXCEPT !["worker"].existing = rest]
          \/ Raise("worker")
      BY <1>23, <2>0 DEF FinalizeIndexes
    <3> HIDE DEF rest
    <3> QED
      BY <1>0, <3>1 DEF Locals
  <2>4. CASE pc' = pc /\ loc'["worker"].digest = loc["worker"].digest
    BY <1>b, <2>1, <2>2, <2>4 DEF Settled
  <2>5. CASE Raise("worker")
    <3>1. pc'["worker"] \in {"failing", "dead"} /\ pc'["force"] = "idle"
      BY <1>0, <1>b, <2>5 DEF Raise, Go
    <3> QED
      BY <1>a, <2>1, <2>2, <3>1, SettledLeft
  <2> QED
    BY <2>3, <2>4, <2>5
<1>24. ASSUME NEW a \in Actors, FinalizeCommits(a) PROVE Settled'
  <2>0. a = "worker"
    BY <1>b, <1>24 DEF FinalizeCommits, Actors
  <2>1. /\ UNCHANGED <<file, arts, disk, loc>> /\ pc["worker"] \in {"index", "indexonly"}
        /\ pc' = [pc EXCEPT !["worker"] = "terminal"]
        /\ row' = IF pc["worker"] = "indexonly" \/ row.sealed THEN row
                  ELSE [row EXCEPT !.sealed = TRUE, !.sha = loc["worker"].digest]
    BY <1>a, <1>24, <2>0 DEF FinalizeCommits, Go
  <2>2. pc'["worker"] = "terminal" /\ pc'["force"] = "idle" /\ row.proved
    BY <1>0, <1>b, <2>1 DEF Finalizing
  <2>3. loc["worker"].digest \in Seq(Byte)
    BY <1>0, <2>0 DEF Locals
  <2>4. CASE row' = row
    <3>1. Readable' = Readable
      BY <2>1, <2>4, ReadableKept
    <3> QED
      BY <1>b, <2>1, <2>2, <2>4, <3>1 DEF Settled
  <2>5. CASE /\ pc["worker"] = "index"
             /\ row' = [row EXCEPT !.sealed = TRUE, !.sha = loc["worker"].digest]
    <3>1. /\ row'.sha = loc["worker"].digest /\ row'.exists = row.exists /\ row'.size = row.size
          /\ row'.proved = row.proved
      BY <1>0, <2>3, <2>5, RowSealed
    <3>2. Readable' = Readable
      BY <2>1, <3>1, ReadableKept
    <3>3. row'.sha = Readable'
      BY <1>b, <2>5, <3>1, <3>2
    <3> QED
      BY <1>b, <2>1, <2>2, <3>1, <3>2, <3>3 DEF Settled
  <2> QED
    BY <2>1, <2>4, <2>5
<1>25. ASSUME NEW a \in Actors, Terminate(a) PROVE Settled'
  <2>0. a = "worker"
    BY <1>b, <1>25 DEF Terminate, Actors
  <2>1. UNCHANGED <<file, arts>> /\ pc["worker"] = "terminal"
    BY <1>25, <2>0 DEF Terminate
  <2>2. /\ row'.exists = row.exists /\ row'.size = row.size /\ row'.proved = row.proved
        /\ row'.sealed = row.sealed /\ row'.sha = row.sha
    BY <1>0, <1>25, RowEnded DEF Terminate
  <2>3. Readable' = Readable
    BY <2>1, <2>2, ReadableKept
  <2>4. pc'["worker"] \in {"done", "failing", "dead"} /\ pc'["force"] = "idle"
    BY <1>0, <1>b, <1>25, <2>0 DEF Terminate, Raise, Go
  <2> QED
    BY <1>a, <2>1, <2>2, <2>3, <2>4, SettledLeft
<1>26. CASE PageReads
  BY <1>26, SettledFrame DEF PageReads, store
<1>27. CASE PageRows
  BY <1>27, SettledFrame DEF PageRows, store
<1>28. CASE PageEnds
  BY <1>28, SettledFrame DEF PageEnds, store
<1>29. CASE PruneSelects
  BY <1>29, SettledFrame DEF PruneSelects, store
<1>30. CASE PruneDeletes
  BY <1>0, <1>30, RowDeleted DEF PruneDeletes
<1>31. CASE PruneUnlinks
  BY <1>a, <1>31 DEF PruneUnlinks, Life
<1>32. CASE PruneDies
  BY <1>32, SettledFrame DEF PruneDies, store
<1>33. CASE UNCHANGED vars
  BY <1>33, SettledFrame DEF vars, store
<1> QED
  BY <1>1, <1>2, <1>3, <1>4, <1>5, <1>6, <1>7, <1>8, <1>9, <1>10, <1>11, <1>12, <1>13, <1>14,
     <1>15, <1>16, <1>17, <1>18, <1>19, <1>20, <1>21, <1>22, <1>23, <1>24, <1>25, <1>26, <1>27,
     <1>28, <1>29, <1>30, <1>31, <1>32, <1>33 DEF Next

-----------------------------------------------------------------------------
(***************************************************************************)
(* The invariant holds, and with it what the runs check.                   *)
(***************************************************************************)
\* The initial state satisfies the inductive invariant.
LEMMA SpoolStarts ==
  ASSUME Init
  PROVE  SpoolProof
<1>0. /\ row = [exists |-> TRUE, size |-> 0, spooled |-> FALSE, sealed |-> FALSE,
                sha |-> <<>>, complete |-> TRUE, proved |-> FALSE, terminal |-> FALSE]
      /\ index = <<>> /\ file = <<>> /\ arts = {} /\ disk = {}
      /\ pc = [a \in Actors |-> "idle"] /\ loc = [a \in Actors |-> NoLoc]
      /\ writer = Idle /\ page = NoPage /\ prune = NoPrune /\ appends = 0
  BY DEF Init
<1>1. writer.stage = "none" /\ page.at = "idle" /\ prune.at = "idle"
  BY <1>0 DEF Idle, NoPage, NoPrune
<1>2. Typed
  <2>1. row \in Execution /\ index \in Seq(Rows) /\ file \in Seq(Byte)
    BY <1>0 DEF Execution
  <2>2. pc \in [Actors -> Places] /\ pc["worker"] = "idle"
    BY <1>0 DEF Places, Actors
  <2>3. TypeOK
    BY <1>0, <1>1, <2>1, <2>2 DEF TypeOK
  <2>4. writer \in Writers /\ page \in Pages /\ loc \in [Actors -> Locals]
    BY <1>0, ValuesTyped
  <2>5. prune \in Prunes /\ prune.files = {}
    BY <1>0 DEF NoPrune, Prunes
  <2>6. appends \in 0..MaxAppends
    BY <1>0, SpoolAssumption
  <2> QED
    BY <1>0, <2>3, <2>4, <2>5, <2>6, FS_EmptySet DEF Typed
<1>3. Life
  BY <1>0, <1>1 DEF Life
<1>4. Transaction
  <2>1. Len(file) = 0
    BY <1>0
  <2> QED
    BY <1>0, <1>1, <2>1 DEF Transaction, Free
<1>5. IndexBacked
  BY <1>0 DEF IndexBacked
<1>6. Hands
  BY <1>0 DEF Hands, InHand, Actors
<1>7. Settled
  BY <1>0 DEF Settled, Finalizing, Actors
<1>8. Paged
  BY <1>1 DEF Paged
<1> QED
  BY <1>2, <1>3, <1>4, <1>5, <1>6, <1>7, <1>8 DEF SpoolProof

\* Every behaviour keeps the inductive invariant.
LEMMA SpoolHolds == Spec => []SpoolProof
<1>1. SpoolProof /\ [Next]_vars => SpoolProof'
  <2> SUFFICES ASSUME SpoolProof, [Next]_vars PROVE SpoolProof'
    OBVIOUS
  <2>0. Typed /\ Life /\ Transaction /\ IndexBacked /\ Hands /\ Settled /\ Paged
    BY DEF SpoolProof
  <2>1. Typed'
    BY <2>0, TypedKept
  <2>2. Life'
    BY <2>0, LifeKept
  <2>3. Transaction'
    BY <2>0, TransactionKept
  <2>4. IndexBacked'
    BY <2>0, <2>1, IndexBackedKept
  <2>5. Hands'
    BY <2>0, HandsKept
  <2>6. Settled'
    BY <2>0, SettledKept
  <2>7. Paged'
    BY <2>0, PagedKept
  <2> QED
    BY <2>1, <2>2, <2>3, <2>4, <2>5, <2>6, <2>7 DEF SpoolProof
<1> QED
  BY <1>1, SpoolStarts, PTL DEF Spec

\* SpoolInv: through crashes, failed appends, concurrent finalizers and
\* prunes, every committed range can be read on character boundaries and
\* every artifact that is referenced has its row and its file.
THEOREM SpoolStaysReadable == Spec => []SpoolInv
<1>1. SpoolProof => SpoolInv
  BY DEF SpoolProof, Typed, SpoolInv
<1> QED
  BY <1>1, SpoolHolds, PTL

\* CompleteDigest: finalized output that claims to be complete has the
\* digest of its whole text, and its whole-text artifact is that text.
THEOREM DigestsComplete == Spec => []CompleteDigest
<1>1. SpoolProof => CompleteDigest
  BY DEF SpoolProof, Settled, CompleteDigest
<1> QED
  BY <1>1, SpoolHolds, PTL

\* PagesFaithful: a reader that follows next_cursor gets every index row
\* once, in order, while output is appended and finalized.
THEOREM PagesFollowIndex == Spec => []PagesFaithful
<1>1. SpoolProof => PagesFaithful
  BY DEF SpoolProof, Paged, PagesFaithful
<1> QED
  BY <1>1, SpoolHolds, PTL

-----------------------------------------------------------------------------
(***************************************************************************)
(* The spool implements an append-only log.                                *)
(***************************************************************************)
\* The committed text stays while its bytes stay.
LEMMA TextStays ==
  ASSUME Typed, row'.exists = row.exists, row'.size = row.size,
         row.exists => /\ row.size <= Len(file) /\ row.size <= Len(file')
                       /\ \A i \in 1..row.size : file'[i] = file[i]
  PROVE  Readable' = Readable
<1>1. row.size \in Nat
  BY DEF Typed, TypeOK, Execution
<1>2. CASE ~row.exists
  BY <1>2 DEF Readable
<1>3. CASE row.exists
  <2>1. Readable = [i \in 1..row.size |-> file[i]]
    BY <1>1, <1>3 DEF Readable
  <2>2. Readable' = [i \in 1..row.size |-> file'[i]]
    BY <1>1, <1>3 DEF Readable
  <2> QED
    BY <1>3, <2>1, <2>2
<1> QED
  BY <1>2, <1>3

\* A step that keeps the text, the seal and the row is a stutter of the log.
LEMMA LogStutters ==
  ASSUME Readable' = Readable, row'.sealed = row.sealed, row'.exists = row.exists
  PROVE  [Log!LogNext]_(Log!logVars)
  BY DEF Log!logVars

\* So is one that keeps the row and the file.
LEMMA LogFrame ==
  ASSUME UNCHANGED <<row, file>>
  PROVE  [Log!LogNext]_(Log!logVars)
  BY ReadableKept, LogStutters

\* A commit extends the text with the bytes that were written.
LEMMA CommitExtends ==
  ASSUME Typed, Transaction, CommitAppend
  PROVE  Log!Extend
<1>0. /\ row \in Execution /\ row.size \in Nat /\ Len(file) \in Nat /\ Len(writer.data) \in Nat
      /\ writer.off = row.size /\ row.exists /\ ~row.sealed /\ row.size <= Len(file)
  BY DEF Typed, TypeOK, Execution, Writers, Transaction, CommitAppend, Free
<1> DEFINE size == row.size + Len(writer.data)
<1>1. row'.exists /\ row'.size = size /\ row'.sealed = row.sealed /\ file' = file
  <2>1. size \in Nat
    BY <1>0
  <2>2. row' = [row EXCEPT !.spooled = TRUE, !.size = size] /\ file' = file
    BY <1>0 DEF CommitAppend
  <2> HIDE DEF size
  <2> QED
    BY <1>0, <2>1, <2>2, RowGrown
<1>2. Readable = [i \in 1..row.size |-> file[i]]
  BY <1>0 DEF Readable
<1>3. Readable' = [i \in 1..size |-> IF i <= Len(file) THEN file[i] ELSE <<0, 0, 0>>]
  BY <1>1 DEF Readable
<1>4. size \in Nat /\ size >= row.size
  BY <1>0
<1> HIDE DEF size
<1>5. Len(Readable) = row.size /\ Len(Readable') = size
  BY <1>0, <1>2, <1>3, <1>4
<1>6. \A i \in 1..row.size : Readable'[i] = Readable[i]
  BY <1>0, <1>2, <1>3, <1>4
<1> QED
  BY <1>0, <1>1, <1>4, <1>5, <1>6 DEF Log!Extend

\* Every step of the spool is a step of the log, or leaves the log alone.
LEMMA StepsFollowLog ==
  ASSUME Typed, Life, Transaction, [Next]_vars
  PROVE  [Log!LogNext]_(Log!logVars)
<1>0. /\ row \in Execution /\ file \in Seq(Byte) /\ row.size \in Nat /\ Len(file) \in Nat
      /\ row.exists => row.size <= Len(file)
  BY DEF Typed, TypeOK, Execution, Transaction
<1>t. \A n \in Nat : n = row.size /\ row.exists =>
        /\ row.size <= Len(Truncate(file, n))
        /\ \A i \in 1..row.size : Truncate(file, n)[i] = file[i]
  <2> SUFFICES ASSUME row.exists
               PROVE  /\ row.size <= Len(Truncate(file, row.size))
                      /\ \A i \in 1..row.size : Truncate(file, row.size)[i] = file[i]
    OBVIOUS
  <2> QED
    BY <1>0, TruncateKeeps
<1>1. CASE BeginAppend
  BY <1>1, LogFrame DEF BeginAppend, store
<1>2. CASE OpenSpool
  <2>1. writer.off = row.size /\ file' = Truncate(file, row.size) /\ UNCHANGED row
    BY <1>2 DEF OpenSpool, Transaction, store
  <2>2. Readable' = Readable
    BY <1>0, <1>t, <2>1, TextStays
  <2> QED
    BY <2>1, <2>2, LogStutters
<1>3. CASE WriteBytes
  <2>1. PICK n \in {1, Len(writer.left)} :
               file' = file \o SubSeq(writer.left, 1, n)
    BY <1>3 DEF WriteBytes
  <2>2. SubSeq(writer.left, 1, n) \in Seq(Byte)
    <3>1. writer.left \in Seq(Byte) /\ writer.left # <<>> /\ Len(writer.left) \in Nat
      BY <1>3 DEF WriteBytes, Typed, Writers
    <3>2. n \in Nat /\ n <= Len(writer.left)
      BY <3>1
    <3> QED
      BY <3>1, <3>2, Slice
  <2>3. Len(file) <= Len(file') /\ \A i \in 1..Len(file) : file'[i] = file[i]
    BY <1>0, <2>1, <2>2
  <2>4. UNCHANGED row
    BY <1>3 DEF WriteBytes, store
  <2>5. row.exists => /\ row.size <= Len(file) /\ row.size <= Len(file')
                      /\ \A i \in 1..row.size : file'[i] = file[i]
    <3>1. Len(file') \in Nat
      BY <1>0, <2>1, <2>2
    <3> QED
      BY <1>0, <2>3, <3>1
  <2>6. Readable' = Readable
    BY <2>4, <2>5, TextStays
  <2> QED
    BY <2>4, <2>6, LogStutters
<1>4. CASE IndexChunk
  BY <1>4, LogFrame DEF IndexChunk, store
<1>5. CASE CommitAppend
  BY <1>5, CommitExtends DEF Log!LogNext
<1>6. CASE AppendFails
  BY <1>6, LogFrame DEF AppendFails, store
<1>7. CASE UndoAppend
  <2>1. UNCHANGED row
    BY <1>7 DEF UndoAppend, store
  <2>2. CASE UNCHANGED file
    BY <2>1, <2>2, LogFrame
  <2>3. CASE file' = Truncate(file, writer.off)
    <3>1. writer.off = row.size
      BY <1>7 DEF UndoAppend, Transaction
    <3>2. Readable' = Readable
      BY <1>0, <1>t, <2>1, <2>3, <3>1, TextStays
    <3> QED
      BY <2>1, <3>2, LogStutters
  <2> QED
    BY <1>7, <2>2, <2>3 DEF UndoAppend
<1>8. CASE WriteRich
  BY <1>8, LogFrame DEF WriteRich, store
<1>9. CASE InsertRich
  BY <1>9, LogFrame DEF InsertRich
<1>10. CASE IndexRich
  BY <1>10, LogFrame DEF IndexRich
<1>11. CASE IndexEvent
  BY <1>11, LogFrame DEF IndexEvent
<1>m. ASSUME row'.exists = row.exists, row'.size = row.size, row'.sealed = row.sealed,
             UNCHANGED file
      PROVE  [Log!LogNext]_(Log!logVars)
  BY <1>m, ReadableKept, LogStutters
<1>12. CASE Settle
  BY <1>0, <1>12, <1>m, RowProved DEF Settle
<1>13. CASE Fail
  BY <1>0, <1>13, <1>m, RowMarked DEF Fail
<1>14. CASE ForcedStop
  BY <1>0, <1>14, <1>m, RowMarked DEF ForcedStop
<1>15. CASE WorkerYields
  BY <1>15, LogFrame DEF WorkerYields, store
<1>16. CASE Crash
  BY <1>16, LogFrame DEF Crash, store
<1>17. CASE Restart
  BY <1>0, <1>17, <1>m, RowMarked DEF Restart
<1>18. ASSUME NEW a \in Actors, FinalizeReads(a)
       PROVE  [Log!LogNext]_(Log!logVars)
  BY <1>18, LogFrame DEF FinalizeReads, store
<1>19. ASSUME NEW a \in Actors, FinalizeHashes(a)
       PROVE  [Log!LogNext]_(Log!logVars)
  BY <1>19, LogFrame DEF FinalizeHashes, store
<1>20. ASSUME NEW a \in Actors, FinalizeStats(a)
       PROVE  [Log!LogNext]_(Log!logVars)
  BY <1>20, LogFrame DEF FinalizeStats, store
<1>21. ASSUME NEW a \in Actors, FinalizeCopies(a)
       PROVE  [Log!LogNext]_(Log!logVars)
  BY <1>21, LogFrame DEF FinalizeCopies, store
<1>22. ASSUME NEW a \in Actors, FinalizeInserts(a)
       PROVE  [Log!LogNext]_(Log!logVars)
  BY <1>22, LogFrame DEF FinalizeInserts
<1>23. ASSUME NEW a \in Actors, FinalizeIndexes(a)
       PROVE  [Log!LogNext]_(Log!logVars)
  BY <1>23, LogFrame DEF FinalizeIndexes
<1>24. ASSUME NEW a \in Actors, FinalizeCommits(a)
       PROVE  [Log!LogNext]_(Log!logVars)
  <2>1. CASE UNCHANGED row
    BY <1>24, <2>1, LogFrame DEF FinalizeCommits
  <2>2. CASE row.exists /\ ~row.sealed /\ row' = [row EXCEPT !.sealed = TRUE, !.sha = loc[a].digest]
    <3>1. loc[a].digest \in Seq(Byte)
      BY DEF Typed, Locals
    <3>2. row'.sealed /\ row'.exists = row.exists /\ row'.size = row.size /\ UNCHANGED file
      BY <1>0, <1>24, <2>2, <3>1, RowSealed DEF FinalizeCommits
    <3>3. Readable' = Readable
      BY <3>2, ReadableKept
    <3>4. row'.sealed = TRUE
      BY <1>0, <2>2 DEF Execution
    <3> QED
      BY <2>2, <3>2, <3>3, <3>4 DEF Log!LogNext, Log!Seal
  <2> QED
    BY <1>24, <2>1, <2>2 DEF FinalizeCommits
<1>25. ASSUME NEW a \in Actors, Terminate(a)
       PROVE  [Log!LogNext]_(Log!logVars)
  BY <1>0, <1>25, <1>m, RowEnded DEF Terminate
<1>26. CASE PageReads
  BY <1>26, LogFrame DEF PageReads, store
<1>27. CASE PageRows
  BY <1>27, LogFrame DEF PageRows, store
<1>28. CASE PageEnds
  BY <1>28, LogFrame DEF PageEnds, store
<1>29. CASE PruneSelects
  BY <1>29, LogFrame DEF PruneSelects, store
<1>30. CASE PruneDeletes
  <2>1. row.exists /\ row.sealed
    BY <1>30 DEF PruneDeletes, Life
  <2>2. ~row'.exists /\ row'.sealed = row.sealed
    BY <1>0, <1>30, RowDeleted DEF PruneDeletes
  <2>3. Readable' = <<>>
    BY <2>2 DEF Readable
  <2> QED
    BY <2>1, <2>2, <2>3 DEF Log!LogNext, Log!Drop
<1>31. CASE PruneUnlinks
  <2>1. ~row.exists /\ UNCHANGED row
    BY <1>31 DEF PruneUnlinks, Life, store
  <2>2. Readable' = Readable
    BY <2>1 DEF Readable
  <2> QED
    BY <2>1, <2>2, LogStutters
<1>32. CASE PruneDies
  BY <1>32, LogFrame DEF PruneDies, store
<1>33. CASE UNCHANGED vars
  BY <1>33, LogFrame DEF vars
<1> QED
  BY <1>1, <1>2, <1>3, <1>4, <1>5, <1>6, <1>7, <1>8, <1>9, <1>10, <1>11, <1>12, <1>13, <1>14,
     <1>15, <1>16, <1>17, <1>18, <1>19, <1>20, <1>21, <1>22, <1>23, <1>24, <1>25, <1>26, <1>27,
     <1>28, <1>29, <1>30, <1>31, <1>32, <1>33 DEF Next

\* ImplementsLog: the file, the index and the row are together a text that
\* only grows, that finalization freezes, and that a prune removes as a
\* whole, and only after it was frozen.
THEOREM SpoolIsLog == Spec => ImplementsLog
<1>1. Init => Log!LogInit
  <2> SUFFICES ASSUME Init PROVE Log!LogInit
    OBVIOUS
  <2>1. row.exists = TRUE /\ row.size = 0 /\ row.sealed = FALSE
    BY DEF Init
  <2>2. Readable = <<>>
    BY <2>1 DEF Readable
  <2> QED
    BY <2>1, <2>2 DEF Log!LogInit
<1>2. SpoolProof /\ [Next]_vars => [Log!LogNext]_(Log!logVars)
  BY StepsFollowLog DEF SpoolProof
<1> QED
  BY <1>1, <1>2, SpoolHolds, PTL DEF Spec, ImplementsLog, Log!LogSpec
===============================================================================
