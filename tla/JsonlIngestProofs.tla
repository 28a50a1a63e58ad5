-------------------------- MODULE JsonlIngestProofs --------------------------
(***************************************************************************)
(* Proofs about JsonlIngest, for every set of files, sessions and lines,   *)
(* and every bound; the last part proves that its tables are a journal of  *)
(* genuine generations and implement Journal.                              *)
(***************************************************************************)
EXTENDS JsonlIngest, FiniteSetTheorems, TLAPS

USE DEF Null

------------------------------------------------------------------------------
(* Contents and sequences. *)

\* Reading a content up to a size gives a content.
LEMMA ReadBoundedType ==
    ASSUME NEW c \in Content, NEW size \in Nat
    PROVE  ReadBounded(c, size) \in Content
<1>1. CASE size >= Size(c)
  BY <1>1 DEF ReadBounded
<1>2. CASE ~(size >= Size(c))
  <2>1. /\ c.lines \in Seq(Line) /\ Len(c.lines) \in Nat
        /\ c.tail \in Line \cup {NoLine}
    BY DEF Content
  <2>2. size <= 2 * Len(c.lines)
    <3>1. CASE c.tail = NoLine
      BY <1>2, <2>1, <3>1 DEF Size
    <3>2. CASE c.tail # NoLine
      BY <1>2, <2>1, <3>2 DEF Size
    <3> QED
      BY <3>1, <3>2
  <2>3. size \div 2 \in 0 .. Len(c.lines)
    BY <2>1, <2>2
  <2>4. SubSeq(c.lines, 1, size \div 2) \in Seq(Line)
    BY <2>1, <2>3
  <2>5. size % 2 = 1 => size \div 2 + 1 \in 1 .. Len(c.lines)
    BY <2>1, <2>2
  <2>6. size % 2 = 1 => c.lines[size \div 2 + 1] \in Line
    BY <2>1, <2>5
  <2> QED
    BY <1>2, <2>4, <2>6 DEF ReadBounded, Content
<1> QED
  BY <1>1, <1>2

\* A size is a natural number.
LEMMA SizeType ==
    ASSUME NEW c \in Content
    PROVE  Size(c) \in Nat
  BY DEF Size, Content

\* The tail is at most half a line.
LEMMA SizeBounds ==
    ASSUME NEW c \in Content
    PROVE  /\ Size(c) \in Nat /\ Len(c.lines) \in Nat
           /\ 2 * Len(c.lines) <= Size(c) /\ Size(c) <= 2 * Len(c.lines) + 1
<1>1. Len(c.lines) \in Nat
  BY DEF Content
<1>2. CASE c.tail = NoLine
  BY <1>1, <1>2 DEF Size
<1>3. CASE c.tail # NoLine
  BY <1>1, <1>3 DEF Size
<1> QED
  BY <1>2, <1>3

\* A generation with the rows 0 .. n-1 has n rows.
LEMMA GenerationCardinality ==
    ASSUME NEW g \in Nat, NEW n \in Nat
    PROVE  Cardinality({g} \X (0 .. n - 1)) = n
<1> DEFINE f == [q \in 0 .. n - 1 |-> <<g, q>>]
<1>1. f \in [0 .. n - 1 -> {g} \X (0 .. n - 1)]
  OBVIOUS
<1>2. IsInjective(f)
  BY DEF IsInjective
<1>3. \A k \in {g} \X (0 .. n - 1) : k[2] \in 0 .. n - 1 /\ f[k[2]] = k
  OBVIOUS
<1>4. f \in Bijection(0 .. n - 1, {g} \X (0 .. n - 1))
  <2> HIDE DEF f
  <2> QED
    BY <1>1, <1>2, <1>3 DEF Bijection, Injection, Surjection
<1>5. IsFiniteSet(0 .. n - 1) /\ Cardinality(0 .. n - 1) = n
  BY FS_Interval
<1> QED
  <2> HIDE DEF f
  <2> QED
    BY <1>4, <1>5, FS_Bijection DEF ExistsBijection

------------------------------------------------------------------------------
(* The event table. *)

EventTable(rows) ==
    /\ DOMAIN rows \subseteq EventKey
    /\ rows \in [DOMAIN rows -> Line]

\* Inserting the lines start+1 .. n into a generation that holds the lines
\* before them makes it hold n lines, and leaves every other row alone.
LEMMA InsertLines ==
    ASSUME NEW rows, EventTable(rows),
           NEW lines \in Seq(Line), NEW g \in Nat,
           NEW start \in 0 .. Len(lines), NEW n \in start .. Len(lines),
           Holds(rows, g, lines, start)
    PROVE  LET all == InsertOrIgnore(rows, NewRows(g, lines, start, n)) IN
           /\ EventTable(all)
           /\ Holds(all, g, lines, n)
           /\ \A k \in DOMAIN rows : k \in DOMAIN all /\ all[k] = rows[k]
           /\ \A k \in DOMAIN all \ DOMAIN rows : k[1] = g
<1> DEFINE new == NewRows(g, lines, start, n)
           all == InsertOrIgnore(rows, new)
<1>0. /\ Len(lines) \in Nat /\ start \in Nat /\ n \in Nat
      /\ start <= n /\ n <= Len(lines)
  OBVIOUS
<1>1. DOMAIN new = {g} \X (start .. n - 1)
  BY DEF NewRows
<1>2. \A q \in start .. n - 1 : new[<<g, q>>] = lines[q + 1] /\ lines[q + 1] \in Line
  <2> SUFFICES ASSUME NEW q \in start .. n - 1
               PROVE  new[<<g, q>>] = lines[q + 1] /\ lines[q + 1] \in Line
    OBVIOUS
  <2>1. q + 1 \in 1 .. Len(lines)
    BY <1>0
  <2>2. <<g, q>> \in {g} \X (start .. n - 1)
    OBVIOUS
  <2> QED
    BY <2>1, <2>2 DEF NewRows
<1>3. /\ DOMAIN all = DOMAIN rows \cup DOMAIN new
      /\ \A k \in DOMAIN rows : all[k] = rows[k]
      /\ \A k \in DOMAIN new \ DOMAIN rows : all[k] = new[k]
      /\ all = [k \in DOMAIN all |-> all[k]]
  BY DEF InsertOrIgnore
<1> HIDE DEF new, all
<1>4. \A k \in DOMAIN new : k = <<g, k[2]>> /\ k[2] \in start .. n - 1 /\ k \in EventKey
  BY <1>0, <1>1 DEF EventKey
<1>5. EventTable(all)
  <2>1. DOMAIN all \subseteq EventKey
    BY <1>3, <1>4 DEF EventTable
  <2>2. \A k \in DOMAIN all : all[k] \in Line
    BY <1>2, <1>3, <1>4 DEF EventTable
  <2> QED
    BY <1>3, <2>1, <2>2 DEF EventTable
<1>6. GenerationKeys(all, g) = GenerationKeys(rows, g) \cup DOMAIN new
  BY <1>3, <1>4 DEF GenerationKeys
<1>7. GenerationKeys(all, g) = {g} \X (0 .. n - 1)
  <2>1. 0 .. n - 1 = (0 .. start - 1) \cup (start .. n - 1)
    BY <1>0
  <2> QED
    BY <1>1, <1>6, <2>1 DEF Holds
<1>8. ASSUME NEW q \in 0 .. n - 1
      PROVE  all[<<g, q>>] = lines[q + 1]
  <2>1. CASE q < start
    <3>1. q \in 0 .. start - 1
      BY <1>0, <2>1
    <3>2. <<g, q>> \in DOMAIN rows
      BY <3>1 DEF Holds, GenerationKeys
    <3> QED
      BY <1>3, <3>1, <3>2 DEF Holds
  <2>2. CASE ~(q < start)
    <3>1. q \in start .. n - 1
      BY <1>0, <2>2
    <3>2. <<g, q>> \in DOMAIN new
      BY <1>1, <3>1
    <3>3. <<g, q>> \notin DOMAIN rows
      <4> SUFFICES ASSUME <<g, q>> \in DOMAIN rows PROVE FALSE
        OBVIOUS
      <4>1. <<g, q>> \in {g} \X (0 .. start - 1)
        BY DEF Holds, GenerationKeys
      <4> QED
        BY <1>0, <2>2, <4>1
    <3> QED
      BY <1>2, <1>3, <3>1, <3>2, <3>3
  <2> QED
    BY <2>1, <2>2
<1>9. \A k \in DOMAIN all \ DOMAIN rows : k[1] = g
  BY <1>3, <1>4
<1> QED
  BY <1>3, <1>5, <1>7, <1>8, <1>9 DEF Holds, all, new

------------------------------------------------------------------------------
(* The inductive invariant. *)

\* A row nobody inserted is unset, and a row without a file_size was never
\* imported.
FreshRows ==
    \A s \in Sessions :
        /\ ~sess[s].known => sess[s] = Unset
        /\ sess[s].size = Null => sess[s].nro = 0

IInv == TypeOK /\ PreservedPrefix /\ FreshRows

\* The row an ingest transaction works on.
LEMMA RowForOK ==
    ASSUME IInv, NEW p \in Paths
    PROVE  /\ IdOf[p] \in Sessions
           /\ RowFor(p) \in Row
           /\ RowFor(p).known
           /\ RowPreserved(RowFor(p), events[IdOf[p]])
           /\ RowFor(p).size = Null => RowFor(p).nro = 0
           /\ RowFor(p).gen = sess[IdOf[p]].gen
           /\ RowFor(p).nro = sess[IdOf[p]].nro
           /\ RowFor(p).prefix = sess[IdOf[p]].prefix
<1>1. IdOf[p] \in Sessions
  BY SessionAssumption
<1>2. CASE sess[IdOf[p]].known
  BY <1>1, <1>2 DEF RowFor, IInv, TypeOK, PreservedPrefix, FreshRows
<1>3. CASE ~sess[IdOf[p]].known
  <2>1. sess[IdOf[p]] = Unset
    BY <1>1, <1>3 DEF IInv, FreshRows
  <2>2. RowFor(p) = [Unset EXCEPT !.known = TRUE, !.path = p]
    BY <1>3 DEF RowFor
  <2>3. RowPreserved(Unset, events[IdOf[p]])
    BY <1>1, <2>1 DEF IInv, PreservedPrefix
  <2>4. /\ RowFor(p).gen = Unset.gen /\ RowFor(p).nro = Unset.nro
        /\ RowFor(p).prefix = Unset.prefix /\ RowFor(p).count = Unset.count
        /\ RowFor(p).size = Unset.size /\ RowFor(p).known
    BY <2>2 DEF Unset
  <2>5. RowPreserved(RowFor(p), events[IdOf[p]])
    BY <2>3, <2>4 DEF RowPreserved
  <2>6. Unset.nro = 0
    BY DEF Unset
  <2>7. RowFor(p) \in Row
    <3>1. Empty \in Content /\ <<>> \in Seq(Line)
      BY DEF Empty, Content
    <3>2. RowFor(p) = [known |-> TRUE, path |-> p, parent |-> NoSession, gen |-> 0,
                       size |-> Null, mtime |-> Null, fingerprint |-> Empty,
                       prefix |-> <<>>, nro |-> 0, count |-> 0]
      BY <2>2 DEF Unset
    <3> QED
      BY <3>1, <3>2 DEF Row
  <2> QED
    BY <1>1, <2>1, <2>4, <2>5, <2>6, <2>7
<1> QED
  BY <1>2, <1>3

\* A step that changes neither tables nor the ingest process preserves the
\* invariant when it keeps the types of what it changes.
LEMMA TablesUnchanged ==
    ASSUME IInv, UNCHANGED db, TypeOK'
    PROVE  IInv'
  BY DEF IInv, db, PreservedPrefix, RowPreserved, Holds, GenerationKeys, FreshRows

LEMMA WriteStep ==
    ASSUME IInv, NEW p \in Paths, NEW c \in Content, Write(p, c)
    PROVE  IInv'
<1>1. \A t \in Int : [present |-> TRUE, content |-> c, mtime |-> t] \in
                     [present : BOOLEAN, content : Content, mtime : Int]
  OBVIOUS
<1>2. file[p].mtime \in Int
  BY DEF IInv, TypeOK
<1> DEFINE Times == {file[p].mtime + 1} \cup (IF CoarseClock THEN {file[p].mtime} ELSE {})
<1>3. PICK t \in Int :
         file' = [file EXCEPT ![p] = [present |-> TRUE, content |-> c, mtime |-> t]]
  <2>1. Times \subseteq Int
    BY <1>2
  <2>2. \E t \in Times :
           file' = [file EXCEPT ![p] = [present |-> TRUE, content |-> c, mtime |-> t]]
    BY DEF Write
  <2> QED
    BY <2>1, <2>2
<1>4. file' \in [Paths -> [present : BOOLEAN, content : Content, mtime : Int]]
  BY <1>1, <1>3 DEF IInv, TypeOK
<1>5. ver' \in [Paths -> Nat]
  BY DEF Write, IInv, TypeOK
<1>6. had' \in [Sessions -> SUBSET Seq(Line)]
  BY SessionAssumption DEF Write, IInv, TypeOK, Content
<1>7. TypeOK'
  BY <1>4, <1>5, <1>6 DEF Write, IInv, TypeOK, db, proc
<1> QED
  BY <1>7, TablesUnchanged DEF Write

LEMMA WriterStep ==
    ASSUME IInv, Writer
    PROVE  IInv'
<1> PICK p \in Paths :
       \/ Create(p) \/ AppendLine(p) \/ StartLine(p) \/ FinishLine(p)
       \/ Rewrite(p) \/ Vanish(p)
  BY DEF Writer
<1>0. file[p].content \in Content
  BY DEF IInv, TypeOK
<1>1. CASE Create(p)
  <2>1. Empty \in Content
    BY DEF Empty, Content
  <2> QED
    BY <1>1, <2>1, WriteStep DEF Create
<1>2. CASE AppendLine(p)
  <2>1. PICK l \in Line : Write(p, [file[p].content EXCEPT !.lines = Append(@, l)])
    BY <1>2 DEF AppendLine
  <2>2. [file[p].content EXCEPT !.lines = Append(@, l)] \in Content
    BY <1>0 DEF Content
  <2> QED
    BY <2>1, <2>2, WriteStep
<1>3. CASE StartLine(p)
  <2>1. PICK l \in Line : Write(p, [file[p].content EXCEPT !.tail = l])
    BY <1>3 DEF StartLine
  <2>2. [file[p].content EXCEPT !.tail = l] \in Content
    BY <1>0 DEF Content
  <2> QED
    BY <2>1, <2>2, WriteStep
<1>4. CASE FinishLine(p)
  <2> DEFINE c == file[p].content
  <2>1. [lines |-> Append(c.lines, c.tail), tail |-> NoLine] \in Content
    <3>1. c.tail \in Line /\ c.lines \in Seq(Line)
      BY <1>0, <1>4 DEF FinishLine, Content
    <3>2. Append(c.lines, c.tail) \in Seq(Line)
      BY <3>1
    <3> QED
      BY <3>2 DEF Content
  <2> QED
    BY <1>4, <2>1, WriteStep DEF FinishLine
<1>5. CASE Rewrite(p)
  <2>1. PICK n \in 0 .. MaxLines : \E ls \in [1 .. n -> Line] :
           Write(p, [lines |-> ls, tail |-> NoLine])
    BY <1>5 DEF Rewrite
  <2>2. PICK ls \in [1 .. n -> Line] : Write(p, [lines |-> ls, tail |-> NoLine])
    BY <2>1
  <2>3. n \in Nat
    BY BoundAssumption
  <2>4. ls \in Seq(Line)
    BY <2>3
  <2>5. [lines |-> ls, tail |-> NoLine] \in Content
    BY <2>4 DEF Content
  <2> QED
    BY <2>2, <2>5, WriteStep
<1>6. CASE Vanish(p)
  <2>1. file' \in [Paths -> [present : BOOLEAN, content : Content, mtime : Int]]
    BY <1>6 DEF Vanish, IInv, TypeOK
  <2>2. ver' \in [Paths -> Nat]
    BY <1>6 DEF Vanish, IInv, TypeOK
  <2>3. TypeOK'
    BY <1>6, <2>1, <2>2 DEF Vanish, IInv, TypeOK, db, proc
  <2> QED
    BY <1>6, <2>3, TablesUnchanged DEF Vanish
<1> QED
  BY <1>1, <1>2, <1>3, <1>4, <1>5, <1>6

\* Replacing the row and the events of one session by others that agree.
LEMMA RowReplaced ==
    ASSUME IInv, NEW s \in Sessions, NEW r \in Row, NEW rows, EventTable(rows),
           RowPreserved(r, rows), r.known, r.size = Null => r.nro = 0,
           sess' = [sess EXCEPT ![s] = r],
           events' = [events EXCEPT ![s] = rows]
    PROVE  /\ sess' \in [Sessions -> Row]
           /\ events' = [t \in Sessions |-> events'[t]]
           /\ \A t \in Sessions : EventTable(events'[t])
           /\ PreservedPrefix'
           /\ FreshRows'
<1>1. sess \in [Sessions -> Row] /\ events = [t \in Sessions |-> events[t]]
  BY DEF IInv, TypeOK
<1>2. \A t \in Sessions : sess'[t] = IF t = s THEN r ELSE sess[t]
  BY <1>1
<1>3. \A t \in Sessions : events'[t] = IF t = s THEN rows ELSE events[t]
  BY <1>1
<1>4. \A t \in Sessions : EventTable(events[t]) /\ RowPreserved(sess[t], events[t])
  BY DEF IInv, TypeOK, EventTable, PreservedPrefix
<1>5. events' = [t \in Sessions |-> events'[t]]
  BY <1>1
<1>6. ASSUME NEW t \in Sessions
      PROVE  RowPreserved(sess'[t], events'[t]) /\ EventTable(events'[t])
  <2>1. CASE t = s
    BY <1>2, <1>3, <2>1
  <2>2. CASE t # s
    BY <1>2, <1>3, <1>4, <2>2
  <2> QED
    BY <2>1, <2>2
<1>7. PreservedPrefix'
  BY <1>6 DEF PreservedPrefix, RowPreserved, Holds, GenerationKeys
<1>8. FreshRows'
  BY <1>2 DEF IInv, FreshRows
<1> QED
  BY <1>1, <1>5, <1>6, <1>7, <1>8

LEMMA PassDoneTypes ==
    ASSUME IInv, NEW p \in Paths, PassDone(p),
           sess' \in [Sessions -> Row],
           events' = [t \in Sessions |-> events'[t]],
           \A t \in Sessions : EventTable(events'[t]),
           unresolved' \subseteq ErrorRow, retry' \subseteq Paths
    PROVE  TypeOK'
<1>1. Empty \in Content
  BY DEF Empty, Content
<1> QED
  BY <1>1 DEF PassDone, IInv, TypeOK, EventTable

LEMMA ParentType ==
    ASSUME NEW p \in Paths
    PROVE  ResolvedParent(p) \in Sessions \cup {NoSession}
  BY SessionAssumption DEF ResolvedParent

\* The passes that leave the events alone.
LEMMA EventsUntouched ==
    ASSUME IInv, NEW p \in Paths, PassDone(p), UNCHANGED events,
           NEW r \in Row, r.known, r.size = Null => r.nro = 0,
           RowPreserved(r, events[IdOf[p]]),
           sess' = [sess EXCEPT ![IdOf[p]] = r],
           unresolved' \subseteq ErrorRow, retry' \subseteq Paths
    PROVE  IInv'
<1>1. IdOf[p] \in Sessions
  BY SessionAssumption
<1>2. EventTable(events[IdOf[p]])
  BY <1>1 DEF IInv, TypeOK, EventTable
<1>3. events' = [events EXCEPT ![IdOf[p]] = events[IdOf[p]]]
  BY <1>1 DEF IInv, TypeOK
<1>4. /\ sess' \in [Sessions -> Row]
      /\ events' = [t \in Sessions |-> events'[t]]
      /\ \A t \in Sessions : EventTable(events'[t])
      /\ PreservedPrefix' /\ FreshRows'
  BY <1>1, <1>2, <1>3, RowReplaced
<1> QED
  BY <1>4, PassDoneTypes DEF IInv

\* A skip keeps what the row says about the events.
KeepsEvents(r, row) ==
    /\ r \in Row /\ r.known = row.known /\ r.nro = row.nro
    /\ r.gen = row.gen /\ r.prefix = row.prefix /\ r.count = row.count

LEMMA LinkedRowOK ==
    ASSUME NEW row \in Row, NEW p \in Paths
    PROVE  KeepsEvents(LinkedRow(row, p), row) /\ LinkedRow(row, p).size = row.size
  BY ParentType DEF LinkedRow, KeepsEvents, Row

LEMMA CheckedRowOK ==
    ASSUME IInv, NEW row \in Row, NEW p \in Paths
    PROVE  KeepsEvents(CheckedRow(row, p), row) /\ CheckedRow(row, p).size = pass.size
<1>1. pass.size \in Nat /\ pass.mtime \in Int /\ buf \in Content
  BY DEF IInv, TypeOK
<1> DEFINE r1 == LinkedRow(row, p)
           r2 == [r1 EXCEPT !.size = pass.size]
           r3 == [r2 EXCEPT !.mtime = pass.mtime]
           r4 == [r3 EXCEPT !.fingerprint = buf]
<1>2. KeepsEvents(r1, row)
  BY LinkedRowOK
<1> HIDE DEF r1
<1>3. KeepsEvents(r2, row) /\ r2.size = pass.size
  BY <1>1, <1>2 DEF KeepsEvents, Row
<1> HIDE DEF r2
<1>4. KeepsEvents(r3, row) /\ r3.size = pass.size
  BY <1>1, <1>3 DEF KeepsEvents, Row
<1> HIDE DEF r3
<1>5. KeepsEvents(r4, row) /\ r4.size = pass.size
  BY <1>1, <1>4 DEF KeepsEvents, Row
<1> HIDE DEF r4
<1> QED
  BY <1>5 DEF r1, r2, r3, r4, CheckedRow

LEMMA SkipByStatStep ==
    ASSUME IInv, NEW p \in Paths, SkipByStat(p)
    PROVE  IInv'
<1> DEFINE row == sess[IdOf[p]]
           r == LinkedRow(row, p)
<1>1. IdOf[p] \in Sessions
  BY SessionAssumption
<1>2. row \in Row /\ RowPreserved(row, events[IdOf[p]]) /\ row.known
      /\ (row.size = Null => row.nro = 0)
  BY <1>1 DEF IInv, TypeOK, PreservedPrefix, FreshRows, SkipByStat
<1>3. KeepsEvents(r, row) /\ r.size = row.size
  BY <1>2, LinkedRowOK
<1>4. sess' = [sess EXCEPT ![IdOf[p]] = r]
  BY <1>1 DEF SkipByStat, IInv, TypeOK
<1>6. unresolved' \subseteq ErrorRow /\ retry' \subseteq Paths
  BY DEF SkipByStat, IInv, TypeOK
<1>7. PassDone(p) /\ UNCHANGED events
  BY DEF SkipByStat
<1> HIDE DEF r, row
<1>8. /\ r \in Row /\ r.known /\ (r.size = Null => r.nro = 0)
      /\ RowPreserved(r, events[IdOf[p]])
  BY <1>2, <1>3 DEF KeepsEvents, RowPreserved
<1> QED
  BY <1>4, <1>6, <1>7, <1>8, EventsUntouched

LEMMA ReadErrorStep ==
    ASSUME IInv, NEW p \in Paths, ReadError(p)
    PROVE  IInv'
<1> DEFINE r == RowFor(p)
           e == [path |-> p, session |-> IdOf[p], kind |-> "read_error",
                 gen |-> r.gen, offset |-> Null]
<1>1. /\ r \in Row /\ r.known /\ RowPreserved(r, events[IdOf[p]])
      /\ (r.size = Null => r.nro = 0) /\ IdOf[p] \in Sessions
  BY RowForOK
<1>2. e \in ErrorRow
  BY <1>1 DEF ErrorRow, Row
<1>3. unresolved' \subseteq ErrorRow /\ retry' \subseteq Paths
  BY <1>2 DEF ReadError, IInv, TypeOK
<1>4. PassDone(p) /\ UNCHANGED events /\ sess' = [sess EXCEPT ![IdOf[p]] = r]
  BY DEF ReadError
<1> HIDE DEF r
<1> QED
  BY <1>1, <1>3, <1>4, EventsUntouched

LEMMA ResolveTypes ==
    ASSUME IInv, NEW p \in Paths, NEW nro, NEW boundary,
           ResolveJsonErrors(p, nro, boundary)
    PROVE  unresolved' \subseteq ErrorRow /\ retry' \subseteq Paths
  BY DEF ResolveJsonErrors, IInv, TypeOK

LEMMA CommitSkipStep ==
    ASSUME IInv, NEW p \in Paths, CommitSkip(p)
    PROVE  IInv'
<1> DEFINE row == RowFor(p)
           r == CheckedRow(row, p)
<1>1. row \in Row /\ row.known /\ RowPreserved(row, events[IdOf[p]])
  BY RowForOK
<1>2. pass.size \in Nat
  BY DEF IInv, TypeOK
<1>3. KeepsEvents(r, row) /\ r.size = pass.size
  BY <1>1, CheckedRowOK
<1>4. unresolved' \subseteq ErrorRow /\ retry' \subseteq Paths
  BY ResolveTypes DEF CommitSkip
<1>6. PassDone(p) /\ UNCHANGED events /\ sess' = [sess EXCEPT ![IdOf[p]] = r]
  BY DEF CommitSkip
<1> HIDE DEF r, row
<1>7. /\ r \in Row /\ r.known /\ (r.size = Null => r.nro = 0)
      /\ RowPreserved(r, events[IdOf[p]])
  BY <1>1, <1>2, <1>3 DEF KeepsEvents, RowPreserved
<1> QED
  BY <1>4, <1>6, <1>7, EventsUntouched

\* An import appends only where the file still starts with what was consumed.
LEMMA AppendMode ==
    ASSUME IInv, NEW p \in Paths, ModeOf(p) = "Append"
    PROVE  LET row == RowFor(p) IN
           \/ row.nro = 0
           \/ /\ row.nro <= Len(buf.lines)
              /\ SubSeq(buf.lines, 1, row.nro) = row.prefix
<1>1. RowFor(p).size = Null \/ PrefixIntact(RowFor(p), buf)
  BY DEF ModeOf, ImportMode
<1> QED
  BY <1>1, RowForOK DEF PrefixIntact

\* What CommitImport writes: rows is the new event table of the session, and
\* its generation g holds the n lines of buf the import consumed.
ImportResult(p, g, n, rows) ==
    LET s == IdOf[p] IN
    /\ g \in Nat /\ g >= sess[s].gen
    /\ n \in 0 .. Len(buf.lines)
    /\ events' = [events EXCEPT ![s] = rows]
    /\ sess' = [sess EXCEPT ![s] = ImportedRow(p, g, buf, n, rows)]
    /\ EventTable(rows)
    /\ Holds(rows, g, buf.lines, n)
    /\ \A k \in DOMAIN events[s] : k \in DOMAIN rows /\ rows[k] = events[s][k]
    /\ \A k \in DOMAIN rows \ DOMAIN events[s] : k[1] = g
    /\ g \in {sess[s].gen, sess[s].gen + 1}
    /\ unresolved' \subseteq ErrorRow /\ retry' \subseteq Paths

LEMMA CommitImportResult ==
    ASSUME IInv, NEW p \in Paths, CommitImport(p)
    PROVE  \E g, n, rows : ImportResult(p, g, n, rows)
<1> DEFINE s     == IdOf[p]
           row   == RowFor(p)
           mode  == ModeOf(p)
           lines == buf.lines
           g     == TargetGeneration(row, mode)
           start == StartLineOf(row, mode, buf)
           All(n) == InsertOrIgnore(events[s], NewRows(g, lines, start, n))
<1>1. /\ s \in Sessions /\ row \in Row /\ RowPreserved(row, events[s])
      /\ row.gen = sess[s].gen /\ row.gen \in Nat /\ row.nro \in Nat
  BY RowForOK DEF Row
<1>2. lines \in Seq(Line) /\ Len(lines) \in Nat
  BY DEF IInv, TypeOK, Content
<1>3. EventTable(events[s])
  BY <1>1 DEF IInv, TypeOK, EventTable
<1>4. g \in Nat /\ g \in {sess[s].gen, sess[s].gen + 1} /\ g >= sess[s].gen
  BY <1>1 DEF TargetGeneration
<1>5. start \in 0 .. Len(lines)
  BY <1>1, <1>2 DEF StartLineOf
<1>6. Holds(events[s], g, lines, start)
  <2>1. CASE mode = "Append"
    <3>1. g = row.gen
      BY <2>1 DEF TargetGeneration
    <3>2. \/ row.nro = 0
          \/ row.nro <= Len(lines) /\ SubSeq(lines, 1, row.nro) = row.prefix
      BY <2>1, AppendMode
    <3>3. start = row.nro
      BY <1>1, <1>2, <2>1, <3>2 DEF StartLineOf
    <3>4. Holds(events[s], row.gen, row.prefix, row.nro)
      BY <1>1 DEF RowPreserved
    <3>5. ASSUME NEW q \in 0 .. row.nro - 1
          PROVE  row.prefix[q + 1] = lines[q + 1]
      BY <1>1, <1>2, <3>2
    <3> QED
      BY <3>1, <3>3, <3>4, <3>5 DEF Holds
  <2>2. CASE mode # "Append"
    <3>1. start = 0
      BY <2>2 DEF StartLineOf
    <3>2. mode = "Rewrite"
      BY <2>2 DEF CommitImport, ModeOf, ImportMode
    <3>3. g = row.gen + 1
      BY <3>2 DEF TargetGeneration
    <3>4. \A k \in DOMAIN events[s] : k[1] <= row.gen /\ k[1] \in Nat
      BY <1>1, <1>3 DEF RowPreserved, EventTable, EventKey
    <3>5. GenerationKeys(events[s], g) = {}
      BY <1>1, <3>3, <3>4 DEF GenerationKeys
    <3> QED
      BY <3>1, <3>5 DEF Holds
  <2> QED
    BY <2>1, <2>2
<1>7. PICK n \in start .. Len(lines) :
         /\ events' = [events EXCEPT ![s] = All(n)]
         /\ sess' = [sess EXCEPT ![s] = ImportedRow(p, g, buf, n, All(n))]
         /\ IF n < Len(lines)
            THEN /\ unresolved' = unresolved \cup
                      {[path |-> p, session |-> s, kind |-> "invalid_json",
                        gen |-> g, offset |-> n]}
                 /\ UNCHANGED retry
            ELSE ResolveJsonErrors(p, n, Len(lines))
  BY DEF CommitImport
<1> HIDE DEF s, row, mode, lines, g, start
<1>8. /\ EventTable(All(n))
      /\ Holds(All(n), g, lines, n)
      /\ \A k \in DOMAIN events[s] : k \in DOMAIN All(n) /\ All(n)[k] = events[s][k]
      /\ \A k \in DOMAIN All(n) \ DOMAIN events[s] : k[1] = g
  BY <1>2, <1>3, <1>4, <1>5, <1>6, InsertLines
<1>9. n \in 0 .. Len(lines)
  BY <1>2, <1>5
<1>10. unresolved' \subseteq ErrorRow /\ retry' \subseteq Paths
  <2>1. CASE n < Len(lines)
    <3>1. [path |-> p, session |-> s, kind |-> "invalid_json",
           gen |-> g, offset |-> n] \in ErrorRow
      BY <1>1, <1>4, <1>9 DEF ErrorRow
    <3> QED
      BY <1>7, <2>1, <3>1 DEF IInv, TypeOK
  <2>2. CASE ~(n < Len(lines))
    BY <1>7, <2>2, ResolveTypes
  <2> QED
    BY <2>1, <2>2
<1>11. ImportResult(p, g, n, All(n))
  <2> HIDE DEF All
  <2> QED
    BY <1>4, <1>7, <1>8, <1>9, <1>10 DEF ImportResult, s, lines
<1> QED
  BY <1>11

LEMMA CommitImportStep ==
    ASSUME IInv, NEW p \in Paths, CommitImport(p)
    PROVE  IInv'
<1> PICK g, n, rows : ImportResult(p, g, n, rows)
  BY CommitImportResult
<1> DEFINE r == ImportedRow(p, g, buf, n, rows)
<1>1. /\ IdOf[p] \in Sessions
      /\ pass.size \in Nat /\ pass.mtime \in Int
      /\ buf \in Content /\ buf.lines \in Seq(Line) /\ Len(buf.lines) \in Nat
  BY SessionAssumption DEF IInv, TypeOK, Content
<1>2. /\ g \in Nat /\ n \in Nat /\ n <= Len(buf.lines)
      /\ EventTable(rows) /\ Holds(rows, g, buf.lines, n)
  BY <1>1 DEF ImportResult
<1>3. SubSeq(buf.lines, 1, n) \in Seq(Line) /\ Len(SubSeq(buf.lines, 1, n)) = n
  BY <1>1, <1>2
<1>4. Cardinality(GenerationKeys(rows, g)) = n
  BY <1>2, GenerationCardinality DEF Holds
<1>5. r \in Row
  BY <1>1, <1>2, <1>3, <1>4, ParentType DEF ImportedRow, Row
<1>6. /\ r.known /\ r.size = pass.size /\ r.nro = n /\ r.count = n /\ r.gen = g
      /\ r.prefix = SubSeq(buf.lines, 1, n)
  BY <1>4 DEF ImportedRow
<1>7. \A k \in DOMAIN rows : k[1] <= g
  <2>1. \A k \in DOMAIN events[IdOf[p]] : k[1] <= sess[IdOf[p]].gen /\ k[1] \in Nat
    BY <1>1 DEF IInv, TypeOK, PreservedPrefix, RowPreserved, EventKey
  <2>2. sess[IdOf[p]].gen \in Nat
    BY <1>1 DEF IInv, TypeOK, Row
  <2> QED
    BY <1>2, <2>1, <2>2 DEF ImportResult
<1>8. ASSUME NEW q \in 0 .. n - 1
      PROVE  SubSeq(buf.lines, 1, n)[q + 1] = buf.lines[q + 1]
  BY <1>1, <1>2
<1> HIDE DEF r
<1>9. RowPreserved(r, rows)
  BY <1>2, <1>3, <1>6, <1>7, <1>8 DEF RowPreserved, Holds
<1>10. sess' = [sess EXCEPT ![IdOf[p]] = r] /\ events' = [events EXCEPT ![IdOf[p]] = rows]
  BY DEF ImportResult, r
<1>11. /\ sess' \in [Sessions -> Row]
       /\ events' = [t \in Sessions |-> events'[t]]
       /\ \A t \in Sessions : EventTable(events'[t])
       /\ PreservedPrefix' /\ FreshRows'
  <2>1. r.known /\ (r.size = Null => r.nro = 0)
    BY <1>1, <1>6
  <2>2. IdOf[p] \in Sessions /\ EventTable(rows)
    BY <1>1, <1>2
  <2> QED
    BY <1>5, <1>9, <1>10, <2>1, <2>2, RowReplaced
<1>12. unresolved' \subseteq ErrorRow /\ retry' \subseteq Paths
  BY DEF ImportResult
<1>13. PassDone(p)
  BY DEF CommitImport
<1> QED
  BY <1>11, <1>12, <1>13, PassDoneTypes DEF IInv

\* The steps that leave the tables alone.
LEMMA ControlStep ==
    ASSUME IInv,
           \/ StartRun \/ EndRun \/ Crash
           \/ \E p \in Paths : Stat(p) \/ Read(p)
    PROVE  IInv'
<1>1. Empty \in Content
  BY DEF Empty, Content
<1>2. CASE StartRun
  BY <1>2, TablesUnchanged DEF StartRun, IInv, TypeOK, db
<1>3. CASE EndRun
  BY <1>3, TablesUnchanged DEF EndRun, IInv, TypeOK, db
<1>4. CASE Crash
  BY <1>1, <1>4, TablesUnchanged DEF Crash, IInv, TypeOK, db
<1>5. ASSUME NEW p \in Paths, Stat(p)
      PROVE  IInv'
  <2>1. /\ Size(file[p].content) \in Nat /\ file[p].mtime \in Int /\ ver[p] \in Nat
    BY SizeType DEF IInv, TypeOK
  <2> QED
    BY <1>5, <2>1, TablesUnchanged DEF Stat, IInv, TypeOK, db
<1>6. ASSUME NEW p \in Paths, Read(p)
      PROVE  IInv'
  <2>1. ReadBounded(file[p].content, pass.size) \in Content
    BY ReadBoundedType DEF IInv, TypeOK
  <2> QED
    BY <1>6, <2>1, TablesUnchanged DEF Read, IInv, TypeOK, db
<1> QED
  BY <1>2, <1>3, <1>4, <1>5, <1>6

LEMMA InitInvariant == Init => IInv
<1> SUFFICES ASSUME Init PROVE IInv
  OBVIOUS
<1>1. Empty \in Content /\ <<>> \in Seq(Line)
  BY DEF Empty, Content
<1>2. Unset \in Row
  BY <1>1 DEF Unset, Row
<1>3. TypeOK
  BY <1>1, <1>2 DEF Init, TypeOK
<1>4. RowPreserved(Unset, << >>)
  <2>1. GenerationKeys(<< >>, 0) = {} /\ DOMAIN << >> = {}
    BY DEF GenerationKeys
  <2> QED
    BY <2>1 DEF RowPreserved, Unset, Holds
<1>5. PreservedPrefix
  BY <1>4 DEF Init, PreservedPrefix
<1>6. FreshRows
  BY DEF Init, FreshRows, Unset
<1> QED
  BY <1>3, <1>5, <1>6 DEF IInv

LEMMA NextInvariant == IInv /\ [Next]_vars => IInv'
<1> SUFFICES ASSUME IInv, [Next]_vars PROVE IInv'
  OBVIOUS
<1>1. CASE Writer
  BY <1>1, WriterStep
<1>2. CASE StartRun \/ EndRun \/ Crash
  BY <1>2, ControlStep
<1>3. ASSUME NEW p \in Paths, Ingest(p)
      PROVE  IInv'
  <2>1. CASE SkipByStat(p)
    BY <2>1, SkipByStatStep
  <2>2. CASE Stat(p) \/ Read(p)
    BY <2>2, ControlStep
  <2>3. CASE ReadError(p)
    BY <2>3, ReadErrorStep
  <2>4. CASE CommitSkip(p)
    BY <2>4, CommitSkipStep
  <2>5. CASE CommitImport(p)
    BY <2>5, CommitImportStep
  <2> QED
    BY <1>3, <2>1, <2>2, <2>3, <2>4, <2>5 DEF Ingest
<1>4. CASE UNCHANGED vars
  <2>1. TypeOK'
    BY <1>4 DEF vars, db, proc, IInv, TypeOK
  <2> QED
    BY <1>4, <2>1, TablesUnchanged DEF vars
<1> QED
  BY <1>1, <1>2, <1>3, <1>4 DEF Next, Step

\* An import keeps every event row and adds rows to no superseded generation;
\* no other step touches the event table.
LEMMA EventsOnlyGrow ==
    ASSUME IInv, [Next]_vars
    PROVE  \A s \in Sessions :
              /\ \A k \in DOMAIN events[s] :
                    k \in DOMAIN events'[s] /\ events'[s][k] = events[s][k]
              /\ \A k \in DOMAIN events'[s] \ DOMAIN events[s] : k[1] >= sess[s].gen
<1>1. CASE UNCHANGED events
  BY <1>1
<1>2. ASSUME NEW p \in Paths, CommitImport(p)
      PROVE  \A s \in Sessions :
                /\ \A k \in DOMAIN events[s] :
                      k \in DOMAIN events'[s] /\ events'[s][k] = events[s][k]
                /\ \A k \in DOMAIN events'[s] \ DOMAIN events[s] : k[1] >= sess[s].gen
  <2> PICK g, n, rows : ImportResult(p, g, n, rows)
    BY <1>2, CommitImportResult
  <2>1. events = [t \in Sessions |-> events[t]] /\ IdOf[p] \in Sessions
    BY SessionAssumption DEF IInv, TypeOK
  <2>2. /\ events'[IdOf[p]] = rows
        /\ \A t \in Sessions : t # IdOf[p] => events'[t] = events[t]
    BY <2>1 DEF ImportResult
  <2> TAKE s \in Sessions
  <2>3. CASE s = IdOf[p]
    BY <2>2, <2>3 DEF ImportResult
  <2>4. CASE s # IdOf[p]
    BY <2>2, <2>4
  <2> QED
    BY <2>3, <2>4
<1>3. \/ UNCHANGED events
      \/ \E p \in Paths : CommitImport(p)
  <2>1. CASE Writer
    BY <2>1 DEF Writer, Create, AppendLine, StartLine, FinishLine, Rewrite,
                Vanish, Write, db
  <2>2. CASE StartRun \/ EndRun \/ Crash
    BY <2>2 DEF StartRun, EndRun, Crash, db
  <2>3. ASSUME NEW p \in Paths, Ingest(p), ~CommitImport(p)
        PROVE  UNCHANGED events
    BY <2>3 DEF Ingest, SkipByStat, Stat, Read, ReadError, CommitSkip, db
  <2>4. CASE UNCHANGED vars
    BY <2>4 DEF vars, db
  <2> QED
    BY <2>1, <2>2, <2>3, <2>4 DEF Next, Step
<1> QED
  BY <1>1, <1>2, <1>3

------------------------------------------------------------------------------
(* Theorems. *)

\* The inductive invariant holds in every reachable state.
THEOREM Invariance == Spec => []IInv
<1>1. Init => IInv
  BY InitInvariant
<1>2. IInv /\ [Next]_vars => IInv'
  BY NextInvariant
<1> QED
  BY <1>1, <1>2, PTL DEF Spec

\* Every variable keeps its type: in particular no counter is ever taken of an
\* infinite set and no offset is negative.
THEOREM TypeCorrect == Spec => []TypeOK
<1>1. IInv => TypeOK
  BY DEF IInv
<1> QED
  BY <1>1, Invariance, PTL

\* next_read_offset, event_count and prefix_fingerprint always describe exactly
\* the rows of the current generation.
THEOREM OffsetsAreSound == Spec => []PreservedPrefix
<1>1. IInv => PreservedPrefix
  BY DEF IInv
<1> QED
  BY <1>1, Invariance, PTL

\* The journal outlives its source: in every behaviour, whatever writers, runs
\* and crashes do, no preserved event is deleted or altered and no superseded
\* generation gets another event.
THEOREM NothingIsLost == Spec => PreservedForever
<1>1. IInv /\ [Next]_vars =>
         [\A s \in Sessions :
             /\ \A k \in DOMAIN events[s] :
                   k \in DOMAIN events'[s] /\ events'[s][k] = events[s][k]
             /\ \A k \in DOMAIN events'[s] \ DOMAIN events[s] : k[1] >= sess[s].gen
         ]_vars
  BY EventsOnlyGrow
<1> QED
  BY <1>1, Invariance, PTL DEF Spec, PreservedForever
------------------------------------------------------------------------------
(* Where reading stopped. *)

\* The rows say the same of what was read.
SameReading(r, q) ==
    /\ r.size = q.size /\ r.fingerprint = q.fingerprint
    /\ r.nro = q.nro /\ r.prefix = q.prefix /\ r.gen = q.gen

LEMMA RowForReads ==
    ASSUME IInv, NEW p \in Paths
    PROVE  SameReading(RowFor(p), sess[IdOf[p]])
<1>1. CASE sess[IdOf[p]].known
  BY <1>1 DEF RowFor, SameReading
<1>2. CASE ~sess[IdOf[p]].known
  <2>1. sess[IdOf[p]] = Unset
    BY <1>2, SessionAssumption DEF IInv, FreshRows
  <2> QED
    BY <1>2, <2>1 DEF RowFor, SameReading, Unset
<1> QED
  BY <1>1, <1>2

\* A skip needs the stored size and content.
LEMMA SkipMode ==
    ASSUME IInv, NEW p \in Paths
    PROVE  ModeOf(p) = "Skip" <=> RowFor(p).size = pass.size /\ RowFor(p).fingerprint = buf
<1>1. RowFor(p).size = Null => RowFor(p).size # pass.size
  BY DEF IInv, TypeOK
<1> QED
  BY <1>1 DEF ModeOf, ImportMode

\* Only an import changes what a row says of what was read.
LEMMA QuietRows ==
    ASSUME IInv, [Next]_vars, \A p \in Paths : ~CommitImport(p)
    PROVE  \A s \in Sessions : SameReading(sess'[s], sess[s])
<1>1. CASE UNCHANGED sess
  BY <1>1 DEF SameReading
<1>2. ASSUME NEW p \in Paths, NEW r,
             sess' = [sess EXCEPT ![IdOf[p]] = r], SameReading(r, sess[IdOf[p]])
      PROVE  \A s \in Sessions : SameReading(sess'[s], sess[s])
  <2> TAKE s \in Sessions
  <2>1. CASE s = IdOf[p]
    BY <1>2, <2>1 DEF IInv, TypeOK
  <2>2. CASE s # IdOf[p]
    BY <1>2, <2>2 DEF SameReading, IInv, TypeOK
  <2> QED
    BY <2>1, <2>2
<1>3. ASSUME NEW p \in Paths, SkipByStat(p)
      PROVE  \A s \in Sessions : SameReading(sess'[s], sess[s])
  <2> DEFINE row == sess[IdOf[p]]
             r == LinkedRow(row, p)
  <2>1. row \in Row
    BY SessionAssumption DEF IInv, TypeOK
  <2>2. SameReading(r, row)
    BY <2>1 DEF LinkedRow, Row, SameReading
  <2>3. sess' = [sess EXCEPT ![IdOf[p]] = r]
    BY <1>3 DEF SkipByStat
  <2> HIDE DEF r
  <2> QED
    BY <1>2, <2>2, <2>3
<1>4. ASSUME NEW p \in Paths, ReadError(p)
      PROVE  \A s \in Sessions : SameReading(sess'[s], sess[s])
  BY <1>2, <1>4, RowForReads DEF ReadError
<1>5. ASSUME NEW p \in Paths, CommitSkip(p)
      PROVE  \A s \in Sessions : SameReading(sess'[s], sess[s])
  <2> DEFINE row == RowFor(p)
             l == LinkedRow(row, p)
             r == CheckedRow(row, p)
  <2>1. row \in Row /\ row.size = pass.size /\ row.fingerprint = buf
    BY <1>5, RowForOK, SkipMode DEF CommitSkip
  <2>2. l \in Row /\ SameReading(l, row)
    BY <2>1, LinkedRowOK DEF KeepsEvents, LinkedRow, SameReading, Row
  <2>3. r = [l EXCEPT !.size = pass.size, !.mtime = pass.mtime, !.fingerprint = buf]
    BY DEF CheckedRow
  <2>4. sess' = [sess EXCEPT ![IdOf[p]] = r] /\ SameReading(row, sess[IdOf[p]])
    BY <1>5, RowForReads DEF CommitSkip
  <2> HIDE DEF row, l, r
  <2>5. SameReading(r, row)
    BY <2>1, <2>2, <2>3 DEF Row, SameReading
  <2>6. SameReading(r, sess[IdOf[p]])
    BY <2>4, <2>5 DEF SameReading
  <2> QED
    BY <1>2, <2>4, <2>6
<1>6. CASE Writer
  BY <1>1, <1>6 DEF Writer, Create, AppendLine, StartLine, FinishLine, Rewrite, Vanish,
                    Write, db
<1>7. CASE StartRun \/ EndRun \/ Crash \/ \E p \in Paths : Stat(p) \/ Read(p)
  BY <1>1, <1>7 DEF StartRun, EndRun, Crash, Stat, Read, db
<1>8. CASE UNCHANGED vars
  BY <1>1, <1>8 DEF vars, db
<1> QED
  BY <1>3, <1>4, <1>5, <1>6, <1>7, <1>8 DEF Next, Step, Ingest

\* The files of a run are taken one at a time.
LEMMA OneNextFile ==
    ASSUME NEW p \in Paths, NEW q \in Paths, NextFile(p), NextFile(q)
    PROVE  p = q
<1>1. Before(p, q) /\ Before(q, p)
  BY DEF NextFile
<1>2. PathOrder[p] \in Int /\ PathOrder[q] \in Int
  BY SessionAssumption
<1>3. PathOrder[p] = PathOrder[q]
  BY <1>1, <1>2 DEF Before
<1> QED
  BY <1>3, SessionAssumption

\* A read that is cut ends at a line or in the middle of one.
LEMMA ReadCut ==
    ASSUME NEW c \in Content, NEW size \in Nat, size < Size(c)
    PROVE  \E h \in 0 .. Len(c.lines) : \E t \in {0, 1} :
              /\ size = 2 * h + t
              /\ ReadBounded(c, size).lines = SubSeq(c.lines, 1, h)
              /\ t = 0 => ReadBounded(c, size).tail = NoLine
              /\ t = 1 => /\ h < Len(c.lines)
                          /\ ReadBounded(c, size).tail = c.lines[h + 1]
<1> DEFINE h == size \div 2
           t == size % 2
<1>1. Len(c.lines) \in Nat
  BY DEF Content
<1>2. Size(c) <= 2 * Len(c.lines) + 1 /\ Size(c) \in Nat
  BY SizeBounds
<1>3. /\ h \in 0 .. Len(c.lines) /\ t \in {0, 1} /\ size = 2 * h + t
      /\ t = 1 => h < Len(c.lines)
  BY <1>1, <1>2
<1>4. /\ ReadBounded(c, size).lines = SubSeq(c.lines, 1, h)
      /\ ReadBounded(c, size).tail = IF t = 1 THEN c.lines[h + 1] ELSE NoLine
  BY <1>2 DEF ReadBounded
<1> HIDE DEF h, t
<1> QED
  BY <1>3, <1>4

\* A read stays within the stat of its pass.
LEMMA ReadStaysWithin ==
    ASSUME NEW c \in Content, NEW size \in Nat
    PROVE  Size(ReadBounded(c, size)) = IF size >= Size(c) THEN Size(c) ELSE size
<1> DEFINE b == ReadBounded(c, size)
<1>1. CASE size >= Size(c)
  BY <1>1 DEF ReadBounded
<1>2. CASE ~(size >= Size(c))
  <2>1. size < Size(c)
    BY <1>2, SizeType
  <2>2. PICK h \in 0 .. Len(c.lines), t \in {0, 1} :
           /\ size = 2 * h + t /\ b.lines = SubSeq(c.lines, 1, h)
           /\ t = 0 => b.tail = NoLine
           /\ t = 1 => h < Len(c.lines) /\ b.tail = c.lines[h + 1]
    BY <2>1, ReadCut
  <2> HIDE DEF b
  <2>3. c.lines \in Seq(Line) /\ Len(c.lines) \in Nat
    BY DEF Content
  <2>4. Len(b.lines) = h
    BY <2>2, <2>3
  <2>5. t = 1 => b.tail # NoLine
    <3>1. t = 1 => h + 1 \in 1 .. Len(c.lines)
      BY <2>2, <2>3
    <3> QED
      BY <2>2, <2>3, <3>1, LineAssumption
  <2>6. Size(b) = size
    BY <2>2, <2>4, <2>5 DEF Size
  <2> QED
    BY <1>2, <2>6 DEF b
<1> QED
  BY <1>1, <1>2

\* The row consumed what it has read up to its first bad line.
Consumed(r) ==
    r.size # Null =>
        /\ r.nro <= Len(r.fingerprint.lines)
        /\ StopsAt(r.fingerprint.lines, 0, r.nro)
        /\ r.prefix = SubSeq(r.fingerprint.lines, 1, r.nro)
        /\ Size(r.fingerprint) <= r.size

ReadWithin == pc = "commit" => Size(buf) <= pass.size
ConsumedInv == ReadWithin /\ \A s \in Sessions : Consumed(sess[s])

\* What an import takes up again it has consumed before.
LEMMA ImportConsumes ==
    ASSUME IInv, ConsumedInv, NEW p \in Paths, CommitImport(p)
    PROVE  \E g, rows : \E n \in 0 .. Len(buf.lines) :
              /\ StopsAt(buf.lines, 0, n)
              /\ g = TargetGeneration(RowFor(p), ModeOf(p))
              /\ sess' = [sess EXCEPT ![IdOf[p]] = ImportedRow(p, g, buf, n, rows)]
              /\ IF n < Len(buf.lines)
                 THEN /\ unresolved' = unresolved \cup
                           {[path |-> p, session |-> IdOf[p], kind |-> "invalid_json",
                             gen |-> g, offset |-> n]}
                      /\ UNCHANGED retry
                 ELSE ResolveJsonErrors(p, n, Len(buf.lines))
<1> DEFINE row   == RowFor(p)
           mode  == ModeOf(p)
           g     == TargetGeneration(row, mode)
           start == StartLineOf(row, mode, buf)
           All(n) == InsertOrIgnore(events[IdOf[p]], NewRows(g, buf.lines, start, n))
<1>1. row.nro \in Nat /\ SameReading(row, sess[IdOf[p]]) /\ IdOf[p] \in Sessions
  BY RowForOK, RowForReads DEF Row
<1>2. buf.lines \in Seq(Line) /\ Len(buf.lines) \in Nat
  BY DEF IInv, TypeOK, Content
<1>3. start \in 0 .. Len(buf.lines)
  BY <1>1, <1>2 DEF StartLineOf
<1>4. ASSUME NEW i \in 1 .. start
      PROVE  buf.lines[i] # Bad
  <2>1. mode = "Append" /\ row.nro # 0
    BY <1>3, <1>4 DEF StartLineOf
  <2>2. row.nro <= Len(buf.lines) /\ SubSeq(buf.lines, 1, row.nro) = row.prefix
    BY <2>1, AppendMode
  <2>3. start = row.nro
    BY <2>1, <2>2 DEF StartLineOf
  <2>4. row.size # Null
    BY <2>1, RowForOK
  <2>5. /\ row.nro <= Len(row.fingerprint.lines)
        /\ \A j \in 0 + 1 .. row.nro : row.fingerprint.lines[j] # Bad
        /\ row.prefix = SubSeq(row.fingerprint.lines, 1, row.nro)
    BY <1>1, <2>4 DEF SameReading, ConsumedInv, Consumed, StopsAt
  <2>6. row.fingerprint.lines \in Seq(Line)
    BY RowForOK DEF Row, Content
  <2> HIDE DEF row, mode, g, start
  <2>7. i \in 1 .. row.nro /\ i \in 0 + 1 .. row.nro
    BY <1>1, <1>4, <2>3
  <2>8. SubSeq(buf.lines, 1, row.nro)[i] = buf.lines[i]
    BY <1>1, <1>2, <2>2, <2>7
  <2>9. SubSeq(row.fingerprint.lines, 1, row.nro)[i] = row.fingerprint.lines[i]
    BY <1>1, <2>5, <2>6, <2>7
  <2> QED
    BY <2>2, <2>5, <2>7, <2>8, <2>9
<1>5. PICK n \in start .. Len(buf.lines) :
         /\ StopsAt(buf.lines, start, n)
         /\ sess' = [sess EXCEPT ![IdOf[p]] = ImportedRow(p, g, buf, n, All(n))]
         /\ IF n < Len(buf.lines)
            THEN /\ unresolved' = unresolved \cup
                      {[path |-> p, session |-> IdOf[p], kind |-> "invalid_json",
                        gen |-> g, offset |-> n]}
                 /\ UNCHANGED retry
            ELSE ResolveJsonErrors(p, n, Len(buf.lines))
  BY DEF CommitImport
<1>6. n \in 0 .. Len(buf.lines)
  BY <1>2, <1>3
<1> HIDE DEF start, All
<1>7. StopsAt(buf.lines, 0, n)
  <2>1. ASSUME NEW i \in 0 + 1 .. n
        PROVE  buf.lines[i] # Bad
    <3>1. CASE i \in 1 .. start
      BY <1>4, <3>1
    <3>2. CASE i \notin 1 .. start
      <4>1. i \in start + 1 .. n
        BY <1>2, <1>3, <3>2
      <4> QED
        BY <1>5, <4>1 DEF StopsAt
    <3> QED
      BY <3>1, <3>2
  <2> QED
    BY <1>5, <2>1 DEF StopsAt
<1> QED
  BY <1>5, <1>6, <1>7
LEMMA ConsumedInit == Init => ConsumedInv
  BY DEF Init, ConsumedInv, ReadWithin, Consumed, Unset

LEMMA WithinStep ==
    ASSUME IInv, ConsumedInv, [Next]_vars
    PROVE  ReadWithin'
<1>1. ASSUME NEW p \in Paths, Read(p)
      PROVE  ReadWithin'
  <2>1. /\ file[p].content \in Content /\ pass.size \in Nat
        /\ buf' = ReadBounded(file[p].content, pass.size) /\ pass' = pass
    BY <1>1 DEF IInv, TypeOK, Read
  <2>2. Size(ReadBounded(file[p].content, pass.size)) <= pass.size
    BY <2>1, ReadStaysWithin, SizeType
  <2> QED
    BY <2>1, <2>2 DEF ReadWithin, Size
<1>2. CASE UNCHANGED <<pc, pass, buf>> \/ pc' # "commit"
  BY <1>2 DEF ConsumedInv, ReadWithin, Size
<1>3. CASE Writer
  BY <1>2, <1>3 DEF Writer, Create, AppendLine, StartLine, FinishLine, Rewrite, Vanish,
                    Write, proc
<1>4. ASSUME NEW p \in Paths, Ingest(p), ~Read(p)
      PROVE  pc' # "commit"
  BY <1>4 DEF Ingest, SkipByStat, Stat, ReadError, CommitSkip, CommitImport, PassDone
<1>5. CASE StartRun \/ EndRun \/ Crash
  BY <1>2, <1>5 DEF StartRun, EndRun, Crash
<1>6. CASE UNCHANGED vars
  BY <1>2, <1>6 DEF vars, proc
<1> QED
  BY <1>1, <1>2, <1>3, <1>4, <1>5, <1>6 DEF Next, Step

LEMMA ConsumedStep ==
    ASSUME IInv, ConsumedInv, [Next]_vars
    PROVE  ConsumedInv'
<1>1. ReadWithin'
  BY WithinStep
<1>2. ASSUME \A p \in Paths : ~CommitImport(p), NEW s \in Sessions
      PROVE  Consumed(sess'[s])
  BY <1>2, QuietRows DEF SameReading, ConsumedInv, Consumed
<1>3. ASSUME NEW p \in Paths, CommitImport(p), NEW s \in Sessions
      PROVE  Consumed(sess'[s])
  <2>1. PICK g, rows : \E n \in 0 .. Len(buf.lines) :
           /\ StopsAt(buf.lines, 0, n)
           /\ sess' = [sess EXCEPT ![IdOf[p]] = ImportedRow(p, g, buf, n, rows)]
    BY <1>3, ImportConsumes
  <2>2. PICK n \in 0 .. Len(buf.lines) :
           /\ StopsAt(buf.lines, 0, n)
           /\ sess' = [sess EXCEPT ![IdOf[p]] = ImportedRow(p, g, buf, n, rows)]
    BY <2>1
  <2> DEFINE r == ImportedRow(p, g, buf, n, rows)
  <2>3. /\ r.size = pass.size /\ r.fingerprint = buf /\ r.nro = n
        /\ r.prefix = SubSeq(buf.lines, 1, n)
    BY DEF ImportedRow
  <2>4. Size(buf) <= pass.size /\ n <= Len(buf.lines)
    <3>1. buf.lines \in Seq(Line)
      BY DEF IInv, TypeOK, Content
    <3> QED
      BY <1>3, <2>2, <3>1 DEF ConsumedInv, ReadWithin, CommitImport
  <2> HIDE DEF r
  <2>5. Consumed(r)
    BY <2>2, <2>3, <2>4 DEF Consumed
  <2>6. sess'[s] = IF s = IdOf[p] THEN r ELSE sess[s]
    BY <2>2 DEF IInv, TypeOK, r
  <2> QED
    BY <2>5, <2>6 DEF ConsumedInv
<1>4. (\A s \in Sessions : Consumed(sess[s]))'
  <2>1. \A s \in Sessions : Consumed(sess'[s])
    BY <1>2, <1>3
  <2> QED
    BY <2>1 DEF Consumed, StopsAt, Size
<1> QED
  BY <1>1, <1>4 DEF ConsumedInv

\* Adding no rows to a table leaves it.
LEMMA NothingInserted ==
    ASSUME NEW rows, EventTable(rows), NEW g, NEW lines, NEW n \in Nat
    PROVE  InsertOrIgnore(rows, NewRows(g, lines, n, n)) = rows
<1> DEFINE new == NewRows(g, lines, n, n)
<1>1. n .. n - 1 = {}
  OBVIOUS
<1>2. DOMAIN new = {}
  BY <1>1 DEF NewRows
<1> HIDE DEF new
<1>3. InsertOrIgnore(rows, new) = [k \in DOMAIN rows |-> rows[k]]
  BY <1>2 DEF InsertOrIgnore
<1> QED
  BY <1>3 DEF EventTable, new

\* An import of what is stored goes on where reading stopped, at the same line.
LEMMA SameContent ==
    ASSUME IInv, ConsumedInv, NEW p \in Paths, CommitImport(p),
           sess[IdOf[p]].known, Size(buf) = sess[IdOf[p]].size,
           sess[IdOf[p]].fingerprint = buf
    PROVE  UNCHANGED events
<1> DEFINE s     == IdOf[p]
           row   == sess[s]
           mode  == ModeOf(p)
           g     == TargetGeneration(row, mode)
           start == StartLineOf(row, mode, buf)
<1>1. /\ s \in Sessions /\ row \in Row /\ RowFor(p) = row
      /\ EventTable(events[s])
      /\ pass.size \in Nat /\ buf \in Content
      /\ buf.lines \in Seq(Line) /\ Len(buf.lines) \in Nat
  BY SessionAssumption DEF RowFor, IInv, TypeOK, EventTable, Content
<1>2. row.size \in Nat /\ row.size # Null
  BY <1>1, SizeType
<1>3. /\ row.nro \in Nat /\ row.nro <= Len(buf.lines) /\ StopsAt(buf.lines, 0, row.nro)
      /\ row.prefix = SubSeq(buf.lines, 1, row.nro)
  BY <1>1, <1>2 DEF ConsumedInv, Consumed, Row
<1>4. pass.size > row.size
  <2>1. Size(buf) <= pass.size
    BY DEF ConsumedInv, ReadWithin, CommitImport
  <2>2. row.size # pass.size
    BY <1>1, SkipMode DEF CommitImport
  <2> QED
    BY <1>1, <1>2, <2>1, <2>2
<1>5. PrefixIntact(row, buf)
  BY <1>3 DEF PrefixIntact
<1>6. mode = "Append"
  <2>1. row.size # pass.size
    BY <1>1, <1>2, <1>4
  <2> QED
    BY <1>1, <1>2, <1>4, <1>5, <2>1 DEF ModeOf, ImportMode
<1>7. start = row.nro
  BY <1>3, <1>6 DEF StartLineOf
<1>8. PICK n \in start .. Len(buf.lines) :
         /\ StopsAt(buf.lines, start, n)
         /\ events' = [events EXCEPT ![s] =
               InsertOrIgnore(events[s], NewRows(g, buf.lines, start, n))]
  BY <1>1 DEF CommitImport
<1> HIDE DEF row, mode, g, start
<1>9. n = start
  <2> SUFFICES ASSUME n # start PROVE FALSE
    OBVIOUS
  <2>1. row.nro + 1 \in start + 1 .. n /\ row.nro < Len(buf.lines)
    BY <1>1, <1>3, <1>7, <1>8
  <2>2. buf.lines[row.nro + 1] # Bad
    BY <1>8, <2>1 DEF StopsAt
  <2>3. buf.lines[row.nro + 1] = Bad
    BY <1>3, <2>1 DEF StopsAt
  <2> QED
    BY <2>2, <2>3
<1>10. InsertOrIgnore(events[s], NewRows(g, buf.lines, start, n)) = events[s]
  BY <1>1, <1>3, <1>7, <1>9, NothingInserted
<1> QED
  BY <1>1, <1>8, <1>10 DEF IInv, TypeOK

LEMMA StoredContentStep ==
    ASSUME IInv, ConsumedInv, [Next]_vars, NEW p \in Paths,
           NextFile(p), Settled(p), pc = "commit" => buf = file[p].content
    PROVE  UNCHANGED events
<1>1. ASSUME NEW q \in Paths, CommitImport(q)
      PROVE  UNCHANGED events
  <2>1. q = p /\ pc = "commit"
    BY <1>1, OneNextFile DEF CommitImport
  <2>2. /\ sess[IdOf[p]].known /\ sess[IdOf[p]].fingerprint = buf
        /\ Size(buf) = sess[IdOf[p]].size
    BY <2>1 DEF Settled
  <2> QED
    BY <1>1, <2>1, <2>2, SameContent
<1>2. \/ UNCHANGED events
      \/ \E q \in Paths : CommitImport(q)
  <2>1. CASE Writer
    BY <2>1 DEF Writer, Create, AppendLine, StartLine, FinishLine, Rewrite,
                Vanish, Write, db
  <2>2. CASE StartRun \/ EndRun \/ Crash
    BY <2>2 DEF StartRun, EndRun, Crash, db
  <2>3. ASSUME NEW q \in Paths, Ingest(q), ~CommitImport(q)
        PROVE  UNCHANGED events
    BY <2>3 DEF Ingest, SkipByStat, Stat, Read, ReadError, CommitSkip, db
  <2>4. CASE UNCHANGED vars
    BY <2>4 DEF vars, db
  <2> QED
    BY <2>1, <2>2, <2>3, <2>4 DEF Next, Step
<1> QED
  BY <1>1, <1>2

\* What is read again is not imported again: a pass that finds the content that
\* is stored writes no event, whatever made it look.
THEOREM NothingTwice == Spec => SameContentWritesNothing
<1>1. IInv /\ ConsumedInv /\ [Next]_vars =>
         [\A p \in Paths :
             NextFile(p) /\ Settled(p) /\ (pc = "commit" => buf = file[p].content)
             => UNCHANGED events]_vars
  BY StoredContentStep
<1>2. IInv /\ ConsumedInv /\ [Next]_vars => ConsumedInv'
  BY ConsumedStep
<1> QED
  BY <1>1, <1>2, ConsumedInit, Invariance, PTL DEF Spec, SameContentWritesNothing
------------------------------------------------------------------------------
(* The open errors. *)

\* What the errors say of the row: where reading stopped, or nothing.
ErrorsTold(p) ==
    LET r == sess[IdOf[p]] IN
    r.size # Null =>
        IF r.nro < Len(r.fingerprint.lines)
        THEN \E e \in JsonErrorsOf(p) : e.gen = r.gen /\ e.offset = r.nro
        ELSE JsonErrorsOf(p) = {}

\* A run knows the open errors of the files it has before it.
RetryKnown(p) == pc # "idle" /\ p \in todo => (p \in retry <=> JsonErrorsOf(p) # {})

ErrorInv == \A p \in Paths : RetryKnown(p) /\ (Sole(p) => ErrorsTold(p))

LEMMA ErrorInit == Init => ErrorInv
  BY SessionAssumption DEF Init, ErrorInv, RetryKnown, ErrorsTold, Unset

\* A step changes the errors of the file it is about.
SameErrors(p) == JsonErrorsOf(p)' = JsonErrorsOf(p) /\ (p \in retry' <=> p \in retry)

LEMMA ResolvedErrors ==
    ASSUME NEW p \in Paths, NEW n, NEW m, ResolveJsonErrors(p, n, m)
    PROVE  /\ \A q \in Paths \ {p} : SameErrors(q)
           /\ IF n >= m /\ p \in retry THEN JsonErrorsOf(p)' = {} ELSE SameErrors(p)
  BY DEF ResolveJsonErrors, JsonErrorsOf, SameErrors

LEMMA OtherErrors ==
    ASSUME NEW p \in Paths, NEW q \in Paths \ {p}, Ingest(p)
    PROVE  SameErrors(q)
<1>1. CASE SkipByStat(p) \/ Stat(p) \/ Read(p)
  BY <1>1 DEF SkipByStat, Stat, Read, db, SameErrors, JsonErrorsOf
<1>2. CASE ReadError(p)
  BY <1>2 DEF ReadError, SameErrors, JsonErrorsOf
<1>3. CASE CommitSkip(p)
  BY <1>3, ResolvedErrors DEF CommitSkip
<1>4. CASE CommitImport(p)
  <2> DEFINE g == TargetGeneration(RowFor(p), ModeOf(p))
             start == StartLineOf(RowFor(p), ModeOf(p), buf)
  <2>1. PICK n \in start .. Len(buf.lines) :
           IF n < Len(buf.lines)
           THEN /\ unresolved' = unresolved \cup
                     {[path |-> p, session |-> IdOf[p], kind |-> "invalid_json",
                       gen |-> g, offset |-> n]}
                /\ UNCHANGED retry
           ELSE ResolveJsonErrors(p, n, Len(buf.lines))
    BY <1>4 DEF CommitImport
  <2>2. CASE n < Len(buf.lines)
    BY <2>1, <2>2 DEF SameErrors, JsonErrorsOf
  <2>3. CASE ~(n < Len(buf.lines))
    BY <2>1, <2>3, ResolvedErrors
  <2> QED
    BY <2>2, <2>3
<1> QED
  BY <1>1, <1>2, <1>3, <1>4 DEF Ingest

LEMMA RetryStep ==
    ASSUME IInv, ErrorInv, [Next]_vars, NEW p \in Paths
    PROVE  RetryKnown(p)'
<1>1. CASE Writer
  BY <1>1 DEF Writer, Create, AppendLine, StartLine, FinishLine, Rewrite, Vanish, Write,
              proc, db, ErrorInv, RetryKnown, JsonErrorsOf
<1>2. CASE StartRun
  BY <1>2 DEF StartRun, db, RetryKnown, JsonErrorsOf
<1>3. CASE EndRun \/ Crash
  BY <1>3 DEF EndRun, Crash, RetryKnown
<1>4. ASSUME NEW q \in Paths, Stat(q) \/ Read(q)
      PROVE  RetryKnown(p)'
  BY <1>4 DEF Stat, Read, db, ErrorInv, RetryKnown, JsonErrorsOf
<1>5. ASSUME NEW q \in Paths, SkipByStat(q) \/ ReadError(q) \/ CommitSkip(q) \/ CommitImport(q)
      PROVE  RetryKnown(p)'
  <2>1. PassDone(q) /\ pc # "idle" /\ Ingest(q)
    BY <1>5 DEF SkipByStat, ReadError, CommitSkip, CommitImport, Ingest
  <2>2. CASE p = q
    BY <2>1, <2>2 DEF PassDone, RetryKnown
  <2>3. CASE p # q
    <3>1. SameErrors(p)
      BY <2>1, <2>3, OtherErrors
    <3> QED
      BY <2>1, <3>1 DEF PassDone, ErrorInv, RetryKnown, SameErrors
  <2> QED
    BY <2>2, <2>3
<1>6. CASE UNCHANGED vars
  BY <1>6 DEF vars, proc, db, ErrorInv, RetryKnown, JsonErrorsOf
<1> QED
  BY <1>1, <1>2, <1>3, <1>4, <1>5, <1>6 DEF Next, Step, Ingest

\* The row and the errors of a file stay as they are, or its errors go once
\* reading has come to its end.
LEMMA ToldKeeps ==
    ASSUME NEW p \in Paths, ErrorsTold(p), SameReading(sess'[IdOf[p]], sess[IdOf[p]]),
           \/ JsonErrorsOf(p)' = JsonErrorsOf(p)
           \/ /\ JsonErrorsOf(p)' = {}
              /\ ~(sess[IdOf[p]].nro < Len(sess[IdOf[p]].fingerprint.lines))
    PROVE  ErrorsTold(p)'
  BY DEF ErrorsTold, SameReading

LEMMA ImportTold ==
    ASSUME IInv, ConsumedInv, ErrorInv, NEW p \in Paths, CommitImport(p)
    PROVE  ErrorsTold(p)'
<1>1. PICK g, rows : \E n \in 0 .. Len(buf.lines) :
         /\ sess' = [sess EXCEPT ![IdOf[p]] = ImportedRow(p, g, buf, n, rows)]
         /\ IF n < Len(buf.lines)
            THEN /\ unresolved' = unresolved \cup
                      {[path |-> p, session |-> IdOf[p], kind |-> "invalid_json",
                        gen |-> g, offset |-> n]}
                 /\ UNCHANGED retry
            ELSE ResolveJsonErrors(p, n, Len(buf.lines))
  BY ImportConsumes
<1>2. PICK n \in 0 .. Len(buf.lines) :
         /\ sess' = [sess EXCEPT ![IdOf[p]] = ImportedRow(p, g, buf, n, rows)]
         /\ IF n < Len(buf.lines)
            THEN /\ unresolved' = unresolved \cup
                      {[path |-> p, session |-> IdOf[p], kind |-> "invalid_json",
                        gen |-> g, offset |-> n]}
                 /\ UNCHANGED retry
            ELSE ResolveJsonErrors(p, n, Len(buf.lines))
  BY <1>1
<1>3. buf.lines \in Seq(Line) /\ Len(buf.lines) \in Nat
  BY DEF IInv, TypeOK, Content
<1>4. sess'[IdOf[p]] = ImportedRow(p, g, buf, n, rows)
  BY <1>2, SessionAssumption DEF IInv, TypeOK
<1>5. /\ sess'[IdOf[p]].gen = g /\ sess'[IdOf[p]].nro = n
      /\ sess'[IdOf[p]].fingerprint = buf
  BY <1>4 DEF ImportedRow
<1>6. CASE n < Len(buf.lines)
  <2> DEFINE e == [path |-> p, session |-> IdOf[p], kind |-> "invalid_json",
                   gen |-> g, offset |-> n]
  <2>1. e \in JsonErrorsOf(p)'
    BY <1>2, <1>6 DEF JsonErrorsOf
  <2>2. e.gen = g /\ e.offset = n
    OBVIOUS
  <2> HIDE DEF e
  <2> QED
    BY <1>5, <1>6, <2>1, <2>2 DEF ErrorsTold
<1>7. CASE ~(n < Len(buf.lines))
  <2>1. n >= Len(buf.lines) /\ ResolveJsonErrors(p, n, Len(buf.lines))
    BY <1>2, <1>3, <1>7
  <2>2. p \in retry <=> JsonErrorsOf(p) # {}
    BY DEF ErrorInv, RetryKnown, CommitImport, NextFile
  <2>3. JsonErrorsOf(p)' = {}
    BY <2>1, <2>2, ResolvedErrors DEF SameErrors
  <2> QED
    BY <1>5, <1>7, <2>3 DEF ErrorsTold
<1> QED
  BY <1>6, <1>7

LEMMA ToldStep ==
    ASSUME IInv, ConsumedInv, ErrorInv, [Next]_vars, NEW p \in Paths, Sole(p)
    PROVE  ErrorsTold(p)'
<1>0. ErrorsTold(p) /\ IdOf[p] \in Sessions
  BY SessionAssumption DEF ErrorInv
<1>1. ASSUME \A q \in Paths : ~CommitImport(q), JsonErrorsOf(p)' = JsonErrorsOf(p)
      PROVE  ErrorsTold(p)'
  BY <1>0, <1>1, QuietRows, ToldKeeps
<1>2. CASE Writer
  <2>1. UNCHANGED db
    BY <1>2 DEF Writer, Create, AppendLine, StartLine, FinishLine, Rewrite, Vanish, Write
  <2> QED
    BY <1>0, <2>1, ToldKeeps DEF db, JsonErrorsOf, SameReading
<1>3. CASE StartRun \/ EndRun \/ Crash \/ UNCHANGED vars
  <2>1. UNCHANGED db
    BY <1>3 DEF StartRun, EndRun, Crash, vars
  <2> QED
    BY <1>0, <2>1, ToldKeeps DEF db, JsonErrorsOf, SameReading
<1>4. ASSUME NEW q \in Paths, Ingest(q), ~CommitImport(q)
      PROVE  ErrorsTold(p)'
  <2>1. \A r \in Paths : ~CommitImport(r)
    BY <1>4, OneNextFile DEF Ingest, SkipByStat, Stat, Read, ReadError, CommitSkip,
       CommitImport, PassDone
  <2>2. CASE q # p \/ ~CommitSkip(q)
    <3>1. JsonErrorsOf(p)' = JsonErrorsOf(p)
      <4>1. CASE q # p
        BY <1>4, <4>1, OtherErrors DEF SameErrors
      <4>2. CASE ~CommitSkip(q)
        BY <1>4, <4>2 DEF Ingest, SkipByStat, Stat, Read, ReadError, db, JsonErrorsOf
      <4> QED
        BY <2>2, <4>1, <4>2
    <3> QED
      BY <1>1, <2>1, <3>1
  <2>3. CASE q = p /\ CommitSkip(p)
    <3> DEFINE row == RowFor(p)
    <3>1. row.fingerprint = buf /\ SameReading(row, sess[IdOf[p]])
          /\ ResolveJsonErrors(p, row.nro, Len(buf.lines))
          /\ row.nro \in Nat
      BY <2>3, SkipMode, RowForReads, RowForOK DEF CommitSkip, Row
    <3>2. SameReading(sess'[IdOf[p]], sess[IdOf[p]])
      BY <1>0, <2>1, QuietRows
    <3>3. CASE row.nro >= Len(buf.lines) /\ p \in retry
      <4>1. JsonErrorsOf(p)' = {}
        BY <3>1, <3>3, ResolvedErrors
      <4>2. ~(row.nro < Len(buf.lines))
        <5>1. Len(buf.lines) \in Nat
          BY DEF IInv, TypeOK, Content
        <5> QED
          BY <3>1, <3>3, <5>1
      <4> QED
        BY <1>0, <3>1, <3>2, <4>1, <4>2, ToldKeeps DEF SameReading
    <3>4. CASE ~(row.nro >= Len(buf.lines) /\ p \in retry)
      BY <1>0, <3>1, <3>2, <3>4, ResolvedErrors, ToldKeeps DEF SameErrors
    <3> QED
      BY <3>3, <3>4
  <2> QED
    BY <1>4, <2>2, <2>3
<1>5. ASSUME NEW q \in Paths, CommitImport(q)
      PROVE  ErrorsTold(p)'
  <2>1. CASE q = p
    BY <1>5, <2>1, ImportTold
  <2>2. CASE q # p
    <3>1. IdOf[q] # IdOf[p]
      BY <2>2 DEF Sole
    <3>2. PICK g, rows : \E n \in 0 .. Len(buf.lines) :
             sess' = [sess EXCEPT ![IdOf[q]] = ImportedRow(q, g, buf, n, rows)]
      BY <1>5, ImportConsumes
    <3>3. sess'[IdOf[p]] = sess[IdOf[p]]
      BY <1>0, <3>1, <3>2 DEF IInv, TypeOK
    <3>4. JsonErrorsOf(p)' = JsonErrorsOf(p)
      BY <1>5, <2>2, OtherErrors DEF SameErrors, Ingest
    <3> QED
      BY <1>0, <3>3, <3>4, ToldKeeps DEF SameReading
  <2> QED
    BY <2>1, <2>2
<1> QED
  BY <1>2, <1>3, <1>4, <1>5 DEF Next, Step

LEMMA ErrorStep ==
    ASSUME IInv, ConsumedInv, ErrorInv, [Next]_vars
    PROVE  ErrorInv'
<1>1. \A p \in Paths : RetryKnown(p)'
  BY RetryStep
<1>2. \A p \in Paths : Sole(p) => ErrorsTold(p)'
  BY ToldStep
<1> QED
  BY <1>1, <1>2 DEF ErrorInv, Sole

\* `status` tells the truth: an open error of a file that was read as it is
\* points at the line where reading stopped, and none is left of earlier ones.
THEOREM BadLinesAreTold == Spec => []BadLineVisible
<1>1. IInv /\ ErrorInv => BadLineVisible
  <2> SUFFICES ASSUME IInv, ErrorInv, NEW p \in Paths, Sole(p), Settled(p)
               PROVE  LET r == sess[IdOf[p]] IN
                      IF r.nro < Len(file[p].content.lines)
                      THEN \E e \in JsonErrorsOf(p) : e.gen = r.gen /\ e.offset = r.nro
                      ELSE JsonErrorsOf(p) = {}
    BY DEF BadLineVisible
  <2>1. file[p].content \in Content
    BY DEF IInv, TypeOK
  <2>2. sess[IdOf[p]].size # Null
    BY <2>1, SizeType DEF Settled
  <2> QED
    BY <2>2 DEF ErrorInv, ErrorsTold, Settled
<1>2. IInv /\ ConsumedInv /\ [Next]_vars => ConsumedInv'
  BY ConsumedStep
<1>3. IInv /\ ConsumedInv /\ ErrorInv /\ [Next]_vars => ErrorInv'
  BY ErrorStep
<1> QED
  BY <1>1, <1>2, <1>3, ConsumedInit, ErrorInit, Invariance, PTL DEF Spec
------------------------------------------------------------------------------
(* Files that are only appended to. *)

LEMMA ContinuesItself ==
    ASSUME NEW c \in Content
    PROVE  Continues(c, c)
  BY DEF Continues, Content

LEMMA ContinuesOn ==
    ASSUME NEW c \in Content, NEW d \in Content, NEW e \in Content,
           Continues(c, d), Continues(d, e)
    PROVE  Continues(c, e)
<1>1. /\ Len(c.lines) \in Nat /\ Len(d.lines) \in Nat /\ Len(e.lines) \in Nat
      /\ Len(c.lines) <= Len(d.lines) /\ Len(d.lines) <= Len(e.lines)
  BY DEF Continues, Content
<1>2. ASSUME NEW i \in 1 .. Len(c.lines)
      PROVE  e.lines[i] = c.lines[i]
  <2>1. i \in 1 .. Len(d.lines)
    BY <1>1
  <2> QED
    BY <2>1 DEF Continues
<1>3. ASSUME c.tail # NoLine
      PROVE  c.tail = IF Len(e.lines) = Len(c.lines) THEN e.tail
                      ELSE e.lines[Len(c.lines) + 1]
  <2>1. CASE Len(d.lines) = Len(c.lines)
    <3>1. d.tail = c.tail
      BY <1>3, <2>1 DEF Continues
    <3> QED
      BY <1>3, <2>1, <3>1 DEF Continues
  <2>2. CASE Len(d.lines) # Len(c.lines)
    <3>1. c.tail = d.lines[Len(c.lines) + 1]
      BY <1>3, <2>2 DEF Continues
    <3>2. Len(c.lines) + 1 \in 1 .. Len(d.lines) /\ Len(e.lines) # Len(c.lines)
      BY <1>1, <2>2
    <3> QED
      BY <3>1, <3>2 DEF Continues
  <2> QED
    BY <2>1, <2>2
<1> QED
  BY <1>1, <1>2, <1>3 DEF Continues

LEMMA ContinuesGrows ==
    ASSUME NEW c \in Content, NEW d \in Content, Continues(c, d)
    PROVE  Size(c) <= Size(d)
<1>1. /\ Len(c.lines) \in Nat /\ Len(d.lines) \in Nat
      /\ Len(c.lines) <= Len(d.lines)
  BY DEF Continues, Content
<1>2. CASE Len(c.lines) = Len(d.lines)
  <2>1. c.tail # NoLine => d.tail # NoLine
    BY <1>2 DEF Continues
  <2> QED
    BY <1>1, <1>2, <2>1 DEF Size
<1>3. CASE Len(c.lines) # Len(d.lines)
  <2>1. Len(c.lines) + 1 <= Len(d.lines)
    BY <1>1, <1>3
  <2>2. Size(c) <= 2 * Len(c.lines) + 1 /\ 2 * Len(d.lines) <= Size(d)
        /\ Size(c) \in Nat /\ Size(d) \in Nat
    BY SizeBounds
  <2> QED
    BY <1>1, <2>1, <2>2
<1> QED
  BY <1>2, <1>3

\* Of two contents of the same size, one continues the other only if it is it.
LEMMA ContinuesSameSize ==
    ASSUME NEW c \in Content, NEW d \in Content, Continues(c, d), Size(c) = Size(d)
    PROVE  c = d
<1>1. /\ c.lines \in Seq(Line) /\ d.lines \in Seq(Line)
      /\ Len(c.lines) \in Nat /\ Len(d.lines) \in Nat
      /\ Len(c.lines) <= Len(d.lines)
  BY DEF Continues, Content
<1>2. Len(c.lines) = Len(d.lines)
  <2>1. Size(c) <= 2 * Len(c.lines) + 1 /\ 2 * Len(d.lines) <= Size(d)
        /\ Size(c) \in Nat /\ Size(d) \in Nat
    BY SizeBounds
  <2> QED
    BY <1>1, <2>1
<1>3. c.lines = d.lines
  BY <1>1, <1>2 DEF Continues
<1>4. c.tail = d.tail
  <2>1. CASE c.tail = NoLine
    <3>1. Size(c) = 2 * Len(c.lines)
      BY <1>1, <2>1 DEF Size
    <3>2. d.tail # NoLine => Size(d) = 2 * Len(d.lines) + 1
      BY <1>1 DEF Size
    <3> QED
      BY <1>1, <1>2, <2>1, <3>1, <3>2
  <2>2. CASE c.tail # NoLine
    BY <1>2, <2>2 DEF Continues
  <2> QED
    BY <2>1, <2>2
<1> QED
  BY <1>3, <1>4 DEF Content

\* The file continues what was read of it.
LEMMA ReadIsContinued ==
    ASSUME NEW c \in Content, NEW size \in Nat
    PROVE  Continues(ReadBounded(c, size), c)
<1> DEFINE b == ReadBounded(c, size)
<1>1. CASE size >= Size(c)
  BY <1>1, ContinuesItself DEF ReadBounded
<1>2. CASE ~(size >= Size(c))
  <2>1. size < Size(c)
    BY <1>2, SizeType
  <2>2. PICK h \in 0 .. Len(c.lines), t \in {0, 1} :
           /\ size = 2 * h + t /\ b.lines = SubSeq(c.lines, 1, h)
           /\ t = 0 => b.tail = NoLine
           /\ t = 1 => h < Len(c.lines) /\ b.tail = c.lines[h + 1]
    BY <2>1, ReadCut
  <2> HIDE DEF b
  <2>3. c.lines \in Seq(Line) /\ Len(c.lines) \in Nat
    BY DEF Content
  <2>4. Len(b.lines) = h /\ \A i \in 1 .. h : c.lines[i] = b.lines[i]
    BY <2>2, <2>3
  <2>5. t = 1 => h # Len(c.lines)
    BY <2>2, <2>3
  <2>6. Continues(b, c)
    BY <2>2, <2>3, <2>4, <2>5 DEF Continues
  <2> QED
    BY <2>6 DEF b
<1> QED
  BY <1>1, <1>2

\* What the file continues, a longer read of the file continues too.
LEMMA ReadContinues ==
    ASSUME NEW c \in Content, NEW d \in Content, Continues(c, d),
           NEW size \in Nat, Size(c) <= size
    PROVE  Continues(c, ReadBounded(d, size))
<1> DEFINE b == ReadBounded(d, size)
<1>1. CASE size >= Size(d)
  BY <1>1 DEF ReadBounded
<1>2. CASE ~(size >= Size(d))
  <2>1. size < Size(d)
    BY <1>2, SizeType
  <2>2. PICK h \in 0 .. Len(d.lines), t \in {0, 1} :
           /\ size = 2 * h + t /\ b.lines = SubSeq(d.lines, 1, h)
           /\ t = 0 => b.tail = NoLine
           /\ t = 1 => h < Len(d.lines) /\ b.tail = d.lines[h + 1]
    BY <2>1, ReadCut
  <2> HIDE DEF b
  <2>3. /\ d.lines \in Seq(Line) /\ Len(d.lines) \in Nat
        /\ Len(c.lines) \in Nat /\ Len(c.lines) <= Len(d.lines)
    BY DEF Content, Continues
  <2>4. Len(b.lines) = h /\ \A i \in 1 .. h : b.lines[i] = d.lines[i]
    BY <2>2, <2>3
  <2>5. 2 * Len(c.lines) <= Size(c) /\ Size(c) \in Nat
    BY SizeBounds
  <2>6. Len(c.lines) <= h
    BY <2>2, <2>3, <2>5
  <2>7. ASSUME NEW i \in 1 .. Len(c.lines)
        PROVE  b.lines[i] = c.lines[i]
    <3>1. i \in 1 .. h
      BY <2>2, <2>3, <2>6
    <3> QED
      BY <2>4, <3>1 DEF Continues
  <2>8. ASSUME c.tail # NoLine
        PROVE  c.tail = IF Len(b.lines) = Len(c.lines) THEN b.tail
                        ELSE b.lines[Len(c.lines) + 1]
    <3>1. Size(c) = 2 * Len(c.lines) + 1
      BY <2>3, <2>8 DEF Size
    <3>2. CASE h = Len(c.lines)
      <4>1. t = 1
        BY <2>2, <2>3, <3>1, <3>2
      <4>2. Len(d.lines) # Len(c.lines) /\ b.tail = d.lines[Len(c.lines) + 1]
        BY <2>2, <2>3, <3>2, <4>1
      <4> QED
        BY <2>4, <2>8, <3>2, <4>2 DEF Continues
    <3>3. CASE h # Len(c.lines)
      <4>1. Len(c.lines) + 1 \in 1 .. h /\ Len(d.lines) # Len(c.lines)
        BY <2>2, <2>3, <2>6, <3>3
      <4>2. b.lines[Len(c.lines) + 1] = d.lines[Len(c.lines) + 1]
        BY <2>4, <4>1
      <4>3. c.tail = d.lines[Len(c.lines) + 1]
        BY <2>8, <4>1 DEF Continues
      <4> QED
        BY <2>4, <3>3, <4>2, <4>3
    <3> QED
      BY <3>2, <3>3
  <2>9. Continues(c, b)
    BY <2>4, <2>6, <2>7, <2>8 DEF Continues
  <2> QED
    BY <2>9 DEF b
<1> QED
  BY <1>1, <1>2
\* While p is only appended to: the row describes what the file was once, a pass
\* over it is of something between that and what it is now.
Grown(p) ==
    LET r == sess[IdOf[p]]
        c == file[p].content
    IN
    /\ r.gen = 0
    /\ r.size # Null => r.size = Size(r.fingerprint) /\ Continues(r.fingerprint, c)
    /\ pc \in {"open", "commit"} /\ NextFile(p) =>
          /\ pass.size <= Size(c)
          /\ r.size # Null => r.size <= pass.size
    /\ pc = "commit" /\ NextFile(p) =>
          /\ Size(buf) = pass.size /\ Continues(buf, c)
          /\ r.size # Null => Continues(r.fingerprint, buf)

GrownInv == \A p \in Paths : Sole(p) /\ ~rewritten[p] => Grown(p)

LEMMA GrownInit == Init => GrownInv
  BY SessionAssumption DEF Init, GrownInv, Grown, Unset

\* The contents a pass and a row refer to.
LEMMA ContentsOf ==
    ASSUME IInv, NEW p \in Paths
    PROVE  /\ IdOf[p] \in Sessions
           /\ file[p].content \in Content /\ buf \in Content
           /\ sess[IdOf[p]].fingerprint \in Content
           /\ pass.size \in Nat /\ sess[IdOf[p]].size \in Int
  BY SessionAssumption DEF IInv, TypeOK, Row

\* An append to the file keeps what is known of it.
LEMMA GrownWrite ==
    ASSUME IInv, NEW p \in Paths, Grown(p), NEW c \in Content,
           Continues(file[p].content, c), file'[p].content = c,
           UNCHANGED <<sess, proc>>
    PROVE  Grown(p)'
<1> DEFINE r == sess[IdOf[p]]
           d == file[p].content
<1>1. d \in Content /\ buf \in Content /\ r.fingerprint \in Content /\ pass.size \in Nat
  BY ContentsOf
<1>2. Size(d) <= Size(c) /\ Size(d) \in Nat /\ Size(c) \in Nat
  BY <1>1, ContinuesGrows, SizeType
<1>3. r.size # Null => r.size = Size(r.fingerprint) /\ Continues(r.fingerprint, c)
  BY <1>1, ContinuesOn DEF Grown
<1>4. pc \in {"open", "commit"} /\ NextFile(p) =>
          /\ pass.size <= Size(c)
          /\ r.size # Null => r.size <= pass.size
  BY <1>1, <1>2 DEF Grown
<1>5. pc = "commit" /\ NextFile(p) =>
          /\ Size(buf) = pass.size /\ Continues(buf, c)
          /\ r.size # Null => Continues(r.fingerprint, buf)
  BY <1>1, ContinuesOn DEF Grown
<1>6. /\ sess' = sess /\ pc' = pc /\ pass' = pass /\ buf' = buf /\ todo' = todo
      /\ file'[p].content = c
  BY DEF proc
<1>7. (/\ r.gen = 0
       /\ r.size # Null => r.size = Size(r.fingerprint) /\ Continues(r.fingerprint, d))'
  BY <1>3, <1>6 DEF Grown, Size, Continues
<1>8. (pc \in {"open", "commit"} /\ NextFile(p) =>
          /\ pass.size <= Size(d)
          /\ r.size # Null => r.size <= pass.size)'
  BY <1>4, <1>6 DEF NextFile, Size
<1>9. (pc = "commit" /\ NextFile(p) =>
          /\ Size(buf) = pass.size /\ Continues(buf, d)
          /\ r.size # Null => Continues(r.fingerprint, buf))'
  BY <1>5, <1>6 DEF NextFile, Size, Continues
<1> QED
  BY <1>7, <1>8, <1>9 DEF Grown

LEMMA WriterGrown ==
    ASSUME IInv, GrownInv, Writer, NEW p \in Paths, Sole(p), ~rewritten'[p]
    PROVE  Grown(p)'
<1>1. UNCHANGED <<sess, proc>>
  BY DEF Writer, Create, AppendLine, StartLine, FinishLine, Rewrite, Vanish, Write, db
<1>2. ASSUME UNCHANGED rewritten, file'[p].content = file[p].content
      PROVE  Grown(p)'
  <2>1. Grown(p)
    BY <1>2 DEF GrownInv
  <2> QED
    BY <1>1, <1>2, <2>1, ContentsOf, ContinuesItself, GrownWrite
<1>3. ASSUME NEW q \in Paths, NEW c, Write(q, c)
      PROVE  Grown(p)'
  <2>1. /\ file'[q].content = c
        /\ rewritten'[q] = (rewritten[q] \/ ~Continues(file[q].content, c))
        /\ q # p => file'[p] = file[p] /\ rewritten'[p] = rewritten[p]
    BY <1>3 DEF Write, IInv, TypeOK
  <2>2. Grown(p)
    BY <2>1 DEF GrownInv
  <2>3. file'[p].content \in Content
    <3>1. IInv'
      BY NextInvariant DEF Next
    <3> QED
      BY <3>1 DEF IInv, TypeOK
  <2>4. CASE q = p
    BY <1>1, <2>1, <2>2, <2>3, <2>4, GrownWrite
  <2>5. CASE q # p
    <3>1. file[p].content \in Content /\ Continues(file[p].content, file[p].content)
      BY ContentsOf, ContinuesItself
    <3>2. file'[p].content = file[p].content
      BY <2>1, <2>5
    <3> QED
      BY <1>1, <2>2, <3>1, <3>2, GrownWrite
  <2> QED
    BY <2>4, <2>5
<1>4. ASSUME NEW q \in Paths, Vanish(q)
      PROVE  file'[p].content = file[p].content /\ UNCHANGED rewritten
  BY <1>4 DEF Vanish, IInv, TypeOK
<1> QED
  BY <1>2, <1>3, <1>4 DEF Writer, Create, AppendLine, StartLine, FinishLine, Rewrite

\* A pass that ends without an import leaves what the row says.
LEMMA QuietGrown ==
    ASSUME IInv, NEW p \in Paths, Grown(p), pc' \notin {"open", "commit"}, UNCHANGED file,
           SameReading(sess'[IdOf[p]], sess[IdOf[p]])
    PROVE  Grown(p)'
<1>1. /\ sess'[IdOf[p]].gen = 0
      /\ sess'[IdOf[p]].size # Null =>
            /\ sess'[IdOf[p]].size = Size(sess'[IdOf[p]].fingerprint)
            /\ Continues(sess'[IdOf[p]].fingerprint, file[p].content)
  BY DEF Grown, SameReading
<1> QED
  BY <1>1 DEF Grown, Size, Continues

LEMMA StatGrown ==
    ASSUME IInv, NEW p \in Paths, Grown(p), NEW q \in Paths, Stat(q)
    PROVE  Grown(p)'
<1> DEFINE r == sess[IdOf[p]]
           c == file[p].content
<1>1. /\ UNCHANGED <<sess, file, todo>> /\ pc' = "open" /\ NextFile(q)
      /\ q = p => pass'.size = Size(c)
  BY DEF Stat, db
<1>2. c \in Content /\ r.fingerprint \in Content /\ Size(c) \in Nat
  BY ContentsOf, SizeType
<1>3. r.size # Null => r.size <= Size(c)
  BY <1>2, ContinuesGrows DEF Grown
<1>4. NextFile(p) => pass'.size = Size(c)
  BY <1>1, OneNextFile
<1>5. r.gen = 0 /\ (r.size # Null => r.size = Size(r.fingerprint) /\ Continues(r.fingerprint, c))
  BY DEF Grown
<1>6. (/\ r.gen = 0
       /\ r.size # Null => r.size = Size(r.fingerprint) /\ Continues(r.fingerprint, c))'
  BY <1>1, <1>5 DEF Size, Continues
<1>7. (NextFile(p) => pass.size <= Size(c) /\ (r.size # Null => r.size <= pass.size))'
  <2>1. Size(c)' = Size(c) /\ r'.size = r.size
    BY <1>1 DEF Size
  <2>2. NextFile(p)' => NextFile(p)
    BY <1>1 DEF NextFile
  <2> HIDE DEF r, c
  <2>3. Size(c) <= Size(c)
    BY <1>2
  <2> QED
    BY <1>3, <1>4, <2>1, <2>2, <2>3
<1> QED
  BY <1>1, <1>6, <1>7 DEF Grown

LEMMA ReadGrown ==
    ASSUME IInv, NEW p \in Paths, Grown(p), NEW q \in Paths, Read(q)
    PROVE  Grown(p)'
<1> DEFINE r == sess[IdOf[p]]
           c == file[p].content
<1>1. /\ UNCHANGED <<sess, file, todo, pass>> /\ pc = "open" /\ pc' = "commit"
      /\ NextFile(q) /\ q = p => buf' = ReadBounded(c, pass.size)
  BY DEF Read, db
<1>2. c \in Content /\ r.fingerprint \in Content /\ Size(c) \in Nat /\ pass.size \in Nat
  BY ContentsOf, SizeType
<1>3. r.gen = 0 /\ (r.size # Null => r.size = Size(r.fingerprint) /\ Continues(r.fingerprint, c))
  BY DEF Grown
<1>4. ASSUME NextFile(p)
      PROVE  /\ pass.size <= Size(c) /\ (r.size # Null => r.size <= pass.size)
             /\ Size(buf') = pass.size /\ Continues(buf', c)
             /\ r.size # Null => Continues(r.fingerprint, buf')
  <2>1. buf' = ReadBounded(c, pass.size)
    BY <1>1, <1>4, OneNextFile DEF Read
  <2>2. pass.size <= Size(c) /\ (r.size # Null => r.size <= pass.size)
    BY <1>1, <1>4 DEF Grown
  <2>3. Size(ReadBounded(c, pass.size)) = pass.size
    BY <1>2, <2>2, ReadStaysWithin
  <2>4. Continues(ReadBounded(c, pass.size), c)
    BY <1>2, ReadIsContinued
  <2>5. r.size # Null => Continues(r.fingerprint, ReadBounded(c, pass.size))
    BY <1>2, <1>3, <2>2, ReadContinues
  <2> QED
    BY <2>1, <2>2, <2>3, <2>4, <2>5
<1> QED
  BY <1>1, <1>3, <1>4 DEF Grown, NextFile, Size, Continues
\* A file that was only appended to is appended to its generation.
LEMMA AppendsInPlace ==
    ASSUME IInv, ConsumedInv, NEW p \in Paths, Grown(p), CommitImport(p)
    PROVE  TargetGeneration(RowFor(p), ModeOf(p)) = 0
<1> DEFINE row == RowFor(p)
           fp == row.fingerprint
<1>1. /\ SameReading(row, sess[IdOf[p]]) /\ row \in Row /\ IdOf[p] \in Sessions
      /\ fp \in Content /\ buf \in Content /\ pass.size \in Nat /\ row.nro \in Nat
      /\ row.size \in Int
  BY RowForReads, RowForOK, ContentsOf DEF Row
<1>2. row.gen = 0
  BY <1>1 DEF Grown, SameReading
<1>3. ModeOf(p) # "Skip" /\ pc = "commit" /\ NextFile(p)
  BY DEF CommitImport
<1>4. CASE row.size = Null
  <2>1. ModeOf(p) = "Append"
    BY <1>1, <1>4 DEF ModeOf, ImportMode
  <2> QED
    BY <1>2, <2>1 DEF TargetGeneration
<1>5. CASE row.size # Null
  <2>1. /\ row.size = Size(fp) /\ Size(buf) = pass.size /\ row.size <= pass.size
        /\ Continues(fp, buf)
    BY <1>1, <1>3, <1>5 DEF Grown, SameReading
  <2>2. row.size # pass.size
    <3>1. row.size = pass.size => fp = buf
      BY <1>1, <2>1, ContinuesSameSize
    <3> QED
      BY <1>3, <3>1, SkipMode
  <2>3. pass.size > row.size
    BY <1>1, <2>1, <2>2
  <2>4. row.nro <= Len(fp.lines) /\ row.prefix = SubSeq(fp.lines, 1, row.nro)
    BY <1>1, <1>5 DEF ConsumedInv, Consumed, SameReading
  <2>5. /\ fp.lines \in Seq(Line) /\ buf.lines \in Seq(Line)
        /\ Len(fp.lines) \in Nat /\ Len(buf.lines) \in Nat
        /\ Len(fp.lines) <= Len(buf.lines)
        /\ \A i \in 1 .. Len(fp.lines) : buf.lines[i] = fp.lines[i]
    BY <1>1, <2>1 DEF Content, Continues
  <2> HIDE DEF fp
  <2>6. row.nro <= Len(buf.lines) /\ SubSeq(buf.lines, 1, row.nro) = row.prefix
    <3>1. row.nro <= Len(buf.lines)
      BY <1>1, <2>4, <2>5
    <3>2. \A i \in 1 .. row.nro : buf.lines[i] = fp.lines[i]
      BY <1>1, <2>4, <2>5
    <3>3. SubSeq(buf.lines, 1, row.nro) = SubSeq(fp.lines, 1, row.nro)
      BY <1>1, <2>4, <2>5, <3>1, <3>2
    <3> QED
      BY <2>4, <3>1, <3>3
  <2>7. PrefixIntact(row, buf)
    BY <2>6 DEF PrefixIntact
  <2> HIDE DEF row
  <2>8. ModeOf(p) = "Append"
    BY <1>5, <2>2, <2>3, <2>7 DEF ModeOf, ImportMode, row
  <2> QED
    BY <1>2, <2>8 DEF TargetGeneration, row
<1> QED
  BY <1>4, <1>5

LEMMA ImportGrown ==
    ASSUME IInv, ConsumedInv, NEW p \in Paths, Grown(p), CommitImport(p)
    PROVE  Grown(p)'
<1>1. PICK g, rows : \E n \in 0 .. Len(buf.lines) :
         /\ g = TargetGeneration(RowFor(p), ModeOf(p))
         /\ sess' = [sess EXCEPT ![IdOf[p]] = ImportedRow(p, g, buf, n, rows)]
  BY ImportConsumes
<1>2. PICK n \in 0 .. Len(buf.lines) :
         /\ g = TargetGeneration(RowFor(p), ModeOf(p))
         /\ sess' = [sess EXCEPT ![IdOf[p]] = ImportedRow(p, g, buf, n, rows)]
  BY <1>1
<1>3. g = 0
  BY <1>2, AppendsInPlace
<1>4. sess'[IdOf[p]] = ImportedRow(p, g, buf, n, rows)
  BY <1>2, SessionAssumption DEF IInv, TypeOK
<1>5. /\ sess'[IdOf[p]].gen = 0 /\ sess'[IdOf[p]].size = pass.size
      /\ sess'[IdOf[p]].fingerprint = buf
  BY <1>3, <1>4 DEF ImportedRow
<1>6. Size(buf) = pass.size /\ Continues(buf, file[p].content)
  BY DEF Grown, CommitImport
<1>7. pc' = "run" /\ file' = file
  BY DEF CommitImport, PassDone
<1>8. (/\ sess[IdOf[p]].gen = 0
       /\ sess[IdOf[p]].size # Null =>
             /\ sess[IdOf[p]].size = Size(sess[IdOf[p]].fingerprint)
             /\ Continues(sess[IdOf[p]].fingerprint, file[p].content))'
  BY <1>5, <1>6, <1>7 DEF Size, Continues
<1> QED
  BY <1>7, <1>8 DEF Grown

LEMMA GrownStep ==
    ASSUME IInv, ConsumedInv, GrownInv, [Next]_vars, NEW p \in Paths, Sole(p),
           ~rewritten'[p]
    PROVE  Grown(p)'
<1>0. IdOf[p] \in Sessions
  BY SessionAssumption
<1>1. ASSUME UNCHANGED rewritten
      PROVE  Grown(p)
  BY <1>1 DEF GrownInv
<1>2. CASE Writer
  BY <1>2, WriterGrown
<1>3. CASE StartRun \/ EndRun \/ Crash
  <2>1. /\ pc' \notin {"open", "commit"} /\ UNCHANGED <<file, sess, rewritten>>
    BY <1>3 DEF StartRun, EndRun, Crash, db
  <2> QED
    BY <1>1, <2>1, QuietGrown DEF SameReading
<1>4. ASSUME NEW q \in Paths, Stat(q) \/ Read(q)
      PROVE  Grown(p)'
  <2>1. UNCHANGED rewritten
    BY <1>4 DEF Stat, Read
  <2> QED
    BY <1>1, <1>4, <2>1, StatGrown, ReadGrown
<1>5. ASSUME NEW q \in Paths, SkipByStat(q) \/ ReadError(q) \/ CommitSkip(q)
      PROVE  Grown(p)'
  <2>1. pc' \notin {"open", "commit"} /\ UNCHANGED <<file, rewritten>>
    BY <1>5 DEF SkipByStat, ReadError, CommitSkip, PassDone
  <2>2. \A r \in Paths : ~CommitImport(r)
    BY <1>5, OneNextFile DEF SkipByStat, ReadError, CommitSkip, CommitImport
  <2>3. SameReading(sess'[IdOf[p]], sess[IdOf[p]])
    BY <1>0, <2>2, QuietRows
  <2> QED
    BY <1>1, <2>1, <2>3, QuietGrown
<1>6. ASSUME NEW q \in Paths, CommitImport(q)
      PROVE  Grown(p)'
  <2>1. pc' \notin {"open", "commit"} /\ UNCHANGED <<file, rewritten>>
    BY <1>6 DEF CommitImport, PassDone
  <2>2. CASE q = p
    BY <1>1, <1>6, <2>1, <2>2, ImportGrown
  <2>3. CASE q # p
    <3>1. IdOf[q] # IdOf[p]
      BY <2>3 DEF Sole
    <3>2. PICK g, rows : \E n \in 0 .. Len(buf.lines) :
             sess' = [sess EXCEPT ![IdOf[q]] = ImportedRow(q, g, buf, n, rows)]
      BY <1>6, ImportConsumes
    <3>3. sess'[IdOf[p]] = sess[IdOf[p]]
      BY <1>0, <3>1, <3>2 DEF IInv, TypeOK
    <3> QED
      BY <1>1, <2>1, <3>3, QuietGrown DEF SameReading
  <2> QED
    BY <2>2, <2>3
<1>7. CASE UNCHANGED vars
  <2>1. UNCHANGED <<sess, proc, rewritten>> /\ file' = file
    BY <1>7 DEF vars, db
  <2> QED
    BY <1>1, <2>1, ContentsOf, ContinuesItself, GrownWrite
<1> QED
  BY <1>2, <1>3, <1>4, <1>5, <1>6, <1>7 DEF Next, Step, Ingest

\* A file that is only ever appended to keeps its generation, however the
\* appends of half lines, stats, reads, runs and crashes come together.
THEOREM AppendsStay == Spec => []AppendOnlyNeverReindexed
<1>1. GrownInv => AppendOnlyNeverReindexed
  BY DEF GrownInv, Grown, AppendOnlyNeverReindexed
<1>2. IInv /\ ConsumedInv /\ [Next]_vars => ConsumedInv'
  BY ConsumedStep
<1>3. IInv /\ ConsumedInv /\ GrownInv /\ [Next]_vars => GrownInv'
  BY GrownStep DEF GrownInv, Sole
<1> QED
  BY <1>1, <1>2, <1>3, ConsumedInit, GrownInit, Invariance, PTL DEF Spec

------------------------------------------------------------------------------
(* Genuine generations. *)

\* A list of lines is the beginning of a version of the session's source.
GenuineLines(s, lines) ==
    \E v \in had[s] \cup {<<>>} : \E n \in 0 .. Len(v) : lines = SubSeq(v, 1, n)

\* What the files hold now is a version of them, and what a pass has read of its
\* file is the beginning of one.
VersionsHad ==
    /\ \A p \in Paths : file[p].content.lines \in had[IdOf[p]] \cup {<<>>}
    /\ pc = "commit" =>
          \A p \in Paths : NextFile(p) => GenuineLines(IdOf[p], buf.lines)

GInv == IInv /\ VersionsHad /\ GenuineGenerations

------------------------------------------------------------------------------
(* Versions. *)

\* A read returns the beginning of what the file holds.
LEMMA ReadBegins ==
    ASSUME NEW c \in Content, NEW size \in Nat
    PROVE  \E n \in 0 .. Len(c.lines) :
              ReadBounded(c, size).lines = SubSeq(c.lines, 1, n)
<1>0. c.lines \in Seq(Line) /\ Len(c.lines) \in Nat
  BY DEF Content
<1>1. CASE size >= Size(c)
  <2>1. ReadBounded(c, size).lines = c.lines
    BY <1>1 DEF ReadBounded
  <2>2. SubSeq(c.lines, 1, Len(c.lines)) = c.lines
    BY <1>0
  <2> QED
    BY <1>0, <2>1, <2>2
<1>2. CASE ~(size >= Size(c))
  <2>1. ReadBounded(c, size).lines = SubSeq(c.lines, 1, size \div 2)
    BY <1>2 DEF ReadBounded
  <2>2. size <= 2 * Len(c.lines)
    <3>1. CASE c.tail = NoLine
      BY <1>0, <1>2, <3>1 DEF Size
    <3>2. CASE c.tail # NoLine
      BY <1>0, <1>2, <3>2 DEF Size
    <3> QED
      BY <3>1, <3>2
  <2>3. size \div 2 \in 0 .. Len(c.lines)
    BY <1>0, <2>2
  <2> QED
    BY <2>1, <2>3
<1> QED
  BY <1>1, <1>2

\* Versions are never forgotten.
LEMMA HadGrows ==
    ASSUME IInv, [Next]_vars
    PROVE  \A s \in Sessions : had[s] \subseteq had'[s]
<1>1. ASSUME NEW p \in Paths, NEW c, Write(p, c)
      PROVE  \A s \in Sessions : had[s] \subseteq had'[s]
  BY <1>1, SessionAssumption DEF Write, IInv, TypeOK
<1>2. CASE Writer
  <2>1. PICK p \in Paths : \/ Create(p) \/ AppendLine(p) \/ StartLine(p)
                           \/ FinishLine(p) \/ Rewrite(p) \/ Vanish(p)
    BY <1>2 DEF Writer
  <2> QED
    BY <1>1, <2>1 DEF Create, AppendLine, StartLine, FinishLine, Rewrite, Vanish
<1>3. CASE ~Writer
  BY <1>3 DEF Next, Step, Ingest, StartRun, EndRun, Crash, SkipByStat, Stat, Read,
              ReadError, CommitSkip, CommitImport, PassDone, vars
<1> QED
  BY <1>2, <1>3

\* A write makes the new content a version.
LEMMA WriterVersions ==
    ASSUME IInv, VersionsHad, Writer
    PROVE  VersionsHad'
<1>1. \A s \in Sessions : had[s] \subseteq had'[s]
  BY HadGrows DEF Next
<1>2. ASSUME NEW p \in Paths, NEW c, Write(p, c)
      PROVE  \A q \in Paths : file'[q].content.lines \in had'[IdOf[q]] \cup {<<>>}
  <2>0. IdOf[p] \in Sessions
    BY SessionAssumption
  <2>1. c.lines \in had'[IdOf[p]]
    BY <1>2, <2>0 DEF Write, IInv, TypeOK
  <2>2. file'[p].content = c
    BY <1>2 DEF Write, IInv, TypeOK
  <2> TAKE q \in Paths
  <2>3. CASE q = p
    BY <2>1, <2>2, <2>3
  <2>4. CASE q # p
    <3>1. file'[q] = file[q]
      BY <1>2, <2>4 DEF Write, IInv, TypeOK
    <3>2. IdOf[q] \in Sessions
      BY SessionAssumption
    <3> QED
      BY <1>1, <3>1, <3>2 DEF VersionsHad
  <2> QED
    BY <2>3, <2>4
<1>3. ASSUME NEW p \in Paths, Vanish(p)
      PROVE  \A q \in Paths : file'[q].content.lines \in had'[IdOf[q]] \cup {<<>>}
  <2> TAKE q \in Paths
  <2>1. file'[q].content = file[q].content /\ had' = had
    BY <1>3 DEF Vanish, IInv, TypeOK
  <2> QED
    BY <2>1 DEF VersionsHad
<1>4. UNCHANGED <<pc, todo, buf>>
  BY DEF Writer, Create, AppendLine, StartLine, FinishLine, Rewrite, Vanish, Write, proc
<1>5. ASSUME pc' = "commit", NEW q \in Paths, NextFile(q)'
      PROVE  GenuineLines(IdOf[q], buf.lines)'
  <2>1. NextFile(q) /\ pc = "commit" /\ IdOf[q] \in Sessions
    BY <1>4, <1>5, SessionAssumption DEF NextFile
  <2>2. GenuineLines(IdOf[q], buf.lines)
    BY <2>1 DEF VersionsHad
  <2> QED
    BY <1>1, <1>4, <2>1, <2>2 DEF GenuineLines
<1>6. \A q \in Paths : file'[q].content.lines \in had'[IdOf[q]] \cup {<<>>}
  <2>1. PICK p \in Paths : \/ Create(p) \/ AppendLine(p) \/ StartLine(p)
                           \/ FinishLine(p) \/ Rewrite(p) \/ Vanish(p)
    BY DEF Writer
  <2> QED
    BY <1>2, <1>3, <2>1 DEF Create, AppendLine, StartLine, FinishLine, Rewrite
<1> QED
  BY <1>5, <1>6 DEF VersionsHad

\* The process reads only what the file holds.
LEMMA ReadVersions ==
    ASSUME IInv, VersionsHad, NEW p \in Paths, Read(p)
    PROVE  VersionsHad'
<1>1. PICK n \in 0 .. Len(file[p].content.lines) :
         buf'.lines = SubSeq(file[p].content.lines, 1, n)
  BY ReadBegins DEF Read, IInv, TypeOK
<1>2. file' = file /\ had' = had /\ todo' = todo
  BY DEF Read
<1>3. file[p].content.lines \in had[IdOf[p]] \cup {<<>>}
  BY DEF VersionsHad
<1>4. GenuineLines(IdOf[p], buf.lines)'
  BY <1>1, <1>2, <1>3 DEF GenuineLines
<1>5. ASSUME NEW q \in Paths, NextFile(q)'
      PROVE  q = p
  <2>1. NextFile(p) /\ NextFile(q)
    BY <1>2, <1>5 DEF NextFile, Read
  <2> QED
    BY <2>1, OneNextFile
<1> QED
  BY <1>2, <1>4, <1>5 DEF VersionsHad

\* No other step changes files or versions, nor enters "commit".
LEMMA OtherVersions ==
    ASSUME VersionsHad, UNCHANGED <<file, had>>, pc' # "commit"
    PROVE  VersionsHad'
  BY DEF VersionsHad

LEMMA VersionsStep ==
    ASSUME IInv, VersionsHad, [Next]_vars
    PROVE  VersionsHad'
<1>1. CASE Writer
  BY <1>1, WriterVersions
<1>2. ASSUME NEW p \in Paths, Read(p)
      PROVE  VersionsHad'
  BY <1>2, ReadVersions
<1>3. CASE StartRun \/ EndRun \/ Crash
  BY <1>3, OtherVersions DEF StartRun, EndRun, Crash
<1>4. ASSUME NEW p \in Paths, Ingest(p), ~Read(p)
      PROVE  VersionsHad'
  BY <1>4, OtherVersions DEF Ingest, SkipByStat, Stat, ReadError, CommitSkip,
                             CommitImport, PassDone
<1>5. CASE UNCHANGED vars
  BY <1>5 DEF vars, proc, VersionsHad, NextFile, GenuineLines
<1> QED
  BY <1>1, <1>2, <1>3, <1>4, <1>5 DEF Next, Step

------------------------------------------------------------------------------
(* Generations. *)

\* A step that is no import leaves the generations as they are.
LEMMA GenerationsKept ==
    ASSUME IInv, [Next]_vars, \A p \in Paths : ~CommitImport(p)
    PROVE  UNCHANGED events /\ \A s \in Sessions : sess'[s].gen = sess[s].gen
<1>1. CASE Writer
  BY <1>1 DEF Writer, Create, AppendLine, StartLine, FinishLine, Rewrite,
              Vanish, Write, db
<1>2. CASE StartRun \/ EndRun \/ Crash
  BY <1>2 DEF StartRun, EndRun, Crash, db
<1>3. ASSUME NEW p \in Paths, NEW r, r.gen = sess[IdOf[p]].gen,
             sess' = [sess EXCEPT ![IdOf[p]] = r]
      PROVE  \A s \in Sessions : sess'[s].gen = sess[s].gen
  BY <1>3, SessionAssumption DEF IInv, TypeOK
<1>4. ASSUME NEW p \in Paths
      PROVE  sess[IdOf[p]] \in Row
  BY SessionAssumption DEF IInv, TypeOK
<1>5. ASSUME NEW p \in Paths, SkipByStat(p)
      PROVE  UNCHANGED events /\ \A s \in Sessions : sess'[s].gen = sess[s].gen
  <2>1. LinkedRow(sess[IdOf[p]], p).gen = sess[IdOf[p]].gen
    BY <1>4, LinkedRowOK DEF KeepsEvents
  <2>2. sess' = [sess EXCEPT ![IdOf[p]] = LinkedRow(sess[IdOf[p]], p)]
    BY <1>5, SessionAssumption DEF SkipByStat, IInv, TypeOK
  <2> QED
    BY <1>3, <1>5, <2>1, <2>2 DEF SkipByStat
<1>6. ASSUME NEW p \in Paths, ReadError(p)
      PROVE  UNCHANGED events /\ \A s \in Sessions : sess'[s].gen = sess[s].gen
  <2>1. RowFor(p).gen = sess[IdOf[p]].gen
    BY RowForOK
  <2> QED
    BY <1>3, <1>6, <2>1 DEF ReadError
<1>7. ASSUME NEW p \in Paths, CommitSkip(p)
      PROVE  UNCHANGED events /\ \A s \in Sessions : sess'[s].gen = sess[s].gen
  <2>1. RowFor(p).gen = sess[IdOf[p]].gen /\ RowFor(p) \in Row
    BY RowForOK
  <2>2. CheckedRow(RowFor(p), p).gen = sess[IdOf[p]].gen
    BY <2>1, CheckedRowOK DEF KeepsEvents
  <2> QED
    BY <1>3, <1>7, <2>2 DEF CommitSkip
<1>8. ASSUME NEW p \in Paths, Stat(p) \/ Read(p)
      PROVE  UNCHANGED events /\ \A s \in Sessions : sess'[s].gen = sess[s].gen
  BY <1>8 DEF Stat, Read, db
<1>9. CASE UNCHANGED vars
  BY <1>9 DEF vars, db
<1> QED
  BY <1>1, <1>2, <1>5, <1>6, <1>7, <1>8, <1>9 DEF Next, Step, Ingest

\* The beginning of a list is the same in the list and in its own beginnings.
LEMMA HoldsBeginning ==
    ASSUME NEW rows, NEW g, NEW v \in Seq(Line), NEW n \in 0 .. Len(v),
           NEW m \in 0 .. n, Holds(rows, g, SubSeq(v, 1, n), m)
    PROVE  Holds(rows, g, v, m)
<1>1. ASSUME NEW q \in 0 .. m - 1
      PROVE  SubSeq(v, 1, n)[q + 1] = v[q + 1]
  <2>1. q + 1 \in 1 .. n /\ Len(v) \in Nat
    OBVIOUS
  <2> QED
    BY <2>1
<1> QED
  BY <1>1 DEF Holds

\* What an import makes of its generation, and of the earlier ones.
LEMMA ImportGenuine ==
    ASSUME GInv, NEW p \in Paths, CommitImport(p),
           NEW g, NEW n, NEW rows, ImportResult(p, g, n, rows)
    PROVE  /\ \E v \in had[IdOf[p]] \cup {<<>>} : \E m \in 0 .. Len(v) :
                 Holds(rows, g, v, m)
           /\ \A h \in 0 .. g - 1 : \E v \in had[IdOf[p]] \cup {<<>>} :
                 \E m \in 0 .. Len(v) : Holds(rows, h, v, m)
<1> DEFINE s == IdOf[p]
<1>0. s \in Sessions /\ sess[s].gen \in Nat /\ buf.lines \in Seq(Line)
      /\ had[s] \subseteq Seq(Line)
  BY SessionAssumption DEF GInv, IInv, TypeOK, Row, Content
<1>1. \E v \in had[s] \cup {<<>>} : \E m \in 0 .. Len(v) : Holds(rows, g, v, m)
  <2> PICK v \in had[s] \cup {<<>>} : \E m \in 0 .. Len(v) : buf.lines = SubSeq(v, 1, m)
    BY DEF CommitImport, GInv, VersionsHad, GenuineLines
  <2>1. PICK m \in 0 .. Len(v) : buf.lines = SubSeq(v, 1, m)
    OBVIOUS
  <2>2. v \in Seq(Line) /\ Len(v) \in Nat
    BY <1>0
  <2>3. Len(buf.lines) = m
    BY <2>1, <2>2
  <2>4. Holds(rows, g, buf.lines, n) /\ n \in 0 .. m
    BY <2>3 DEF ImportResult
  <2>5. Holds(rows, g, v, n)
    BY <2>1, <2>2, <2>4, HoldsBeginning
  <2> QED
    BY <2>2, <2>4, <2>5
<1>2. ASSUME NEW h \in 0 .. g - 1
      PROVE  \E v \in had[s] \cup {<<>>} : \E m \in 0 .. Len(v) : Holds(rows, h, v, m)
  <2>1. h \in 0 .. sess[s].gen /\ h # g
    BY <1>0 DEF ImportResult
  <2> PICK v \in had[s] \cup {<<>>} : \E m \in 0 .. Len(v) : Holds(events[s], h, v, m)
    BY <1>0, <2>1 DEF GInv, GenuineGenerations
  <2>2. PICK m \in 0 .. Len(v) : Holds(events[s], h, v, m)
    OBVIOUS
  <2>3. GenerationKeys(rows, h) = GenerationKeys(events[s], h)
    BY <2>1 DEF ImportResult, GenerationKeys
  <2>4. ASSUME NEW q \in 0 .. m - 1
        PROVE  rows[<<h, q>>] = events[s][<<h, q>>]
    <3>1. <<h, q>> \in {h} \X (0 .. m - 1)
      OBVIOUS
    <3>2. <<h, q>> \in DOMAIN events[s]
      BY <2>2, <3>1 DEF Holds, GenerationKeys
    <3> QED
      BY <3>2 DEF ImportResult
  <2> QED
    BY <2>2, <2>3, <2>4 DEF Holds
<1> QED
  BY <1>1, <1>2

LEMMA GenuineStep ==
    ASSUME GInv, [Next]_vars
    PROVE  GenuineGenerations'
<1>0. \A s \in Sessions : had[s] \subseteq had'[s]
  BY HadGrows DEF GInv
<1>1. CASE \A p \in Paths : ~CommitImport(p)
  <2>1. UNCHANGED events /\ \A s \in Sessions : sess'[s].gen = sess[s].gen
    BY <1>1, GenerationsKept DEF GInv
  <2> QED
    BY <1>0, <2>1 DEF GInv, GenuineGenerations
<1>2. ASSUME NEW p \in Paths, CommitImport(p)
      PROVE  GenuineGenerations'
  <2> PICK g, n, rows : ImportResult(p, g, n, rows)
    BY <1>2, CommitImportResult DEF GInv
  <2>1. IdOf[p] \in Sessions /\ g \in Nat
    BY SessionAssumption DEF ImportResult
  <2>2. /\ events'[IdOf[p]] = rows /\ sess'[IdOf[p]].gen = g
        /\ \A s \in Sessions : s # IdOf[p] =>
              events'[s] = events[s] /\ sess'[s].gen = sess[s].gen
    BY <2>1 DEF ImportResult, ImportedRow, GInv, IInv, TypeOK
  <2> SUFFICES ASSUME NEW s \in Sessions, NEW h \in 0 .. sess'[s].gen
               PROVE  \E v \in had'[s] \cup {<<>>} : \E m \in 0 .. Len(v) :
                         Holds(events'[s], h, v, m)
    BY DEF GenuineGenerations
  <2>3. CASE s # IdOf[p]
    BY <1>0, <2>2, <2>3 DEF GInv, GenuineGenerations
  <2>4. CASE s = IdOf[p]
    <3>1. h \in 0 .. g - 1 \/ h = g
      BY <2>1, <2>2, <2>4
    <3> QED
      BY <1>0, <1>2, <2>2, <2>4, <3>1, ImportGenuine
  <2> QED
    BY <2>3, <2>4
<1> QED
  BY <1>1, <1>2

LEMMA GenuineInit == Init => GInv
<1> SUFFICES ASSUME Init PROVE GInv
  OBVIOUS
<1>1. IInv
  BY InitInvariant
<1>2. VersionsHad
  BY DEF Init, VersionsHad, Empty
<1>3. Holds(<< >>, 0, <<>>, 0)
  <2>1. GenerationKeys(<< >>, 0) = {}
    BY DEF GenerationKeys
  <2> QED
    BY <2>1 DEF Holds
<1>4. GenuineGenerations
  <2> SUFFICES ASSUME NEW s \in Sessions, NEW g \in 0 .. sess[s].gen
               PROVE  \E v \in had[s] \cup {<<>>} : \E n \in 0 .. Len(v) :
                         Holds(events[s], g, v, n)
    BY DEF GenuineGenerations
  <2>1. g = 0 /\ events[s] = << >> /\ had[s] = {}
    BY DEF Init, Unset
  <2> QED
    BY <1>3, <2>1
<1> QED
  BY <1>1, <1>2, <1>4 DEF GInv

------------------------------------------------------------------------------
(* Refinement: the tables implement Journal. *)

\* The view reads a generation as the lines it holds.
LEMMA ViewOfGeneration ==
    ASSUME NEW rows, NEW g \in Nat, NEW v \in Seq(Line), NEW n \in 0 .. Len(v),
           Holds(rows, g, v, n)
    PROVE  [i \in 1 .. Cardinality(GenerationKeys(rows, g)) |-> rows[<<g, i - 1>>]]
              = SubSeq(v, 1, n)
<1>0. Len(v) \in Nat /\ n \in Nat /\ n <= Len(v)
  OBVIOUS
<1>1. Cardinality(GenerationKeys(rows, g)) = n
  BY <1>0, GenerationCardinality DEF Holds
<1>2. ASSUME NEW i \in 1 .. n
      PROVE  rows[<<g, i - 1>>] = v[i]
  <2>1. i - 1 \in 0 .. n - 1 /\ i = (i - 1) + 1
    BY <1>0
  <2> QED
    BY <2>1 DEF Holds
<1>3. SubSeq(v, 1, n) = [i \in 1 .. n |-> v[i]]
  BY <1>0
<1> QED
  BY <1>1, <1>2, <1>3

\* Nothing preserved, nothing seen: the abstract journal's initial state.
LEMMA RefinedInit == Init => AbstractJournal!Init
<1> SUFFICES ASSUME Init PROVE AbstractJournal!Init
  OBVIOUS
<1>1. ASSUME NEW s \in Sessions
      PROVE  GenerationLines(s, 0) = <<>>
  <2>1. Holds(events[s], 0, <<>>, 0)
    BY DEF Init, Holds, GenerationKeys
  <2>2. <<>> \in Seq(Line) /\ 0 \in 0 .. Len(<<>>) /\ SubSeq(<<>>, 1, 0) = <<>>
    OBVIOUS
  <2> QED
    BY <2>1, <2>2, ViewOfGeneration DEF GenerationLines
<1>2. ASSUME NEW s \in Sessions
      PROVE  JournalView[s] = << <<>> >>
  <2>1. sess[s].gen = 0
    BY DEF Init, Unset
  <2>2. JournalView[s] = [i \in 1 .. 1 |-> GenerationLines(s, i - 1)]
    BY <2>1 DEF JournalView
  <2> QED
    BY <1>1, <2>2
<1>3. JournalView = [s \in Sessions |-> << <<>> >>]
  BY <1>2 DEF JournalView
<1> QED
  BY <1>3 DEF Init, AbstractJournal!Init

\* A step that is no import changes at most the versions of one session.
LEMMA SourceStep ==
    ASSUME GInv, [Next]_vars, \A p \in Paths : ~CommitImport(p)
    PROVE  [AbstractJournal!Next]_<<had, JournalView>>
<1>1. UNCHANGED JournalView
  <2>1. events' = events /\ \A s \in Sessions : sess'[s].gen = sess[s].gen
    BY GenerationsKept DEF GInv
  <2> QED
    BY <2>1 DEF JournalView, GenerationLines
<1>2. ASSUME NEW p \in Paths, NEW c, Write(p, c)
      PROVE  AbstractJournal!Next
  <2>1. IdOf[p] \in Sessions
    BY SessionAssumption
  <2>2. /\ had[IdOf[p]] \subseteq had'[IdOf[p]]
        /\ \A t \in Sessions \ {IdOf[p]} : had'[t] = had[t]
    BY <1>2, <2>1 DEF Write, GInv, IInv, TypeOK
  <2>3. AbstractJournal!SourceChanges(IdOf[p])
    BY <1>1, <2>2 DEF AbstractJournal!SourceChanges
  <2> QED
    BY <2>1, <2>3 DEF AbstractJournal!Next
<1>3. CASE Writer
  <2>1. PICK p \in Paths : \/ Create(p) \/ AppendLine(p) \/ StartLine(p)
                           \/ FinishLine(p) \/ Rewrite(p) \/ Vanish(p)
    BY <1>3 DEF Writer
  <2>2. CASE Vanish(p)
    BY <1>1, <2>2 DEF Vanish
  <2> QED
    BY <1>2, <2>1, <2>2 DEF Create, AppendLine, StartLine, FinishLine, Rewrite
<1>4. CASE ~Writer
  <2>1. UNCHANGED had
    BY <1>4 DEF Next, Step, Ingest, StartRun, EndRun, Crash, SkipByStat, Stat, Read,
                ReadError, CommitSkip, CommitImport, PassDone, vars
  <2> QED
    BY <1>1, <2>1
<1> QED
  BY <1>3, <1>4

\* What an import does to the view: the generations below g stay, and g becomes
\* the n lines of buf.
LEMMA ImportView ==
    ASSUME GInv, NEW p \in Paths, CommitImport(p),
           NEW g, NEW n, NEW rows, ImportResult(p, g, n, rows)
    PROVE  LET s == IdOf[p] IN
           /\ JournalView'[s] = [i \in 1 .. g + 1 |-> GenerationLines(s, i - 1)']
           /\ GenerationLines(s, g)' = SubSeq(buf.lines, 1, n)
           /\ \A h \in 0 .. g - 1 : GenerationLines(s, h)' = GenerationLines(s, h)
           /\ \A t \in Sessions : t # s => JournalView'[t] = JournalView[t]
<1> DEFINE s == IdOf[p]
<1>0. /\ s \in Sessions /\ sess[s].gen \in Nat /\ g \in Nat
      /\ buf.lines \in Seq(Line) /\ Len(buf.lines) \in Nat
      /\ had[s] \subseteq Seq(Line)
  BY SessionAssumption DEF GInv, IInv, TypeOK, Row, Content, ImportResult
<1>1. /\ events'[s] = rows /\ sess'[s].gen = g
      /\ \A t \in Sessions : t # s => events'[t] = events[t] /\ sess'[t] = sess[t]
  BY <1>0 DEF ImportResult, ImportedRow, GInv, IInv, TypeOK
<1>2. JournalView'[s] = [i \in 1 .. g + 1 |-> GenerationLines(s, i - 1)']
  BY <1>0, <1>1 DEF JournalView
<1>3. GenerationLines(s, g)' = SubSeq(buf.lines, 1, n)
  <2>1. Holds(rows, g, buf.lines, n) /\ n \in 0 .. Len(buf.lines)
    BY DEF ImportResult
  <2> QED
    BY <1>0, <1>1, <2>1, ViewOfGeneration DEF GenerationLines
<1>4. ASSUME NEW h \in 0 .. g - 1
      PROVE  GenerationLines(s, h)' = GenerationLines(s, h)
  <2>1. h \in 0 .. sess[s].gen /\ h # g /\ h \in Nat
    BY <1>0 DEF ImportResult
  <2> PICK v \in had[s] \cup {<<>>} : \E m \in 0 .. Len(v) : Holds(events[s], h, v, m)
    BY <1>0, <2>1 DEF GInv, GenuineGenerations
  <2>2. PICK m \in 0 .. Len(v) : Holds(events[s], h, v, m)
    OBVIOUS
  <2>3. v \in Seq(Line)
    <3>1. <<>> \in Seq(Line)
      OBVIOUS
    <3> HIDE DEF s
    <3> QED
      BY <1>0, <3>1
  <2>4. GenerationKeys(rows, h) = GenerationKeys(events[s], h)
    BY <2>1 DEF ImportResult, GenerationKeys
  <2>5. ASSUME NEW q \in 0 .. m - 1
        PROVE  rows[<<h, q>>] = events[s][<<h, q>>]
    <3>1. <<h, q>> \in {h} \X (0 .. m - 1)
      OBVIOUS
    <3>2. <<h, q>> \in DOMAIN events[s]
      BY <2>2, <3>1 DEF Holds, GenerationKeys
    <3> QED
      BY <3>2 DEF ImportResult
  <2>6. Holds(rows, h, v, m)
    BY <2>2, <2>4, <2>5 DEF Holds
  <2>7. GenerationLines(s, h) = SubSeq(v, 1, m)
    BY <2>1, <2>2, <2>3, ViewOfGeneration DEF GenerationLines
  <2>8. GenerationLines(s, h)' = SubSeq(v, 1, m)
    BY <1>1, <2>1, <2>3, <2>6, ViewOfGeneration DEF GenerationLines
  <2> QED
    BY <2>7, <2>8
<1>5. ASSUME NEW t \in Sessions, t # s
      PROVE  JournalView'[t] = JournalView[t]
  BY <1>1, <1>5 DEF JournalView, GenerationLines
<1> QED
  BY <1>2, <1>3, <1>4, <1>5

\* The lines an import leaves in its generation are the beginning of a version.
LEMMA ImportedLinesGenuine ==
    ASSUME GInv, NEW p \in Paths, CommitImport(p), NEW n \in 0 .. Len(buf.lines)
    PROVE  AbstractJournal!Genuine(IdOf[p], SubSeq(buf.lines, 1, n))
<1> DEFINE s == IdOf[p]
<1>0. s \in Sessions /\ buf.lines \in Seq(Line) /\ had[s] \subseteq Seq(Line)
  BY SessionAssumption DEF GInv, IInv, TypeOK, Content
<1> PICK v \in had[s] \cup {<<>>} : \E m \in 0 .. Len(v) : buf.lines = SubSeq(v, 1, m)
  BY DEF CommitImport, GInv, VersionsHad, GenuineLines
<1>1. PICK m \in 0 .. Len(v) : buf.lines = SubSeq(v, 1, m)
  OBVIOUS
<1>2. v \in Seq(Line) /\ Len(v) \in Nat
  <2>1. <<>> \in Seq(Line)
    OBVIOUS
  <2> HIDE DEF s
  <2> QED
    BY <1>0, <2>1
<1>3. m \in Nat /\ m <= Len(v) /\ Len(buf.lines) = m /\ n \in Nat /\ n <= m
  BY <1>1, <1>2
<1>4. SubSeq(buf.lines, 1, n) = SubSeq(v, 1, n) /\ Len(SubSeq(v, 1, n)) = n
  BY <1>1, <1>2, <1>3
<1>5. CASE v \in had[s]
  BY <1>2, <1>3, <1>4, <1>5 DEF AbstractJournal!Genuine, AbstractJournal!Begins
<1>6. CASE v = <<>>
  <2>1. n = 0
    BY <1>3, <1>6
  <2> QED
    BY <1>0, <2>1 DEF AbstractJournal!Genuine
<1> QED
  BY <1>5, <1>6

\* An import into the current generation keeps the lines it held in front.
LEMMA ImportExtends ==
    ASSUME GInv, NEW p \in Paths, NEW n, NEW rows,
           ImportResult(p, sess[IdOf[p]].gen, n, rows)
    PROVE  AbstractJournal!Begins(GenerationLines(IdOf[p], sess[IdOf[p]].gen),
                                  SubSeq(buf.lines, 1, n))
<1> DEFINE s == IdOf[p]
           old == sess[s].prefix
           m == sess[s].nro
           g == sess[s].gen
<1>1. /\ s \in Sessions /\ sess[s].gen \in Nat /\ m \in Nat /\ old \in Seq(Line)
      /\ buf.lines \in Seq(Line) /\ Len(buf.lines) \in Nat
  BY SessionAssumption DEF GInv, IInv, TypeOK, Row, Content
<1>2. Holds(events[s], g, old, m) /\ m = Len(old)
  BY <1>1 DEF GInv, IInv, PreservedPrefix, RowPreserved
<1>3. /\ Holds(rows, g, buf.lines, n) /\ n \in 0 .. Len(buf.lines)
      /\ \A k \in DOMAIN events[s] : k \in DOMAIN rows /\ rows[k] = events[s][k]
  BY DEF ImportResult
<1> HIDE DEF s, old, m, g
<1>4. GenerationLines(s, g) = old
  <2>1. SubSeq(old, 1, m) = old /\ m \in 0 .. Len(old) /\ g \in Nat
    BY <1>1, <1>2 DEF g
  <2> QED
    BY <1>1, <1>2, <2>1, ViewOfGeneration DEF GenerationLines
<1>5. ASSUME NEW q \in 0 .. m - 1
      PROVE  q \in 0 .. n - 1 /\ old[q + 1] = buf.lines[q + 1]
  <2>1. <<g, q>> \in {g} \X (0 .. m - 1)
    OBVIOUS
  <2>2. <<g, q>> \in DOMAIN events[s] /\ events[s][<<g, q>>] = old[q + 1]
    BY <1>2, <2>1 DEF Holds, GenerationKeys
  <2>3. <<g, q>> \in DOMAIN rows /\ rows[<<g, q>>] = old[q + 1]
    BY <1>3, <2>2
  <2>4. <<g, q>> \in GenerationKeys(rows, g)
    BY <2>3 DEF GenerationKeys
  <2>5. <<g, q>> \in {g} \X (0 .. n - 1)
    BY <1>3, <2>4 DEF Holds
  <2>6. q \in 0 .. n - 1
    BY <2>5
  <2> QED
    BY <1>3, <2>3, <2>6 DEF Holds
<1>6. m <= n
  <2>1. CASE m = 0
    BY <1>1, <1>3, <2>1
  <2>2. CASE m # 0
    <3>1. m - 1 \in 0 .. m - 1
      BY <1>1, <2>2
    <3>2. m - 1 \in 0 .. n - 1
      BY <1>5, <3>1
    <3> QED
      BY <1>1, <1>3, <3>2
  <2> QED
    BY <2>1, <2>2
<1>7. ASSUME NEW i \in 1 .. m
      PROVE  old[i] = buf.lines[i]
  <2>1. i - 1 \in 0 .. m - 1 /\ i = (i - 1) + 1
    BY <1>1
  <2> QED
    BY <1>5, <2>1
<1>8. SubSeq(SubSeq(buf.lines, 1, n), 1, m) = old /\ m <= Len(SubSeq(buf.lines, 1, n))
  BY <1>1, <1>2, <1>3, <1>6, <1>7
<1> QED
  BY <1>2, <1>4, <1>8 DEF AbstractJournal!Begins, s, g

\* An import extends the last generation or opens a new one.
LEMMA ImportRefines ==
    ASSUME GInv, NEW p \in Paths, CommitImport(p)
    PROVE  AbstractJournal!Next
<1> PICK g, n, rows : ImportResult(p, g, n, rows)
  BY CommitImportResult DEF GInv
<1> DEFINE s == IdOf[p]
           lines == SubSeq(buf.lines, 1, n)
           old == JournalView
           top == sess[s].gen
<1>1. /\ s \in Sessions /\ top \in Nat /\ g \in Nat /\ n \in 0 .. Len(buf.lines)
      /\ g = top \/ g = top + 1
  BY SessionAssumption DEF GInv, IInv, TypeOK, Row, ImportResult
<1>2. UNCHANGED had
  BY DEF CommitImport, PassDone
<1>3. /\ JournalView'[s] = [i \in 1 .. g + 1 |-> GenerationLines(s, i - 1)']
      /\ GenerationLines(s, g)' = lines
      /\ \A h \in 0 .. g - 1 : GenerationLines(s, h)' = GenerationLines(s, h)
      /\ \A t \in Sessions : t # s => JournalView'[t] = JournalView[t]
  BY ImportView
<1>4. /\ old[s] = [i \in 1 .. top + 1 |-> GenerationLines(s, i - 1)]
      /\ old = [t \in Sessions |-> old[t]]
  BY <1>1 DEF JournalView
<1>5. JournalView' = [t \in Sessions |-> JournalView'[t]]
  BY DEF JournalView
<1>6. AbstractJournal!Genuine(s, lines)
  BY <1>1, ImportedLinesGenuine
<1>7. JournalView'[s][g + 1] = lines /\ Len(JournalView'[s]) = g + 1
  BY <1>1, <1>3
<1>8. ASSUME NEW i \in 1 .. g
      PROVE  JournalView'[s][i] = old[s][i]
  <2>1. i - 1 \in 0 .. g - 1 /\ i \in 1 .. g + 1 /\ i \in 1 .. top + 1
    BY <1>1
  <2>2. GenerationLines(s, i - 1)' = GenerationLines(s, i - 1)
    BY <1>3, <2>1
  <2>3. JournalView'[s][i] = GenerationLines(s, i - 1)'
    BY <1>3, <2>1
  <2>4. old[s][i] = GenerationLines(s, i - 1)
    BY <1>4, <2>1
  <2> QED
    BY <2>2, <2>3, <2>4
<1>9. Len(old[s]) = top + 1
  BY <1>1, <1>4
<1>10. AbstractJournal!Begins(GenerationLines(s, top), lines) \/ g # top
  BY <1>1, ImportExtends
<1>11. old[s][top + 1] = GenerationLines(s, top)
  BY <1>1, <1>4
<1>12. /\ DOMAIN JournalView'[s] = 1 .. g + 1 /\ DOMAIN old[s] = 1 .. top + 1
       /\ JournalView'[s] = [i \in 1 .. g + 1 |-> JournalView'[s][i]]
       /\ old[s] = [i \in 1 .. top + 1 |-> old[s][i]]
  BY <1>3, <1>4
<1> DEFINE new == JournalView'
<1> HIDE DEF s, lines, old, new, top
<1>13. /\ new = [t \in Sessions |-> new[t]]
       /\ \A t \in Sessions : t # s => new[t] = old[t]
       /\ new[s][g + 1] = lines /\ Len(new[s]) = g + 1
       /\ \A i \in 1 .. g : new[s][i] = old[s][i]
       /\ DOMAIN new[s] = 1 .. g + 1
       /\ new[s] = [i \in 1 .. g + 1 |-> new[s][i]]
  BY <1>3, <1>5, <1>7, <1>8, <1>12 DEF new, old
<1>14. CASE g = top
  <2>1. [old[s] EXCEPT ![g + 1] = new[s][g + 1]] = new[s]
    <3>1. ASSUME NEW i \in 1 .. g + 1
          PROVE  [old[s] EXCEPT ![g + 1] = new[s][g + 1]][i] = new[s][i]
      <4>1. i \in DOMAIN old[s] /\ (i # g + 1 => i \in 1 .. g)
        BY <1>1, <1>12, <1>14
      <4>2. i # g + 1 => new[s][i] = old[s][i]
        BY <1>13, <4>1
      <4> QED
        BY <4>1, <4>2
    <3>2. DOMAIN [old[s] EXCEPT ![g + 1] = new[s][g + 1]] = 1 .. g + 1
      BY <1>12, <1>14
    <3>3. [old[s] EXCEPT ![g + 1] = new[s][g + 1]]
             = [i \in 1 .. g + 1 |-> [old[s] EXCEPT ![g + 1] = new[s][g + 1]][i]]
      BY <3>2
    <3> QED
      BY <1>13, <3>1, <3>3
  <2>2. new = [old EXCEPT ![s][g + 1] = new[s][g + 1]]
    BY <1>1, <1>4, <1>13, <2>1
  <2>3. AbstractJournal!Begins(old[s][g + 1], new[s][g + 1])
    BY <1>10, <1>11, <1>13, <1>14
  <2>4. AbstractJournal!Extend(s)
    BY <1>2, <1>6, <1>9, <1>13, <1>14, <2>2, <2>3 DEF AbstractJournal!Extend, new, old
  <2> QED
    BY <1>1, <2>4 DEF AbstractJournal!Next
<1>15. CASE g = top + 1
  <2>1. old[s] \in Seq({old[s][i] : i \in 1 .. top + 1})
    BY <1>1, <1>12
  <2>2. Append(old[s], new[s][g + 1]) = new[s]
    BY <1>1, <1>9, <1>12, <1>13, <1>15, <2>1
  <2>3. new = [old EXCEPT ![s] = Append(@, new[s][g + 1])]
    BY <1>1, <1>4, <1>13, <2>2
  <2>4. AbstractJournal!Supersede(s)
    BY <1>2, <1>6, <1>9, <1>13, <1>15, <2>3 DEF AbstractJournal!Supersede, new, old
  <2> QED
    BY <1>1, <2>4 DEF AbstractJournal!Next
<1> QED
  BY <1>1, <1>14, <1>15

------------------------------------------------------------------------------
(* Theorems. *)

LEMMA GInvariance == Spec => []GInv
<1>1. Init => GInv
  BY GenuineInit
<1>2. GInv /\ [Next]_vars => GInv'
  BY NextInvariant, VersionsStep, GenuineStep DEF GInv
<1> QED
  BY <1>1, <1>2, PTL DEF Spec

\* In every behaviour each generation is the beginning of one version that a
\* file of the session really had: no interleaving of writers, stats, reads,
\* imports and crashes splices two versions or leaves a line out.
THEOREM GenerationsAreGenuine == Spec => []GenuineGenerations
<1>1. GInv => GenuineGenerations
  BY DEF GInv
<1> QED
  BY <1>1, GInvariance, PTL

\* The tables implement the journal: whatever writers, runs and crashes do, each
\* step of ingest extends the last generation of one session at its end, or opens
\* a new one, and never touches an earlier generation.
THEOREM JournalImplemented == Spec => ImplementsJournal
<1>1. Init => AbstractJournal!Init
  BY RefinedInit
<1>2. GInv /\ [Next]_vars => [AbstractJournal!Next]_<<had, JournalView>>
  <2> SUFFICES ASSUME GInv, [Next]_vars
               PROVE  [AbstractJournal!Next]_<<had, JournalView>>
    OBVIOUS
  <2>1. CASE \A p \in Paths : ~CommitImport(p)
    BY <2>1, SourceStep
  <2>2. CASE ~(\A p \in Paths : ~CommitImport(p))
    BY <2>2, ImportRefines
  <2> QED
    BY <2>1, <2>2
<1> QED
  BY <1>1, <1>2, GInvariance, PTL DEF Spec, ImplementsJournal, AbstractJournal!Spec
==============================================================================
