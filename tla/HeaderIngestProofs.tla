------------------------- MODULE HeaderIngestProofs -------------------------
(* Proofs about HeaderIngest, for all files, ids, sources and bounds. *)
EXTENDS HeaderIngest, TLAPS

Sizes == {Size(c) : c \in Content}

Row == [path : Paths, gens : Seq(Generation), size : {None} \cup Nat,
        mtime : {None} \cup Nat, fingerprint : Content]

\* A row without a size has never been imported.
GoodRow ==
    {row \in Row : /\ (row.size = None) = (row.mtime = None)
                   /\ row.size = None => row.gens = <<Empty>>}

\* TypeOK and what it leaves out: rows without a size are fresh, a size is that
\* of some content, and a pass that reads has identified its file.
WorldOK ==
    /\ kind \in Kinds /\ clock \in 0 .. MaxWrites /\ crashes \in 0 .. MaxCrashes
    /\ file \in [Paths -> [present : BOOLEAN, content : Content, mtime : 0 .. MaxWrites]]

SessOK == DOMAIN sess \subseteq Ids /\ sess \in [DOMAIN sess -> GoodRow]

ProcOK ==
    /\ errors \subseteq Paths /\ todo \subseteq Paths /\ retry \subseteq Paths
    /\ mixed \subseteq Ids \cup Paths
    /\ pc \in {"idle", "run", "identify", "read", "commit"}
    /\ pass \in [size : Nat, mtime : Nat, id : Ids \cup {NoId}, buf : Content,
                 changed : {"no", "identify", "read"}]
    /\ pass.size \in Sizes
    /\ pc \in {"read", "commit"} => pass.id \in Ids

TypeInv == WorldOK /\ SessOK /\ ProcOK

\* A pass that is about to read will find the file it identified, or does not
\* get to read it: it is skipped, empty, or in the buffer already.
ReadsItsOwn ==
    pc = "read" =>
        \/ pass.id \in DOMAIN sess /\ Unchanged(sess[pass.id])
        \/ kind = "gemini" /\ pass.buf.head = pass.id
        \/ /\ kind # "gemini"
           /\ \/ pass.size = 0 \/ pass.changed = "read"
              \/ \A p \in todo : NextFile(p) /\ file[p].present => Names(p, pass.id)

CommitsItsOwn ==
    pc = "commit" /\ pass.buf.lines > 0 =>
        pass.buf.head = pass.id \/ (kind # "gemini" /\ pass.changed = "read")

IInv == TypeInv /\ ReadsItsOwn /\ CommitsItsOwn /\ LinesAreItsOwn

------------------------------------------------------------------------------
(* Content and rows. *)

LEMMA ContentForms ==
    /\ Empty = [head |-> NoId, lines |-> 0, half |-> 0]
    /\ HalfHeader = [head |-> NoId, lines |-> 0, half |-> 1]
    /\ BadHeader = [head |-> NoId, lines |-> 1, half |-> 0]
<1>1. Empty = [head |-> NoId, lines |-> 0, half |-> 0]
  BY DEF Empty
<1>2. HalfHeader = [head |-> NoId, lines |-> 0, half |-> 1]
  BY <1>1 DEF HalfHeader
<1>3. BadHeader = [head |-> NoId, lines |-> 1, half |-> 0]
  BY <1>1 DEF BadHeader
<1> QED
  BY <1>1, <1>2, <1>3

WithHeader == [head : Heads, lines : 1 .. MaxBody + 1, half : {0}]

LEMMA HeaderType ==
    ASSUME NEW c \in WithHeader
    PROVE  /\ c.head \in Heads /\ c.head # NoId /\ c.half = 0
           /\ c.lines \in 1 .. MaxBody + 1 /\ c.lines \in Nat
           /\ c = [head |-> c.head, lines |-> c.lines, half |-> 0]
<1>1. c.head \in Heads /\ c.half = 0 /\ c.lines \in 1 .. MaxBody + 1
      /\ c = [head |-> c.head, lines |-> c.lines, half |-> 0]
  BY DEF WithHeader
<1> QED
  BY <1>1, BoundAssumption, PathAssumption DEF Ids

LEMMA ContentCases ==
    ASSUME NEW c \in Content
    PROVE  c = Empty \/ c = HalfHeader \/ c = BadHeader \/ c \in WithHeader
BY DEF Content, WithHeader

LEMMA ContentType ==
    ASSUME NEW c \in Content
    PROVE  /\ c.head \in Heads \cup {NoId} /\ c.lines \in Nat /\ c.half \in {0, 1}
           /\ Size(c) \in Nat
           /\ Lines(c) \in Generation
           /\ Lines(c).lines = c.lines /\ Lines(c).head = c.head
           /\ c = [head |-> c.head, lines |-> c.lines, half |-> c.half]
<1>1. c.head \in Heads \cup {NoId} /\ c.lines \in Nat /\ c.half \in {0, 1}
      /\ c = [head |-> c.head, lines |-> c.lines, half |-> c.half]
  BY ContentForms, ContentCases, HeaderType
<1>2. Size(c) \in Nat
  BY <1>1 DEF Size
<1>3. Lines(c) \in Generation
  BY DEF Generation
<1>4. Lines(c).lines = c.lines /\ Lines(c).head = c.head
  BY <1>1 DEF Lines
<1> QED
  BY <1>1, <1>2, <1>3, <1>4

LEMMA EmptyType == Empty \in Content /\ Empty \in Generation /\ Size(Empty) = 0
<1>1. Empty \in Content
  BY DEF Content
<1>2. Lines(Empty) = Empty
  BY ContentForms DEF Lines
<1>3. Size(Empty) = 0
  BY ContentForms DEF Size
<1> QED
  BY <1>1, <1>2, <1>3 DEF Generation

LEMMA GenerationType ==
    ASSUME NEW g \in Generation
    PROVE  g.lines \in Nat /\ g.head \in Heads \cup {NoId}
BY ContentType DEF Generation

\* What is read of a file within the size of another is the beginning of it.
LEMMA CutType ==
    ASSUME NEW c \in Content, NEW s \in Sizes
    PROVE  /\ Cut(c, s) \in Content
           /\ s = 0 => Cut(c, s).lines = 0
           /\ Cut(c, s).lines > 0 => Cut(c, s).head = c.head
<1>1. PICK d \in Content : s = Size(d)
  BY DEF Sizes
<1>2. s \in Nat
  BY <1>1, ContentType
<1>3. CASE Size(c) <= s
  <2>1. Cut(c, s) = c
    BY <1>3 DEF Cut
  <2>2. s = 0 => c.lines = 0
    BY <1>2, <1>3, ContentType DEF Size
  <2> QED
    BY <2>1, <2>2
<1>4. CASE ~(Size(c) <= s)
  <2> DEFINE r == [head |-> IF s < 2 THEN NoId ELSE c.head,
                   lines |-> s \div 2, half |-> s % 2]
  <2>1. Cut(c, s) = r
    BY <1>4 DEF Cut
  <2>2. CASE s = 0
    <3>1. s \div 2 = 0 /\ s % 2 = 0
      BY <2>2
    <3>2. r = Empty
      BY <2>2, <3>1, ContentForms
    <3> QED
      BY <2>1, <2>2, <3>2, EmptyType, ContentForms
  <2>3. CASE s = 1
    <3>1. s \div 2 = 0 /\ s % 2 = 1
      BY <2>3
    <3>2. r = HalfHeader
      BY <2>3, <3>1, ContentForms
    <3> QED
      BY <2>1, <2>3, <3>2, ContentForms DEF Content
  <2>4. CASE s >= 2
    <3>1. Size(c) > 2
      BY <1>2, <1>4, <2>4, ContentType
    <3>2. c \in WithHeader
      BY <3>1, ContentCases, ContentForms DEF Size
    <3>3. d = BadHeader \/ d \in WithHeader
      BY <1>1, <2>4, ContentCases, ContentForms DEF Size
    <3>4. d.half = 0 /\ d.lines \in Nat /\ s = 2 * d.lines
      BY <1>1, <3>3, HeaderType, ContentForms DEF Size
    <3>5. s \div 2 = d.lines /\ s % 2 = 0
      BY <3>4
    <3>6. Size(c) = 2 * c.lines
      BY <3>2, HeaderType DEF Size
    <3>7. d.lines \in 1 .. MaxBody + 1
      BY <1>4, <2>4, <3>2, <3>4, <3>6, HeaderType, BoundAssumption
    <3>8. r = [head |-> c.head, lines |-> d.lines, half |-> 0]
      BY <1>2, <2>4, <3>5
    <3>9. r \in WithHeader
      BY <3>2, <3>7, <3>8, HeaderType DEF WithHeader
    <3>10. r \in Content
      BY <3>9 DEF Content, WithHeader
    <3> QED
      BY <2>1, <2>4, <3>8, <3>10
  <2> QED
    BY <1>2, <2>2, <2>3, <2>4
<1> QED
  BY <1>3, <1>4

LEMMA RowForType ==
    ASSUME SessOK, NEW i, NEW p \in Paths
    PROVE  RowFor(i, p) \in GoodRow
<1>1. CASE i \in DOMAIN sess
  BY <1>1 DEF RowFor, SessOK
<1>2. CASE i \notin DOMAIN sess
  <2>1. RowFor(i, p) = Fresh(p)
    BY <1>2 DEF RowFor
  <2>2. <<Empty>> \in Seq(Generation)
    BY EmptyType
  <2>3. Fresh(p) \in Row
    BY <2>2, EmptyType DEF Fresh, Row
  <2> QED
    BY <2>1, <2>3 DEF Fresh, GoodRow
<1> QED
  BY <1>1, <1>2

\* An import keeps each generation as the beginning of what it becomes, and all
\* that is new are lines of the content.
LEMMA ImportedType ==
    ASSUME NEW row \in GoodRow, NEW c \in Content
    PROVE  LET new == Imported(row.gens, row, c)
           IN  /\ new \in Seq(Generation)
               /\ Len(row.gens) <= Len(new)
               /\ \A g \in DOMAIN new :
                     \/ g \in DOMAIN row.gens /\ new[g] = row.gens[g]
                     \/ new[g] = Lines(c)
               /\ \A g \in DOMAIN row.gens : PrefixIntact(row.gens[g], new[g])
<1> DEFINE gens == row.gens  new == Imported(gens, row, c)  n == Len(gens)
<1>1. gens \in Seq(Generation) /\ n \in Nat /\ DOMAIN gens = 1 .. n
      /\ \A g \in 1 .. n : gens[g] \in Generation
  BY DEF GoodRow, Row
<1>2. \A g \in 1 .. n : PrefixIntact(gens[g], gens[g])
  BY <1>1, GenerationType DEF PrefixIntact
<1>3. Lines(c) \in Generation /\ Lines(c).head = c.head /\ Lines(c).lines = c.lines
  BY ContentType
<1> HIDE DEF gens
<1>4. CASE new = gens
  BY <1>1, <1>2, <1>4 DEF gens
<1>5. CASE /\ new = [gens EXCEPT ![n] = Lines(c)]
           /\ n > 0 => PrefixIntact(gens[n], c)
  <2> HIDE DEF n, new
  <2>0. gens \in [1 .. n -> Generation]
    BY <1>1
  <2>1a. new \in [1 .. n -> Generation]
    BY <2>0, <1>3, <1>5
  <2>1. new \in Seq(Generation) /\ Len(new) = n /\ DOMAIN new = 1 .. n
    BY <1>1, <2>1a
  <2>2. \A g \in 1 .. n : new[g] = IF g = n THEN Lines(c) ELSE gens[g]
    BY <1>1, <1>5
  <2>3. n > 0 => PrefixIntact(gens[n], Lines(c))
    BY <1>3, <1>5 DEF PrefixIntact
  <2> QED
    BY <1>1, <1>2, <2>1, <2>2, <2>3 DEF gens, new, n
<1>6. CASE new = Append(gens, Lines(c))
  <2>1. new \in Seq(Generation) /\ Len(new) = n + 1 /\ DOMAIN new = 1 .. n + 1
    BY <1>1, <1>3, <1>6
  <2>2. new[n + 1] = Lines(c) /\ \A g \in 1 .. n : new[g] = gens[g]
    BY <1>1, <1>3, <1>6
  <2> QED
    BY <1>1, <1>2, <2>1, <2>2 DEF gens
<1>7. row.size = None => n = 1 /\ PrefixIntact(gens[n], c)
  <2>1. row.size = None => gens = <<Empty>>
    BY DEF GoodRow, gens
  <2>2. Empty.lines = 0
    BY ContentForms
  <2>3. row.size = None => n = 1 /\ gens[1] = Empty
    BY <2>1
  <2> QED
    BY <2>2, <2>3 DEF PrefixIntact
<1> QED
  BY <1>4, <1>5, <1>6, <1>7 DEF Imported

\* A row put under an id keeps the table well formed.
LEMMA PutType ==
    ASSUME SessOK, NEW i \in Ids, NEW row \in GoodRow, sess' = Put(i, row)
    PROVE  SessOK'
BY DEF SessOK, Put

LEMMA TypesHold ==
    ASSUME TypeInv
    PROVE  TypeOK
BY DEF TypeInv, WorldOK, SessOK, ProcOK, TypeOK, GoodRow, Row

------------------------------------------------------------------------------
(* Types. *)

PassType == [size : Nat, mtime : Nat, id : Ids \cup {NoId}, buf : Content,
             changed : {"no", "identify", "read"}]

LEMMA NoPassType == NoPass \in PassType /\ NoPass.size \in Sizes
<1>1. NoPass \in PassType /\ NoPass.size = 0
  BY EmptyType DEF NoPass, PassType
<1> QED
  BY <1>1, EmptyType DEF Sizes

LEMMA HeadIsId == Heads \subseteq Ids /\ \A p \in Paths : PathId[p] \in Ids
BY DEF Ids

LEMMA PassDoneType ==
    ASSUME TypeInv, NEW p \in Paths, PassDone(p), SessOK',
           errors' \subseteq Paths, retry' \subseteq Paths, mixed' \subseteq Ids \cup Paths
    PROVE  TypeInv'
<1>1. WorldOK'
  BY DEF TypeInv, WorldOK, PassDone, world
<1>2. ProcOK'
  BY NoPassType DEF TypeInv, ProcOK, PassDone, PassType
<1> QED
  BY <1>1, <1>2 DEF TypeInv

LEMMA FailType ==
    ASSUME TypeInv, NEW p \in Paths, NEW meta \in BOOLEAN, Fail(p, meta)
    PROVE  TypeInv'
<1>1. ErrorId(p) \in Ids
  <2>1. file[p].content \in Content
    BY DEF TypeInv, WorldOK
  <2> QED
    BY <2>1, ContentType, HeadIsId DEF ErrorId
<1>2. SessOK'
  <2>1. CASE StoredAt(p) = {NoId}
    BY <1>1, <2>1, RowForType, PutType DEF Fail, TypeInv
  <2>2. CASE StoredAt(p) # {NoId}
    BY <2>2 DEF Fail, TypeInv, SessOK
  <2> QED
    BY <2>1, <2>2
<1>3. errors' \subseteq Paths /\ retry' \subseteq Paths /\ mixed' \subseteq Ids \cup Paths
  BY DEF Fail, TypeInv, ProcOK
<1> QED
  BY <1>2, <1>3, PassDoneType DEF Fail

LEMMA ChangeType ==
    ASSUME TypeInv, Change(file'),
           file' \in [Paths -> [present : BOOLEAN, content : Content, mtime : 0 .. MaxWrites]]
    PROVE  TypeInv'
<1>1. WorldOK'
  BY BoundAssumption DEF TypeInv, WorldOK, Change
<1>2. SessOK'
  BY DEF TypeInv, SessOK, Change, db
<1>3. pass' \in PassType /\ pass'.size = pass.size /\ pass'.id = pass.id
  BY DEF TypeInv, ProcOK, Change, PassType
<1>4. ProcOK'
  BY <1>3 DEF TypeInv, ProcOK, Change, PassType, db
<1> QED
  BY <1>1, <1>2, <1>4 DEF TypeInv

LEMMA WriterType ==
    ASSUME TypeInv, Writer
    PROVE  TypeInv' /\ Change(file')
<1> DEFINE File == [present : BOOLEAN, content : Content, mtime : 0 .. MaxWrites]
<1>1. NoFile \in File
  BY EmptyType, BoundAssumption DEF NoFile
<1>2. file \in [Paths -> File] /\ clock \in 0 .. MaxWrites
  BY DEF TypeInv, WorldOK
<1>3. ASSUME NEW p \in Paths, NEW c \in Content, Write(p, c)
      PROVE  file' \in [Paths -> File] /\ Change(file')
  <2>1. clock < MaxWrites
    BY <1>3 DEF Write, Change
  <2>2. [present |-> TRUE, content |-> c, mtime |-> clock + 1] \in File
    BY <1>2, <2>1, BoundAssumption
  <2> QED
    BY <1>2, <1>3, <2>2 DEF Write, Change
<1>4. ASSUME NEW p \in Paths, NEW q \in Paths, Move(p, q)
      PROVE  file' \in [Paths -> File] /\ Change(file')
  BY <1>1, <1>2, <1>4 DEF Move, Change
<1>5. ASSUME NEW p \in Paths, Remove(p)
      PROVE  file' \in [Paths -> File] /\ Change(file')
  BY <1>1, <1>2, <1>5 DEF Remove, Change
<1>6. file' \in [Paths -> File] /\ Change(file')
  BY <1>3, <1>4, <1>5 DEF Writer
<1> QED
  BY <1>6, ChangeType

LEMMA IdentifiedType ==
    ASSUME TypeInv, SessOK', NEW i \in Ids, NEW buf \in Content, Identified(i, buf)
    PROVE  TypeInv'
<1>1. WorldOK'
  BY DEF TypeInv, WorldOK, Identified, world
<1>2. pass' \in PassType /\ pass'.size = pass.size /\ pass'.id = i
  BY DEF TypeInv, ProcOK, Identified, PassType
<1>3. ProcOK'
  BY <1>2 DEF TypeInv, ProcOK, Identified, PassType
<1> QED
  BY <1>1, <1>3 DEF TypeInv

LEMMA RenamedType ==
    ASSUME SessOK, NEW stored, NEW i \in Ids, sess' = Renamed(stored, i)
    PROVE  SessOK'
<1>1. CASE MayRename(stored, i)
  <2>1. stored \in DOMAIN sess /\ sess[stored] \in GoodRow
    BY <1>1 DEF MayRename, SessOK
  <2> QED
    BY <1>1, <2>1 DEF SessOK, Renamed
<1>2. CASE ~MayRename(stored, i)
  BY <1>2 DEF SessOK, Renamed
<1> QED
  BY <1>1, <1>2

LEMMA ByHeaderType ==
    ASSUME TypeInv, NEW p \in Paths, NEW stored, ByHeader(p, stored)
    PROVE  TypeInv'
<1> DEFINE c == IF kind = "gemini" THEN Cut(file[p].content, pass.size) ELSE file[p].content
<1>1. c \in Content
  BY CutType DEF TypeInv, WorldOK, ProcOK
<1>2. CASE Fail(p, FALSE) \/ Fail(p, TRUE)
  BY <1>2, FailType
<1>3. CASE c.head # NoId /\ sess' = Renamed(stored, c.head) /\ Identified(c.head, c)
  <2>1. c.head \in Ids
    BY <1>1, <1>3, ContentType, HeadIsId
  <2> QED
    BY <1>1, <1>3, <2>1, RenamedType, IdentifiedType DEF TypeInv
<1> QED
  BY <1>2, <1>3 DEF ByHeader

LEMMA EmptyCodexType ==
    ASSUME TypeInv, NEW p \in Paths, NEW stored, EmptyCodex(p, stored)
    PROVE  TypeInv'
<1>1. CASE stored \in DOMAIN sess /\ ~DropsRow(stored)
  <2>1. stored \in Ids /\ SessOK' /\ Identified(stored, Empty)
    BY <1>1 DEF EmptyCodex, TypeInv, SessOK
  <2> QED
    BY <2>1, EmptyType, IdentifiedType
<1>2. CASE ~(stored \in DOMAIN sess /\ ~DropsRow(stored))
  <2>1. SessOK'
    BY <1>2 DEF EmptyCodex, TypeInv, SessOK
  <2>2. errors' \subseteq Paths /\ retry' \subseteq Paths /\ mixed' \subseteq Ids \cup Paths
    BY <1>2 DEF EmptyCodex, NoteEmpty, ResolveErrors, TypeInv, ProcOK
  <2> QED
    BY <1>2, <2>1, <2>2, PassDoneType DEF EmptyCodex
<1> QED
  BY <1>1, <1>2

LEMMA IdentifyType ==
    ASSUME TypeInv, NEW p \in Paths, Identify(p)
    PROVE  TypeInv'
<1>1. PICK stored \in StoredAt(p) :
          IF kind = "codex" /\ pass.size = 0 THEN EmptyCodex(p, stored)
          ELSE IF KeepsId(stored) THEN UNCHANGED sess /\ Identified(stored, Empty)
          ELSE ByHeader(p, stored)
  BY DEF Identify
<1>2. CASE KeepsId(stored) /\ UNCHANGED sess /\ Identified(stored, Empty)
  <2>1. stored \in Ids /\ SessOK'
    BY <1>2 DEF KeepsId, TypeInv, SessOK
  <2> QED
    BY <1>2, <2>1, EmptyType, IdentifiedType
<1> QED
  BY <1>1, <1>2, EmptyCodexType, ByHeaderType

LEMMA SkipType ==
    ASSUME TypeInv, NEW p \in Paths, SkipUnchanged(p)
    PROVE  TypeInv'
<1>1. pass.id \in DOMAIN sess /\ sess' = [sess EXCEPT ![pass.id].path = p]
  BY DEF SkipUnchanged
<1>2. [sess[pass.id] EXCEPT !.path = p] \in GoodRow
  BY <1>1 DEF TypeInv, SessOK, GoodRow, Row
<1>3. SessOK'
  BY <1>1, <1>2 DEF TypeInv, SessOK
<1>4. errors' \subseteq Paths /\ retry' \subseteq Paths /\ mixed' \subseteq Ids \cup Paths
  BY DEF SkipUnchanged, ResolveErrors, TypeInv, ProcOK
<1> QED
  BY <1>3, <1>4, PassDoneType DEF SkipUnchanged

LEMMA ReadType ==
    ASSUME TypeInv, NEW p \in Paths, Read(p)
    PROVE  TypeInv'
<1>1. CASE Fail(p, FALSE)
  BY <1>1, FailType
<1>2. CASE ~Fail(p, FALSE)
  <2>1. Cut(file[p].content, pass.size) \in Content
    BY CutType DEF TypeInv, WorldOK, ProcOK
  <2>2. /\ pc' = "commit" /\ UNCHANGED <<world, db, todo, retry, crashes>>
        /\ pass' = pass \/ pass' = [pass EXCEPT !.buf = Cut(file[p].content, pass.size)]
    BY <1>2 DEF Read
  <2>3. pass' \in PassType /\ pass'.size = pass.size /\ pass'.id = pass.id
    BY <2>1, <2>2 DEF TypeInv, ProcOK, PassType
  <2>4. pass.id \in Ids
    BY DEF Read, TypeInv, ProcOK
  <2>5. WorldOK' /\ SessOK'
    BY <2>2 DEF TypeInv, WorldOK, SessOK, world, db
  <2>6. ProcOK'
    BY <2>2, <2>3, <2>4 DEF TypeInv, ProcOK, PassType, db
  <2> QED
    BY <2>5, <2>6 DEF TypeInv
<1> QED
  BY <1>1, <1>2

\* The row that a commit writes.
CommittedRow(p) ==
    LET row == RowFor(pass.id, p)
    IN  [path |-> p, size |-> pass.size, mtime |-> pass.mtime,
         fingerprint |-> pass.buf, gens |-> Imported(row.gens, row, pass.buf)]

LEMMA CommitType ==
    ASSUME TypeInv, NEW p \in Paths, Commit(p)
    PROVE  TypeInv'
<1>1. pass \in PassType /\ pass.id \in Ids
  BY DEF Commit, TypeInv, ProcOK, PassType
<1> DEFINE row == RowFor(pass.id, p)
<1>2. row \in GoodRow
  BY RowForType DEF TypeInv
<1>3. Imported(row.gens, row, pass.buf) \in Seq(Generation)
  BY <1>1, <1>2, ImportedType DEF PassType
<1>4. CommittedRow(p) \in GoodRow
  BY <1>1, <1>3 DEF CommittedRow, GoodRow, Row, PassType, None
<1>5. SessOK'
  BY <1>1, <1>4, PutType DEF Commit, CommittedRow, TypeInv
<1>6. errors' \subseteq Paths /\ retry' \subseteq Paths /\ mixed' \subseteq Ids \cup Paths
  BY <1>1 DEF Commit, ResolveErrors, TypeInv, ProcOK
<1> QED
  BY <1>5, <1>6, PassDoneType DEF Commit

LEMMA TypeInit == Init => TypeInv
<1> SUFFICES ASSUME Init PROVE TypeInv
  OBVIOUS
<1>1. WorldOK
  BY EmptyType, BoundAssumption DEF Init, WorldOK, NoFile
<1>2. SessOK
  BY DEF Init, SessOK
<1>3. ProcOK
  BY NoPassType DEF Init, ProcOK, PassType
<1> QED
  BY <1>1, <1>2, <1>3 DEF TypeInv

LEMMA TypeNext == TypeInv /\ [Next]_vars => TypeInv'
<1> SUFFICES ASSUME TypeInv, [Next]_vars PROVE TypeInv'
  OBVIOUS
<1>1. CASE Writer
  BY <1>1, WriterType
<1>2. CASE StartRun
  BY <1>2 DEF StartRun, TypeInv, WorldOK, SessOK, ProcOK, world, db
<1>3. CASE EndRun
  BY <1>3 DEF EndRun, TypeInv, WorldOK, SessOK, ProcOK, world, db
<1>4. ASSUME NEW p \in Paths, Stat(p) PROVE TypeInv'
  <2>1. CASE Fail(p, FALSE)
    BY <2>1, FailType
  <2>2. CASE ~Fail(p, FALSE)
    <3>1. file[p].content \in Content /\ file[p].mtime \in Nat
      BY BoundAssumption DEF TypeInv, WorldOK
    <3>2. /\ pc' = "identify" /\ UNCHANGED <<world, db, todo, retry, crashes>>
          /\ pass' = [NoPass EXCEPT !.size = Size(file[p].content), !.mtime = file[p].mtime]
      BY <1>4, <2>2 DEF Stat
    <3>3. pass' \in PassType /\ pass'.size \in Sizes
      BY <3>1, <3>2, ContentType, EmptyType DEF NoPass, PassType, Sizes
    <3> QED
      BY <3>2, <3>3 DEF TypeInv, WorldOK, SessOK, ProcOK, PassType, world, db
  <2> QED
    BY <2>1, <2>2
<1>5. CASE Crash
  BY <1>5, NoPassType, BoundAssumption
     DEF Crash, TypeInv, WorldOK, SessOK, ProcOK, PassType, world, db
<1>6. CASE UNCHANGED vars
  BY <1>6 DEF vars, TypeInv, WorldOK, SessOK, ProcOK
<1> QED
  BY <1>1, <1>2, <1>3, <1>4, <1>5, <1>6, IdentifyType, SkipType, ReadType, CommitType
     DEF Next, Step

\* The state of an ingest run and its tables is always well typed.
THEOREM TypeCorrect == Spec => []TypeOK
<1>1. Spec => []TypeInv
  BY TypeInit, TypeNext, PTL DEF Spec
<1> QED
  BY <1>1, TypesHold, PTL

------------------------------------------------------------------------------
(* What a step does to the generations. *)

\* Every step but a commit keeps the generations of each session that has any,
\* and gives none to another.
TableKept ==
    /\ kind' = kind /\ mixed' = mixed
    /\ \A i \in DOMAIN sess : ~IsPlaceholder(sess[i]) =>
           i \in DOMAIN sess' /\ sess'[i].gens = sess[i].gens
    /\ \A i \in DOMAIN sess' :
           \/ sess'[i].gens = <<Empty>>
           \/ i \in DOMAIN sess /\ sess'[i].gens = sess[i].gens

LEMMA FailKeeps ==
    ASSUME TypeInv, NEW p \in Paths, NEW meta \in BOOLEAN, Fail(p, meta)
    PROVE  TableKept
<1>1. kind' = kind /\ mixed' = mixed
  BY DEF Fail, PassDone, world
<1>2. CASE sess' = sess
  BY <1>1, <1>2 DEF TableKept
<1>3. CASE sess' = Put(ErrorId(p), RowFor(ErrorId(p), p))
  BY <1>1, <1>3 DEF TableKept, Put, RowFor, Fresh
<1> QED
  BY <1>2, <1>3 DEF Fail

LEMMA RenamedKeeps ==
    ASSUME TypeInv, NEW stored, NEW i, sess' = Renamed(stored, i),
           kind' = kind, mixed' = mixed
    PROVE  TableKept
<1>1. CASE MayRename(stored, i)
  BY <1>1 DEF TableKept, Renamed, MayRename, IsPlaceholder
<1>2. CASE ~MayRename(stored, i)
  BY <1>2 DEF TableKept, Renamed
<1> QED
  BY <1>1, <1>2

LEMMA IdentifyKeeps ==
    ASSUME TypeInv, NEW p \in Paths, Identify(p)
    PROVE  TableKept
<1>1. PICK stored \in StoredAt(p) :
          \/ EmptyCodex(p, stored)
          \/ UNCHANGED sess /\ Identified(stored, Empty)
          \/ ByHeader(p, stored)
  BY DEF Identify
<1>2. CASE EmptyCodex(p, stored)
  <2>1. kind' = kind /\ mixed' = mixed
    BY <1>2 DEF EmptyCodex, Identified, PassDone, world
  <2>2. \/ sess' = sess
        \/ /\ stored \in DOMAIN sess => IsPlaceholder(sess[stored])
           /\ sess' = [i \in DOMAIN sess \ {stored} |-> sess[i]]
    BY <1>2 DEF EmptyCodex, DropsRow
  <2> QED
    BY <2>1, <2>2 DEF TableKept
<1>3. CASE UNCHANGED sess /\ Identified(stored, Empty)
  BY <1>3 DEF TableKept, Identified, world
<1>4. CASE ByHeader(p, stored)
  <2> DEFINE c == IF kind = "gemini" THEN Cut(file[p].content, pass.size) ELSE file[p].content
  <2>1. CASE Fail(p, FALSE) \/ Fail(p, TRUE)
    BY <2>1, FailKeeps
  <2>2. CASE sess' = Renamed(stored, c.head) /\ Identified(c.head, c)
    BY <2>2, RenamedKeeps DEF Identified, world
  <2> QED
    BY <1>4, <2>1, <2>2 DEF ByHeader
<1> QED
  BY <1>1, <1>2, <1>3, <1>4

LEMMA TableStep ==
    ASSUME TypeInv, [Next]_vars
    PROVE  TableKept \/ \E p \in Paths : Commit(p)
<1>1. UNCHANGED <<sess, kind, mixed>> => TableKept
  BY DEF TableKept
<1>2. ASSUME NEW p \in Paths, Stat(p) \/ Read(p) PROVE TableKept
  <2>1. CASE Fail(p, FALSE)
    BY <2>1, FailKeeps
  <2>2. CASE ~Fail(p, FALSE)
    <3>1. UNCHANGED <<world, db>>
      BY <1>2, <2>2 DEF Stat, Read
    <3>2. UNCHANGED <<sess, kind, mixed>>
      BY <3>1 DEF world, db
    <3> QED
      BY <1>1, <3>2
  <2> QED
    BY <2>1, <2>2
<1>4. ASSUME NEW p \in Paths, SkipUnchanged(p) PROVE TableKept
  <2>1. /\ pass.id \in DOMAIN sess /\ sess' = [sess EXCEPT ![pass.id].path = p]
        /\ kind' = kind /\ mixed' = mixed
    BY <1>4 DEF SkipUnchanged, PassDone, world
  <2>2. sess[pass.id] \in Row
    BY <2>1 DEF TypeInv, SessOK, GoodRow
  <2>3. [sess[pass.id] EXCEPT !.path = p].gens = sess[pass.id].gens
    BY <2>2 DEF Row
  <2> QED
    BY <2>1, <2>3 DEF TableKept, SessOK, TypeInv
<1>5. CASE Writer
  BY <1>1, <1>5, WriterType DEF Change, db
<1>6. CASE StartRun \/ EndRun \/ Crash
  BY <1>1, <1>6 DEF StartRun, EndRun, Crash, world, db
<1>7. CASE UNCHANGED vars
  BY <1>1, <1>7 DEF vars
<1> QED
  BY <1>2, <1>4, <1>5, <1>6, <1>7, IdentifyKeeps DEF Next, Step

\* A commit changes the row of its session only, and that as an import does.
LEMMA CommitStep ==
    ASSUME TypeInv, NEW p \in Paths, Commit(p)
    PROVE  LET i == pass.id  row == RowFor(pass.id, p)  gens == sess'[pass.id].gens
           IN  /\ DOMAIN sess' = DOMAIN sess \cup {i}
               /\ \A j \in DOMAIN sess : j # i => sess'[j] = sess[j]
               /\ row.gens = <<Empty>> \/ (i \in DOMAIN sess /\ row.gens = sess[i].gens)
               /\ i \in DOMAIN sess => row = sess[i]
               /\ Len(row.gens) <= Len(gens)
               /\ \A g \in DOMAIN gens :
                     \/ g \in DOMAIN row.gens /\ gens[g] = row.gens[g]
                     \/ gens[g] = Lines(pass.buf)
               /\ \A g \in DOMAIN row.gens : PrefixIntact(row.gens[g], gens[g])
<1> DEFINE i == pass.id  row == RowFor(i, p)
<1>1. row \in GoodRow /\ pass.buf \in Content
  BY RowForType DEF TypeInv, ProcOK
<1>2. sess' = Put(i, CommittedRow(p))
  BY DEF Commit, CommittedRow
<1>3. DOMAIN sess' = DOMAIN sess \cup {i}
  BY <1>2 DEF Put
<1>4. \A j \in DOMAIN sess : j # i => sess'[j] = sess[j]
  BY <1>2 DEF Put
<1>5. sess'[i].gens = Imported(row.gens, row, pass.buf)
  BY <1>2 DEF Put, CommittedRow
<1>6. row.gens = <<Empty>> \/ (i \in DOMAIN sess /\ row.gens = sess[i].gens)
  BY DEF RowFor, Fresh
<1>7. i \in DOMAIN sess => row = sess[i]
  BY DEF RowFor
<1> HIDE DEF row
<1> QED
  BY <1>1, <1>3, <1>4, <1>5, <1>6, <1>7, ImportedType DEF row

\* No session that has anything preserved is ever removed, renamed or given
\* fewer or other lines, whatever happens to files and placeholders.
THEOREM NothingTaken == Spec => SessionsKept
<1> DEFINE Kept == \A i \in DOMAIN sess : ~IsPlaceholder(sess[i]) =>
                       /\ i \in DOMAIN sess'
                       /\ Len(sess[i].gens) <= Len(sess'[i].gens)
                       /\ \A g \in DOMAIN sess[i].gens :
                             PrefixIntact(sess[i].gens[g], sess'[i].gens[g])
<1>1. TypeInv /\ [Next]_vars => Kept
  <2> SUFFICES ASSUME TypeInv, [Next]_vars, NEW i \in DOMAIN sess, ~IsPlaceholder(sess[i])
               PROVE  /\ i \in DOMAIN sess'
                      /\ Len(sess[i].gens) <= Len(sess'[i].gens)
                      /\ \A g \in DOMAIN sess[i].gens :
                            PrefixIntact(sess[i].gens[g], sess'[i].gens[g])
    OBVIOUS
  <2>1. sess[i].gens \in Seq(Generation)
    BY DEF TypeInv, SessOK, GoodRow, Row
  <2>2. CASE sess'[i].gens = sess[i].gens /\ i \in DOMAIN sess'
    <3>1. \A g \in DOMAIN sess[i].gens : PrefixIntact(sess[i].gens[g], sess[i].gens[g])
      BY <2>1, GenerationType DEF PrefixIntact
    <3>2. Len(sess[i].gens) <= Len(sess[i].gens)
      BY <2>1
    <3> QED
      BY <2>2, <3>1, <3>2
  <2>3. ASSUME NEW p \in Paths, Commit(p), i = pass.id
        PROVE  /\ i \in DOMAIN sess'
               /\ Len(sess[i].gens) <= Len(sess'[i].gens)
               /\ \A g \in DOMAIN sess[i].gens :
                     PrefixIntact(sess[i].gens[g], sess'[i].gens[g])
    BY <2>3, CommitStep
  <2>4. ASSUME NEW p \in Paths, Commit(p), i # pass.id
        PROVE  sess'[i].gens = sess[i].gens /\ i \in DOMAIN sess'
    BY <2>4, CommitStep
  <2> QED
    BY <2>2, <2>3, <2>4, TableStep DEF TableKept
<1>2. TypeInv /\ [Next]_vars => [Kept]_vars
  BY <1>1
<1> QED
  BY <1>2, TypeInit, TypeNext, PTL DEF Spec, SessionsKept

------------------------------------------------------------------------------
(* Whose lines a session has. *)

LEMMA InitOwn == Init => ReadsItsOwn /\ CommitsItsOwn /\ LinesAreItsOwn
BY DEF Init, ReadsItsOwn, CommitsItsOwn, LinesAreItsOwn

LEMMA WriterOwn ==
    ASSUME IInv, Writer
    PROVE  ReadsItsOwn' /\ CommitsItsOwn'
<1>1. Change(file') /\ pass \in PassType
  BY WriterType DEF IInv, TypeInv, ProcOK, PassType
<1>2. kind' = kind /\ sess' = sess /\ pc' = pc /\ todo' = todo
  BY <1>1 DEF Change, db
<1>3. /\ pass'.size = pass.size /\ pass'.mtime = pass.mtime
      /\ pass'.id = pass.id /\ pass'.buf = pass.buf
      /\ pc = "read" /\ pass.changed = "read" => pass'.changed = "read"
      /\ pc = "commit" => pass' = pass
      /\ pc = "read" /\ (\E p \in todo : NextFile(p) /\ file'[p] # file[p])
            => pass'.changed = "read"
  BY <1>1 DEF Change, PassType
<1>4. CommitsItsOwn'
  BY <1>2, <1>3 DEF IInv, CommitsItsOwn
<1>5. ReadsItsOwn'
  <2> SUFFICES ASSUME pc = "read" PROVE ReadsItsOwn'
    BY <1>2 DEF ReadsItsOwn
  <2>1. CASE pass.id \in DOMAIN sess /\ Unchanged(sess[pass.id])
    BY <1>2, <1>3, <2>1 DEF ReadsItsOwn, Unchanged
  <2>2. CASE kind = "gemini" /\ pass.buf.head = pass.id
    BY <1>2, <1>3, <2>2 DEF ReadsItsOwn
  <2>3. CASE kind # "gemini" /\ (pass.size = 0 \/ pass.changed = "read")
    BY <1>2, <1>3, <2>3 DEF ReadsItsOwn
  <2>4. CASE /\ kind # "gemini"
             /\ \A p \in todo : NextFile(p) /\ file[p].present => Names(p, pass.id)
    <3>1. CASE \E p \in todo : NextFile(p) /\ file'[p] # file[p]
      BY <1>2, <1>3, <2>4, <3>1 DEF ReadsItsOwn
    <3>2. CASE \A p \in todo : NextFile(p) => file'[p] = file[p]
      BY <1>2, <1>3, <2>4, <3>2 DEF ReadsItsOwn, NextFile, Names
    <3> QED
      BY <3>1, <3>2
  <2> QED
    BY <2>1, <2>2, <2>3, <2>4 DEF IInv, ReadsItsOwn
<1> QED
  BY <1>4, <1>5

LEMMA IdentifyOwn ==
    ASSUME IInv, NEW p \in Paths, Identify(p)
    PROVE  ReadsItsOwn' /\ CommitsItsOwn'
<1>1. PICK stored \in StoredAt(p) :
          IF kind = "codex" /\ pass.size = 0 THEN EmptyCodex(p, stored)
          ELSE IF KeepsId(stored) THEN UNCHANGED sess /\ Identified(stored, Empty)
          ELSE ByHeader(p, stored)
  BY DEF Identify
<1>2. pass \in PassType /\ NextFile(p)
  BY DEF Identify, IInv, TypeInv, ProcOK, PassType
<1>3. CASE pc' = "run"
  BY <1>3 DEF ReadsItsOwn, CommitsItsOwn
<1>4. ASSUME NEW i, NEW buf, Identified(i, buf)
      PROVE  /\ pc' = "read" /\ kind' = kind /\ file' = file /\ todo' = todo
             /\ pass'.id = i /\ pass'.buf = buf
             /\ pass'.size = pass.size /\ pass'.mtime = pass.mtime
  BY <1>2, <1>4 DEF Identified, PassType, world
<1>5. CASE kind = "codex" /\ pass.size = 0
  <2>1. CASE Identified(stored, Empty)
    BY <1>4, <1>5, <2>1 DEF ReadsItsOwn, CommitsItsOwn
  <2> QED
    BY <1>1, <1>3, <1>5, <2>1 DEF EmptyCodex, PassDone
<1>6. CASE KeepsId(stored) /\ UNCHANGED sess /\ Identified(stored, Empty)
  BY <1>4, <1>6 DEF KeepsId, Unchanged, ReadsItsOwn, CommitsItsOwn
<1>7. CASE ByHeader(p, stored)
  <2> DEFINE c == IF kind = "gemini" THEN Cut(file[p].content, pass.size) ELSE file[p].content
  <2>1. CASE Fail(p, FALSE) \/ Fail(p, TRUE)
    BY <1>3, <2>1 DEF Fail, PassDone
  <2>2. CASE Identified(c.head, c)
    <3>1. /\ pc' = "read" /\ kind' = kind /\ file' = file /\ todo' = todo
          /\ pass'.id = c.head /\ pass'.buf = c
      BY <1>4, <2>2
    <3>2. CASE kind = "gemini"
      BY <3>1, <3>2 DEF ReadsItsOwn, CommitsItsOwn
    <3>3. CASE kind # "gemini"
      <4>1. \A q \in todo : NextFile(q) => q = p
        BY <1>2, PathAssumption DEF NextFile, IInv, TypeInv, ProcOK
      <4>2. \A q \in todo : NextFile(q) /\ file[q].present => Names(q, c.head)
        BY <3>3, <4>1 DEF Names
      <4> QED
        BY <3>1, <3>3, <4>2 DEF ReadsItsOwn, CommitsItsOwn, NextFile, Names
    <3> QED
      BY <3>2, <3>3
  <2> QED
    BY <1>7, <2>1, <2>2 DEF ByHeader
<1> QED
  BY <1>1, <1>5, <1>6, <1>7

LEMMA ReadOwn ==
    ASSUME IInv, NEW p \in Paths, Read(p)
    PROVE  ReadsItsOwn' /\ CommitsItsOwn'
<1>1. CASE Fail(p, FALSE)
  BY <1>1 DEF Fail, PassDone, ReadsItsOwn, CommitsItsOwn
<1>2. CASE ~Fail(p, FALSE)
  <2>1. /\ pass \in PassType /\ pass.id \in Ids /\ pass.id # NoId
        /\ file[p].content \in Content /\ pass.size \in Sizes
    BY PathAssumption DEF Read, IInv, TypeInv, WorldOK, ProcOK, PassType
  <2>2. \/ kind = "gemini" /\ pass.buf.head = pass.id
        \/ /\ kind # "gemini"
           /\ \/ pass.size = 0 \/ pass.changed = "read"
              \/ file[p].present => Names(p, pass.id)
    BY DEF Read, IInv, ReadsItsOwn, NextFile
  <2>3. pc' = "commit" /\ kind' = kind
    BY <1>2 DEF Read, world
  <2>4. CASE kind = "gemini"
    <3>1. pass' = pass
      BY <1>2, <2>1, <2>2, <2>4 DEF Read
    <3> QED
      BY <2>2, <2>3, <2>4, <3>1 DEF ReadsItsOwn, CommitsItsOwn
  <2>5. CASE kind # "gemini"
    <3>1. file[p].present /\ pass' = [pass EXCEPT !.buf = Cut(file[p].content, pass.size)]
      BY <1>2, <2>5 DEF Read
    <3>2. pass'.buf = Cut(file[p].content, pass.size) /\ pass'.id = pass.id
          /\ pass'.changed = pass.changed
      BY <2>1, <3>1 DEF PassType
    <3>3. pass'.buf.lines > 0 => pass.size # 0 /\ pass'.buf.head = file[p].content.head
      BY <2>1, <3>2, CutType
    <3> QED
      BY <2>2, <2>3, <2>5, <3>1, <3>2, <3>3 DEF ReadsItsOwn, CommitsItsOwn, Names
  <2> QED
    BY <2>4, <2>5
<1> QED
  BY <1>1, <1>2

LEMMA PassOwn ==
    ASSUME IInv, [Next]_vars
    PROVE  ReadsItsOwn' /\ CommitsItsOwn'
<1>1. CASE pc' \notin {"read", "commit"}
  BY <1>1 DEF ReadsItsOwn, CommitsItsOwn
<1>2. ASSUME NEW p \in Paths, Stat(p) \/ SkipUnchanged(p) \/ Commit(p)
      PROVE  pc' \notin {"read", "commit"}
  BY <1>2 DEF Stat, SkipUnchanged, Commit, Fail, PassDone
<1>3. CASE StartRun \/ EndRun \/ Crash
  BY <1>1, <1>3 DEF StartRun, EndRun, Crash
<1>4. CASE UNCHANGED vars
  BY <1>4 DEF vars, IInv, ReadsItsOwn, CommitsItsOwn, Unchanged, NextFile, Names
<1> QED
  BY <1>1, <1>2, <1>3, <1>4, WriterOwn, IdentifyOwn, ReadOwn DEF Next, Step

LEMMA CommitOwn ==
    ASSUME IInv, NEW p \in Paths, Commit(p)
    PROVE  LinesAreItsOwn'
<1> DEFINE row == RowFor(pass.id, p)
<1>1. /\ pass.buf \in Content /\ pc = "commit" /\ kind' = kind /\ mixed \subseteq mixed'
      /\ pass.changed = "read" => pass.id \in mixed'
  BY DEF IInv, TypeInv, ProcOK, Commit, PassDone, world
<1>2. Lines(pass.buf).lines > 0 =>
          Lines(pass.buf).head = pass.id \/ (kind # "gemini" /\ pass.id \in mixed')
  BY <1>1, ContentType DEF IInv, CommitsItsOwn
<1>3. /\ DOMAIN sess' = DOMAIN sess \cup {pass.id}
      /\ \A j \in DOMAIN sess : j # pass.id => sess'[j] = sess[j]
      /\ row.gens = <<Empty>> \/ (pass.id \in DOMAIN sess /\ row.gens = sess[pass.id].gens)
      /\ \A g \in DOMAIN sess'[pass.id].gens :
            \/ g \in DOMAIN row.gens /\ sess'[pass.id].gens[g] = row.gens[g]
            \/ sess'[pass.id].gens[g] = Lines(pass.buf)
  BY CommitStep DEF IInv
<1> HIDE DEF row
<1>4. ASSUME NEW i \in DOMAIN sess', i \notin mixed' \/ kind' = "gemini",
             NEW g \in DOMAIN sess'[i].gens, sess'[i].gens[g].lines > 0
      PROVE  sess'[i].gens[g].head = i
  <2>1. CASE i # pass.id
    BY <1>1, <1>3, <1>4, <2>1 DEF IInv, LinesAreItsOwn
  <2>2. CASE i = pass.id
    <3>1. CASE sess'[i].gens[g] = Lines(pass.buf)
      BY <1>1, <1>2, <1>4, <2>2, <3>1
    <3>2. CASE g \in DOMAIN row.gens /\ sess'[i].gens[g] = row.gens[g]
      <4>1. row.gens # <<Empty>>
        <5> SUFFICES ASSUME row.gens = <<Empty>> PROVE FALSE
          OBVIOUS
        <5>1. row.gens[g] = Empty
          BY <3>2
        <5> QED
          BY <1>4, <3>2, <5>1, ContentForms
      <4> QED
        BY <1>1, <1>3, <1>4, <2>2, <3>2, <4>1 DEF IInv, LinesAreItsOwn
    <3> QED
      BY <1>3, <2>2, <3>1, <3>2
  <2> QED
    BY <2>1, <2>2
<1> QED
  BY <1>4 DEF LinesAreItsOwn

LEMMA OwnNext == IInv /\ [Next]_vars => IInv'
<1> SUFFICES ASSUME IInv, [Next]_vars PROVE IInv'
  OBVIOUS
<1>1. CASE TableKept
  <2>1. ASSUME NEW i \in DOMAIN sess', i \notin mixed' \/ kind' = "gemini",
               NEW g \in DOMAIN sess'[i].gens, sess'[i].gens[g].lines > 0
        PROVE  sess'[i].gens[g].head = i
    <3>1. sess'[i].gens # <<Empty>>
      <4> SUFFICES ASSUME sess'[i].gens = <<Empty>> PROVE FALSE
        OBVIOUS
      <4>1. sess'[i].gens[g] = Empty
        BY <2>1
      <4> QED
        BY <2>1, <4>1, ContentForms
    <3> QED
      BY <1>1, <2>1, <3>1 DEF TableKept, IInv, LinesAreItsOwn
  <2> QED
    BY <2>1, PassOwn, TypeNext DEF IInv, LinesAreItsOwn
<1>2. CASE ~TableKept
  BY <1>2, TableStep, CommitOwn, PassOwn, TypeNext DEF IInv
<1> QED
  BY <1>1, <1>2

\* The lines of a session come from files that name it, but for files replaced
\* between their identification and their read.
THEOREM NobodysElse == Spec => []LinesAreItsOwn
<1>1. Init => IInv
  BY TypeInit, InitOwn DEF IInv
<1>2. IInv => LinesAreItsOwn
  BY DEF IInv
<1> QED
  BY <1>1, <1>2, OwnNext, PTL DEF Spec
==============================================================================
