----------------------------- MODULE JsonlIngest -----------------------------
(***************************************************************************)
(* The shared JSONL ingest core: repeated `jottrace ingest` runs read      *)
(* session files that other programs are still writing, and preserve every *)
(* committed line of them as an event row.                                 *)
(*                                                                         *)
(* A line is a token, all lines have the same length, and an unterminated  *)
(* tail is the first half of a line; so a byte offset at a line boundary   *)
(* is a number of lines, and a fingerprint is the content it was computed  *)
(* from (hash collisions are left out).  The source session id of a file   *)
(* is known from its path (SourceSessionIdKind::Known).  Timestamps, cwd   *)
(* and the occurrence counters of errors are left out.                     *)
(***************************************************************************)
EXTENDS Integers, Sequences, FiniteSets

CONSTANTS
    Paths,        \* the source files
    Sessions,     \* the session ids
    IdOf,         \* the session id a path stands for
    ParentOf,     \* the parent session id in a path, or NoSession
    PathOrder,    \* the lexical order of the paths
    NoPath, NoSession, NoLine,
    Good, Bad,    \* lines that parse, and the line that does not
    CoarseClock,  \* may two writes share one mtime second?
    MaxWrites, MaxLines, MaxCrashes  \* bounds on the environment

Line == Good \cup {Bad}
Null == -1        \* SQL NULL of an integer column

ASSUME SessionAssumption ==
    /\ IdOf \in [Paths -> Sessions]
    /\ ParentOf \in [Paths -> Sessions \cup {NoSession}]
    /\ PathOrder \in [Paths -> Int]
    /\ \A p, q \in Paths : PathOrder[p] = PathOrder[q] => p = q
    /\ NoSession \notin Sessions /\ NoPath \notin Paths
ASSUME LineAssumption == NoLine \notin Line /\ Bad \notin Good
ASSUME BoundAssumption ==
    /\ MaxWrites \in Nat /\ MaxLines \in Nat /\ MaxCrashes \in Nat
    /\ CoarseClock \in BOOLEAN

VARIABLES
    file,       \* the source files, as their writers leave them
    sess,       \* table sessions
    events,     \* table events: session -> (<<generation, seq>> -> line)
    unresolved, \* the rows of ingest_errors with resolved_at NULL
    pc,         \* where the ingest process is
    todo,       \* discovered files the run has not finished
    retry,      \* IngestState.unresolved_invalid_json_paths
    pass,       \* the stat taken at the start of the current pass
    buf,        \* the bytes read by the current pass
    crashes,    \* history: number of crashes so far
    ver,        \* history: number of changes made to each file
    rewritten,  \* history: was the file ever changed other than at its end?
    had         \* history: the committed lines each session's files ever had

db == <<sess, events, unresolved>>
proc == <<pc, todo, retry, pass, buf>>
vars == <<file, db, proc, crashes, ver, rewritten, had>>

------------------------------------------------------------------------------
(* Contents of a file. *)

Content == [lines : Seq(Line), tail : Line \cup {NoLine}]
Empty == [lines |-> <<>>, tail |-> NoLine]
Size(c) == 2 * Len(c.lines) + (IF c.tail = NoLine THEN 0 ELSE 1)

\* read_bounded: at most size bytes of the content.
ReadBounded(c, size) ==
    IF size >= Size(c) THEN c
    ELSE [lines |-> SubSeq(c.lines, 1, size \div 2),
          tail  |-> IF size % 2 = 1 THEN c.lines[size \div 2 + 1] ELSE NoLine]

\* Reading from line start, import_committed_lines consumes the lines up to n.
StopsAt(lines, start, n) ==
    /\ \A i \in start + 1 .. n : lines[i] # Bad
    /\ n < Len(lines) => lines[n + 1] = Bad

------------------------------------------------------------------------------
(* Rows. *)

Row == [known : BOOLEAN, path : Paths \cup {NoPath},
        parent : Sessions \cup {NoSession}, gen : Nat, size : Int,
        mtime : Int, fingerprint : Content, prefix : Seq(Line),
        nro : Nat, count : Nat]

Unset == [known |-> FALSE, path |-> NoPath, parent |-> NoSession, gen |-> 0,
          size |-> Null, mtime |-> Null, fingerprint |-> Empty,
          prefix |-> <<>>, nro |-> 0, count |-> 0]

\* insert_session_if_missing, then load_session.
RowFor(p) ==
    IF sess[IdOf[p]].known THEN sess[IdOf[p]]
    ELSE [Unset EXCEPT !.known = TRUE, !.path = p]

\* resolve_parent_session_id.
ResolvedParent(p) ==
    IF ParentOf[p] # NoSession /\ sess[ParentOf[p]].known
    THEN ParentOf[p] ELSE NoSession

EventKey == Nat \X Nat
GenerationKeys(rows, g) == {k \in DOMAIN rows : k[1] = g}

\* Mutant of InsertOrIgnore: the session is rebuilt from the rows in new.
DeleteThenInsert(rows, new) == new

\* INSERT OR IGNORE of the rows in new.
InsertOrIgnore(rows, new) ==
    [k \in DOMAIN rows \cup DOMAIN new |->
        IF k \in DOMAIN rows THEN rows[k] ELSE new[k]]

\* The event rows of the lines start+1 .. n of one generation.
NewRows(g, lines, start, n) ==
    [k \in {g} \X (start .. n - 1) |-> lines[k[2] + 1]]

ErrorRow == [path : Paths, session : Sessions,
             kind : {"read_error", "invalid_json"}, gen : Nat, offset : Int]

JsonErrorsOf(p) == {e \in unresolved : e.path = p /\ e.kind = "invalid_json"}

------------------------------------------------------------------------------
(* The writers: agents appending to, rewriting and removing their files. *)

Init ==
    /\ file = [p \in Paths |-> [present |-> FALSE, content |-> Empty, mtime |-> 0]]
    /\ sess = [s \in Sessions |-> Unset]
    /\ events = [s \in Sessions |-> << >>]
    /\ unresolved = {}
    /\ pc = "idle" /\ todo = {} /\ retry = {}
    /\ pass = [size |-> 0, mtime |-> 0]
    /\ buf = Empty
    /\ crashes = 0
    /\ ver = [p \in Paths |-> 0]
    /\ rewritten = [p \in Paths |-> FALSE]
    /\ had = [s \in Sessions |-> {}]

\* d is c with something added at its end.
Continues(c, d) ==
    /\ Len(c.lines) <= Len(d.lines)
    /\ \A i \in 1 .. Len(c.lines) : d.lines[i] = c.lines[i]
    /\ c.tail # NoLine =>
          c.tail = IF Len(d.lines) = Len(c.lines) THEN d.tail ELSE d.lines[Len(c.lines) + 1]

\* p now has content c.
Write(p, c) ==
    /\ ver[p] < MaxWrites
    /\ Len(c.lines) <= MaxLines
    /\ \E t \in {file[p].mtime + 1} \cup (IF CoarseClock THEN {file[p].mtime} ELSE {}) :
          file' = [file EXCEPT ![p] = [present |-> TRUE, content |-> c, mtime |-> t]]
    /\ ver' = [ver EXCEPT ![p] = @ + 1]
    /\ rewritten' = [rewritten EXCEPT ![p] = @ \/ ~Continues(file[p].content, c)]
    /\ had' = [had EXCEPT ![IdOf[p]] = @ \cup {c.lines}]
    /\ UNCHANGED <<db, proc, crashes>>

Create(p) ==
    /\ ~file[p].present
    /\ Write(p, Empty)

AppendLine(p) ==
    /\ file[p].present
    /\ file[p].content.tail = NoLine
    /\ \E l \in Line :
          Write(p, [file[p].content EXCEPT !.lines = Append(@, l)])

StartLine(p) ==
    /\ file[p].present
    /\ file[p].content.tail = NoLine
    /\ \E l \in Line : Write(p, [file[p].content EXCEPT !.tail = l])

FinishLine(p) ==
    LET c == file[p].content IN
    /\ file[p].present
    /\ c.tail # NoLine
    /\ Write(p, [lines |-> Append(c.lines, c.tail), tail |-> NoLine])

\* The file is replaced by any other lines: truncated, grown or edited.
Rewrite(p) ==
    /\ file[p].present
    /\ \E n \in 0 .. MaxLines : \E ls \in [1 .. n -> Line] :
          Write(p, [lines |-> ls, tail |-> NoLine])

Vanish(p) ==
    /\ file[p].present
    /\ ver[p] < MaxWrites
    /\ file' = [file EXCEPT ![p].present = FALSE]
    /\ ver' = [ver EXCEPT ![p] = @ + 1]
    /\ UNCHANGED <<db, proc, crashes, rewritten, had>>

Writer ==
    \E p \in Paths :
        \/ Create(p) \/ AppendLine(p) \/ StartLine(p) \/ FinishLine(p)
        \/ Rewrite(p) \/ Vanish(p)

------------------------------------------------------------------------------
(* The ingest process. *)

\* run_ingest: take the lock, discover, load the paths with open errors.
StartRun ==
    /\ pc = "idle"
    /\ pc' = "run"
    /\ todo' = {p \in Paths : file[p].present}
    /\ retry' = {p \in Paths : JsonErrorsOf(p) # {}}
    /\ UNCHANGED <<file, db, pass, buf, crashes, ver, rewritten, had>>

\* sort_source_files_with_parents_last.
Before(p, q) ==
    IF (ParentOf[p] = NoSession) # (ParentOf[q] = NoSession)
    THEN ParentOf[p] = NoSession
    ELSE PathOrder[p] <= PathOrder[q]

NextFile(p) == p \in todo /\ \A q \in todo : Before(p, q)

\* unchanged_by_mtime.
UnchangedByMtime(row, size, mtime) ==
    /\ row.size = size
    /\ row.mtime = mtime

\* The pass over p ends, the run goes on with the next file.
PassDone(p) ==
    /\ pc' = "run"
    /\ todo' = todo \ {p}
    /\ pass' = [size |-> 0, mtime |-> 0]
    /\ buf' = Empty
    /\ UNCHANGED <<file, crashes, ver, rewritten, had>>

\* Mutant of LinkedRow: the parent link is not refreshed.
RelocatedRow(row, p) == [row EXCEPT !.path = p]

\* update_skipped_session, without and with a checked file.
LinkedRow(row, p) == [row EXCEPT !.path = p, !.parent = ResolvedParent(p)]
CheckedRow(row, p) ==
    [LinkedRow(row, p) EXCEPT !.size = pass.size, !.mtime = pass.mtime,
                              !.fingerprint = buf]

\* The stat alone shows nothing changed: only the links are refreshed.
SkipByStat(p) ==
    LET f == file[p] IN
    /\ pc = "run" /\ NextFile(p) /\ f.present
    /\ sess[IdOf[p]].known
    /\ p \notin retry
    /\ UnchangedByMtime(sess[IdOf[p]], Size(f.content), f.mtime)
    /\ sess' = [sess EXCEPT ![IdOf[p]] = LinkedRow(@, p)]
    /\ PassDone(p)
    /\ UNCHANGED <<events, unresolved, retry>>

\* The stat differs from the stored row: the pass goes on to read the file.
Stat(p) ==
    LET f == file[p] IN
    /\ pc = "run" /\ NextFile(p) /\ f.present
    /\ ~(/\ sess[IdOf[p]].known
         /\ p \notin retry
         /\ UnchangedByMtime(sess[IdOf[p]], Size(f.content), f.mtime))
    /\ pc' = "open"
    /\ pass' = [size |-> Size(f.content), mtime |-> f.mtime]
    /\ UNCHANGED <<file, db, todo, retry, buf, crashes, ver, rewritten, had>>

Read(p) ==
    /\ pc = "open" /\ NextFile(p) /\ file[p].present
    /\ pc' = "commit"
    /\ buf' = ReadBounded(file[p].content, pass.size)
    /\ UNCHANGED <<file, db, todo, retry, pass, crashes, ver, rewritten, had>>

\* record_source_file_ingest_error: the stat or the open finds no file.
ReadError(p) ==
    LET row == RowFor(p) IN
    /\ pc \in {"run", "open"} /\ NextFile(p) /\ ~file[p].present
    /\ sess' = [sess EXCEPT ![IdOf[p]] = row]
    /\ unresolved' = unresolved \cup
          {[path |-> p, session |-> IdOf[p], kind |-> "read_error",
            gen |-> row.gen, offset |-> Null]}
    /\ PassDone(p)
    /\ UNCHANGED <<events, retry>>

\* Mutant of PrefixIntact: the content before the offset is not compared.
LongEnough(row, b) == row.nro <= Len(b.lines)

\* append_prefix_intact.
PrefixIntact(row, b) ==
    \/ row.nro = 0
    \/ row.nro <= Len(b.lines) /\ SubSeq(b.lines, 1, row.nro) = row.prefix

\* Mutant of ImportMode: an unchanged file is not recognised.
ImportModeWithoutSkip(row, size, b, intact, retrying) ==
    CASE row.size = Null -> "Append"
      [] OTHER ->
           IF /\ intact
              /\ \/ retrying /\ size >= 2 * row.nro
                 \/ size > row.size
           THEN "Append" ELSE "Rewrite"

\* import_mode.
ImportMode(row, size, b, intact, retrying) ==
    CASE row.size = size /\ row.fingerprint = b -> "Skip"
      [] row.size = Null -> "Append"
      [] OTHER ->
           IF /\ intact
              /\ \/ retrying /\ size >= 2 * row.nro
                 \/ size > row.size
           THEN "Append" ELSE "Rewrite"

ModeOf(p) ==
    LET row == RowFor(p)
    IN  ImportMode(row, pass.size, buf, PrefixIntact(row, buf), p \in retry)

\* Mutant of ResolveJsonErrors: any retry of the file resolves its errors.
ResolveOnRetry(p, nro, boundary) ==
    IF p \in retry
    THEN /\ retry' = retry \ {p}
         /\ unresolved' = unresolved \ JsonErrorsOf(p)
    ELSE UNCHANGED <<retry, unresolved>>

\* resolve_invalid_json_error_if_fully_read.
ResolveJsonErrors(p, nro, boundary) ==
    IF nro >= boundary /\ p \in retry
    THEN /\ retry' = retry \ {p}
         /\ unresolved' = unresolved \ JsonErrorsOf(p)
    ELSE UNCHANGED <<retry, unresolved>>

\* ImportMode::Skip: refresh the file state and the links.
CommitSkip(p) ==
    LET row == RowFor(p) IN
    /\ pc = "commit" /\ NextFile(p)
    /\ ModeOf(p) = "Skip"
    /\ sess' = [sess EXCEPT ![IdOf[p]] = CheckedRow(row, p)]
    /\ ResolveJsonErrors(p, row.nro, Len(buf.lines))
    /\ PassDone(p)
    /\ UNCHANGED events

\* Mutant of TargetGeneration: a rewritten file stays in its generation.
SameGeneration(row, mode) == row.gen

\* Mutant of StartLineOf: an append starts one line late.
StartOneLineLate(row, mode, b) ==
    IF mode = "Append" /\ row.nro < Len(b.lines) THEN row.nro + 1
    ELSE IF mode = "Append" THEN Len(b.lines) ELSE 0

\* The generation an import writes to, and the line it starts after.
TargetGeneration(row, mode) == IF mode = "Rewrite" THEN row.gen + 1 ELSE row.gen
StartLineOf(row, mode, b) ==
    IF mode = "Append" /\ row.nro <= Len(b.lines) THEN row.nro
    ELSE IF mode = "Append" THEN Len(b.lines) ELSE 0

\* Mutant of ImportedRow: the fingerprint of the prefix covers the whole file.
WholeFilePrefix(p, g, b, n, rows) ==
    [known |-> TRUE, path |-> p, parent |-> ResolvedParent(p), gen |-> g,
     size |-> pass.size, mtime |-> pass.mtime, fingerprint |-> b,
     prefix |-> b.lines, nro |-> n,
     count |-> Cardinality(GenerationKeys(rows, g))]

\* The sessions row after an import that consumed n lines of b.
ImportedRow(p, g, b, n, rows) ==
    [known |-> TRUE, path |-> p, parent |-> ResolvedParent(p), gen |-> g,
     size |-> pass.size, mtime |-> pass.mtime, fingerprint |-> b,
     prefix |-> SubSeq(b.lines, 1, n), nro |-> n,
     count |-> Cardinality(GenerationKeys(rows, g))]

\* One transaction: the events, the session row and the errors of the file.
CommitImport(p) ==
    LET s     == IdOf[p]
        row   == RowFor(p)
        mode  == ModeOf(p)
        g     == TargetGeneration(row, mode)
        start == StartLineOf(row, mode, buf)
    IN
    /\ pc = "commit" /\ NextFile(p)
    /\ mode # "Skip"
    /\ \E n \in start .. Len(buf.lines) :
          LET rows == InsertOrIgnore(events[s], NewRows(g, buf.lines, start, n)) IN
          /\ StopsAt(buf.lines, start, n)
          /\ events' = [events EXCEPT ![s] = rows]
          /\ sess' = [sess EXCEPT ![s] = ImportedRow(p, g, buf, n, rows)]
          /\ IF n < Len(buf.lines)
             THEN /\ unresolved' = unresolved \cup
                       {[path |-> p, session |-> s, kind |-> "invalid_json",
                         gen |-> g, offset |-> n]}
                  /\ UNCHANGED retry
             ELSE ResolveJsonErrors(p, n, Len(buf.lines))
    /\ PassDone(p)

EndRun ==
    /\ pc = "run" /\ todo = {}
    /\ pc' = "idle"
    /\ UNCHANGED <<file, db, todo, retry, pass, buf, crashes, ver, rewritten, had>>

\* The process dies: an open transaction is rolled back, memory is lost.
Crash ==
    /\ pc # "idle"
    /\ crashes < MaxCrashes
    /\ crashes' = crashes + 1
    /\ pc' = "idle" /\ todo' = {} /\ retry' = {} /\ buf' = Empty
    /\ pass' = [size |-> 0, mtime |-> 0]
    /\ UNCHANGED <<file, db, ver, rewritten, had>>

Ingest(p) ==
    \/ SkipByStat(p) \/ Stat(p) \/ Read(p) \/ ReadError(p)
    \/ CommitSkip(p) \/ CommitImport(p)

Step == StartRun \/ EndRun \/ \E p \in Paths : Ingest(p)

Next == Writer \/ Step \/ Crash

Spec == Init /\ [][Next]_vars

\* The user keeps running `jottrace ingest` and a run keeps going unless it
\* crashes; nothing is assumed of the writers.
FairSpec == Spec /\ WF_vars(Step)
------------------------------------------------------------------------------
(* Properties. *)

\* The type of every variable.
TypeOK ==
    /\ file \in [Paths -> [present : BOOLEAN, content : Content, mtime : Int]]
    /\ sess \in [Sessions -> Row]
    /\ events = [s \in Sessions |-> events[s]]
    /\ \A s \in Sessions : /\ DOMAIN events[s] \subseteq EventKey
                           /\ events[s] \in [DOMAIN events[s] -> Line]
    /\ unresolved \subseteq ErrorRow
    /\ pc \in {"idle", "run", "open", "commit"}
    /\ todo \subseteq Paths /\ retry \subseteq Paths
    /\ pass \in [size : Nat, mtime : Int]
    /\ buf \in Content
    /\ crashes \in Nat
    /\ ver \in [Paths -> Nat] /\ rewritten \in [Paths -> BOOLEAN]
    /\ had \in [Sessions -> SUBSET Seq(Line)]

\* The lines preserved in generation g of session s, in seq order.
GenerationLines(s, g) ==
    [i \in 1 .. Cardinality(GenerationKeys(events[s], g)) |-> events[s][<<g, i - 1>>]]

\* Generation g consists of the first n lines, each at its line number.
Holds(rows, g, lines, n) ==
    /\ GenerationKeys(rows, g) = {g} \X (0 .. n - 1)
    /\ \A q \in 0 .. n - 1 : rows[<<g, q>>] = lines[q + 1]

\* The event rows agree with the sessions row r.
RowPreserved(r, rows) ==
    /\ Holds(rows, r.gen, r.prefix, r.nro)
    /\ r.nro = Len(r.prefix) /\ r.count = r.nro
    /\ \A k \in DOMAIN rows : k[1] <= r.gen

\* next_read_offset never moves past data that was not preserved, and
\* event_count and prefix_fingerprint describe exactly the same lines: the
\* rows of the current generation are the lines before next_read_offset, each
\* at its line number, and no row belongs to a later generation.
PreservedPrefix == \A s \in Sessions : RowPreserved(sess[s], events[s])

\* Every generation is the beginning of one version of the file: stats, reads,
\* rewrites, appends and crashes in any order never make a generation that
\* mixes the lines of two versions or leaves one out.
GenuineGenerations ==
    \A s \in Sessions : \A g \in 0 .. sess[s].gen :
        \E v \in had[s] \cup {<<>>} : \E n \in 0 .. Len(v) :
            Holds(events[s], g, v, n)

\* No step deletes or alters a preserved event, and a superseded generation
\* gets no further event: the journal outlives whatever happens to its source.
PreservedForever ==
    [][\A s \in Sessions :
          /\ \A k \in DOMAIN events[s] :
                k \in DOMAIN events'[s] /\ events'[s][k] = events[s][k]
          /\ \A k \in DOMAIN events'[s] \ DOMAIN events[s] : k[1] >= sess[s].gen
      ]_vars

\* The stored row describes p as it now is.
Settled(p) ==
    /\ file[p].present
    /\ sess[IdOf[p]].known
    /\ sess[IdOf[p]].size = Size(file[p].content)
    /\ sess[IdOf[p]].fingerprint = file[p].content

\* No other file has p's session id.
Sole(p) == \A q \in Paths : IdOf[q] = IdOf[p] => q = p

\* `status` tells the truth about a file that was read as it is: an open
\* invalid_json error points at the very line where reading stopped, and none
\* is open, not even one of an earlier version, when all of it was preserved.
\* (Of two files with one session id, one may be taken for the other.)
BadLineVisible ==
    \A p \in Paths :
        LET r == sess[IdOf[p]] IN
        Sole(p) /\ Settled(p) =>
            IF r.nro < Len(file[p].content.lines)
            THEN \E e \in JsonErrorsOf(p) : e.gen = r.gen /\ e.offset = r.nro
            ELSE JsonErrorsOf(p) = {}

\* A pass that finds what is stored writes no event: not when only the mtime
\* moved, not when an error of the file is retried, not when the file changed
\* and changed back during the pass, not after a crash.
SameContentWritesNothing ==
    [][\A p \in Paths :
          NextFile(p) /\ Settled(p) /\ (pc = "commit" => buf = file[p].content)
          => UNCHANGED events]_vars

\* A file that is only appended to, a half-written line at a time, is never
\* mistaken for a rewritten one: all its lines stay in generation 0.
AppendOnlyNeverReindexed ==
    \A p \in Paths : Sole(p) /\ ~rewritten[p] => sess[IdOf[p]].gen = 0

\* A session whose parent is preserved links to it after a pass.
LinkedToParent(p) ==
    ParentOf[p] # NoSession /\ sess[ParentOf[p]].known =>
        sess[IdOf[p]].parent = ParentOf[p]

\* The current generation of p's session is all of p up to its first bad line.
Captured(p) ==
    LET r == sess[IdOf[p]]
        lines == file[p].content.lines
    IN  /\ r.known /\ r.nro <= Len(lines)
        /\ StopsAt(lines, 0, r.nro)
        /\ r.prefix = SubSeq(lines, 1, r.nro)

\* However writers, runs and crashes interleave, once a file is left alone its
\* session ends up with every committed line before the first bad one and with
\* the link to its parent, and stays so; a bad file does not hold up another.
Convergence ==
    \A p \in Paths :
        <>[](file[p].present => Captured(p) /\ LinkedToParent(p))

\* The generations of the journal that the tables stand for.
JournalView ==
    [s \in Sessions |->
        [i \in 1 .. sess[s].gen + 1 |-> GenerationLines(s, i - 1)]]

AbstractJournal == INSTANCE Journal WITH versions <- had, journal <- JournalView

\* The tables implement the abstract journal.
ImplementsJournal == AbstractJournal!Spec
==============================================================================
