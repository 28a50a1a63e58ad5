---------------------------- MODULE HeaderIngest ----------------------------
(***************************************************************************)
(* Ingest of files that name their session themselves: Codex, Factory and  *)
(* local-agent transcripts in their first line, Gemini chats in their JSON *)
(* object.  The id is looked up by path, or read from the file, before the *)
(* file is read for its events; a file that cannot be identified gets a    *)
(* row without events under an id made of its path, the placeholder.  Such *)
(* rows are renamed or deleted later, and files are moved and replaced.    *)
(*                                                                         *)
(* What an import does with the lines of a file that keeps its identity is *)
(* in JsonlIngest.  Here the lines after the header are only counted, and  *)
(* all of them parse.                                                      *)
(***************************************************************************)
EXTENDS Integers, Sequences, FiniteSets

CONSTANTS
    Paths, PathOrder,  \* the files of one source, and their lexical order
    Heads,             \* the session ids that headers name
    PathId,            \* the id made of a path
    NoId,              \* no header, or one that names no session
    Kinds,             \* the sources to consider
    MaxBody, MaxWrites, MaxCrashes  \* bounds on the environment

Ids == Heads \cup {PathId[p] : p \in Paths}

ASSUME PathAssumption ==
    /\ PathOrder \in [Paths -> Int]
    /\ \A p, q \in Paths : PathOrder[p] = PathOrder[q] => p = q
    /\ NoId \notin Ids
ASSUME KindAssumption == Kinds \subseteq {"codex", "factory", "gemini"}
ASSUME BoundAssumption == MaxBody \in Nat /\ MaxWrites \in Nat /\ MaxCrashes \in Nat

None == -1

\* What is in a file: nothing; the beginning of a first line (half); a first
\* line that names no session; or a header and so many lines after it.
Empty == [head |-> NoId, lines |-> 0, half |-> 0]
HalfHeader == [Empty EXCEPT !.half = 1]
BadHeader == [Empty EXCEPT !.lines = 1]
Content ==
    {Empty, HalfHeader, BadHeader}
        \cup [head : Heads, lines : 1 .. MaxBody + 1, half : {0}]

Size(c) == 2 * c.lines + c.half

VARIABLES
    kind,     \* the source
    file,     \* path -> its content and mtime, as the agents leave them
    clock,    \* history: number of changes to the files, and the next mtime
    sess,     \* the sessions table: id -> row
    errors,   \* unresolved invalid_session_meta errors, by path
    pc,       \* where the ingest process is
    todo,     \* discovered files the run has not finished
    retry,    \* IngestState.unresolved_invalid_session_meta_paths
    pass,     \* the pass over the current file
    crashes,  \* history: number of crashes so far
    mixed     \* history: the files imported although they changed under the
              \* pass, and the sessions if it was after the identification

db == <<sess, errors, mixed>>
proc == <<pc, todo, retry, pass>>
world == <<kind, file, clock>>
vars == <<kind, file, clock, sess, errors, pc, todo, retry, pass, crashes, mixed>>

NoFile == [present |-> FALSE, content |-> Empty, mtime |-> 0]
NoPass == [size |-> 0, mtime |-> 0, id |-> NoId, buf |-> Empty, changed |-> "no"]

\* A row: its generations as the lines they hold, and what its last import saw
\* of the file, None and Empty when there was none.
Fresh(p) ==
    [path |-> p, gens |-> <<Empty>>, size |-> None, mtime |-> None, fingerprint |-> Empty]

\* is_empty_source_file_placeholder
IsPlaceholder(row) == row.gens = <<Empty>> /\ row.size = None

\* load_session_by_source_file_path: any one, if several rows have the path.
StoredAt(p) ==
    LET ids == {i \in DOMAIN sess : sess[i].path = p}
    IN  IF ids = {} THEN {NoId} ELSE ids

\* insert_session_if_missing, load_session
RowFor(i, p) == IF i \in DOMAIN sess THEN sess[i] ELSE Fresh(p)

Put(i, row) == [j \in DOMAIN sess \cup {i} |-> IF j = i THEN row ELSE sess[j]]

Init ==
    /\ kind \in Kinds
    /\ file = [p \in Paths |-> NoFile]
    /\ clock = 0
    /\ sess = << >> /\ errors = {} /\ mixed = {}
    /\ pc = "idle" /\ todo = {} /\ retry = {} /\ pass = NoPass
    /\ crashes = 0

------------------------------------------------------------------------------
(* The agents and the user. *)

NextFile(p) == p \in todo /\ \A q \in todo : PathOrder[p] <= PathOrder[q]

Change(new) ==
    /\ clock < MaxWrites
    /\ clock' = clock + 1
    /\ file' = new
    /\ pass' = IF pc \in {"identify", "read"} /\ \E p \in todo : NextFile(p) /\ new[p] # file[p]
               THEN [pass EXCEPT !.changed = pc] ELSE pass
    /\ UNCHANGED <<kind, db, pc, todo, retry, crashes>>

Names(p, i) == file[p].present /\ file[p].content.head = i

\* The file is created, written to or replaced.  No two files name a session:
\* every run would import them in turn, as two generations more.
Write(p, c) ==
    /\ c.head # NoId => \A q \in Paths \ {p} : ~Names(q, c.head)
    /\ Change([file EXCEPT ![p] = [present |-> TRUE, content |-> c, mtime |-> clock + 1]])

\* A moved file keeps its mtime.
Move(p, q) ==
    /\ p # q /\ file[p].present
    /\ Change([file EXCEPT ![q] = file[p], ![p] = NoFile])

Remove(p) ==
    /\ file[p].present
    /\ Change([file EXCEPT ![p] = NoFile])

Writer ==
    \E p \in Paths :
        (\E c \in Content : Write(p, c)) \/ (\E q \in Paths : Move(p, q)) \/ Remove(p)

------------------------------------------------------------------------------
(* The ingest process. *)

StartRun ==
    /\ pc = "idle"
    /\ pc' = "run"
    /\ todo' = {p \in Paths : file[p].present}
    /\ retry' = errors
    /\ UNCHANGED <<world, db, pass, crashes>>

PassDone(p) ==
    /\ pc' = "run"
    /\ todo' = todo \ {p}
    /\ pass' = NoPass
    /\ UNCHANGED <<world, crashes>>

\* resolve_invalid_session_meta_error: only of errors known before the run.
ResolveErrors(p) ==
    /\ errors' = errors \ ({p} \cap retry)
    /\ retry' = retry \ {p}

\* The id an error is recorded under when its path has no row; of a Gemini chat
\* it is read again (recover_gemini_source_session_id).
ErrorId(p) ==
    IF kind = "gemini" /\ file[p].present /\ file[p].content.head # NoId
    THEN file[p].content.head
    ELSE PathId[p]

\* record_source_file_ingest_error: the path's row, or a placeholder.
Fail(p, meta) ==
    /\ errors' = IF meta THEN errors \cup {p} ELSE errors
    /\ sess' = IF StoredAt(p) = {NoId}
               THEN Put(ErrorId(p), RowFor(ErrorId(p), p)) ELSE sess
    /\ PassDone(p)
    /\ UNCHANGED <<retry, mixed>>

Stat(p) ==
    /\ pc = "run" /\ NextFile(p)
    /\ IF file[p].present
       THEN /\ pc' = "identify"
            /\ pass' = [NoPass EXCEPT !.size = Size(file[p].content), !.mtime = file[p].mtime]
            /\ UNCHANGED <<world, db, todo, retry, crashes>>
       ELSE Fail(p, FALSE)

\* unchanged_by_mtime
Unchanged(row) == row.size = pass.size /\ row.mtime = pass.mtime

\* read_bounded: the first half lines of c.
Cut(c, size) ==
    IF Size(c) <= size THEN c
    ELSE [head  |-> IF size < 2 THEN NoId ELSE c.head,
          lines |-> size \div 2, half |-> size % 2]

Identified(i, buf) ==
    /\ pc' = "read"
    /\ pass' = [pass EXCEPT !.id = i, !.buf = buf]
    /\ UNCHANGED <<world, errors, mixed, todo, retry, crashes>>

\* Mutant of MayRename: any row of the path is given the new id.
MayRenameAny(stored, i) == stored \in DOMAIN sess /\ i \notin DOMAIN sess

\* reuse_source_file_session_identity
MayRename(stored, i) ==
    /\ stored \in DOMAIN sess
    /\ IsPlaceholder(sess[stored])
    /\ i \notin DOMAIN sess

Renamed(stored, i) ==
    IF MayRename(stored, i)
    THEN [j \in (DOMAIN sess \ {stored}) \cup {i} |-> IF j = i THEN sess[stored] ELSE sess[j]]
    ELSE sess

\* The id in the file, from its first committed line or the whole of a chat.
ByHeader(p, stored) ==
    LET c == IF kind = "gemini" THEN Cut(file[p].content, pass.size) ELSE file[p].content
    IN  IF ~file[p].present THEN Fail(p, FALSE)
        ELSE IF c.head = NoId
                \/ (kind = "gemini" /\ c # file[p].content)
        THEN Fail(p, TRUE)
        ELSE /\ sess' = Renamed(stored, c.head)
             /\ Identified(c.head, c)

\* Mutant of KeepsId: any row of the path is taken for the file's.
KeepsIdAlways(stored) == stored \in DOMAIN sess /\ ~IsPlaceholder(sess[stored])

\* A file that did not change since the import of the path's row is not asked.
KeepsId(stored) == stored \in DOMAIN sess /\ Unchanged(sess[stored])

\* Mutant of DropsRow: any row of an empty file is deleted.
DropsRowAny(stored) == stored \in DOMAIN sess

\* remove_empty_source_file_placeholder
DropsRow(stored) == stored \in DOMAIN sess /\ IsPlaceholder(sess[stored])

\* Mutant of NoteEmpty: the error of a file that is empty now stays open.
NoteEmptyLate(p) == UNCHANGED <<errors, retry>>

NoteEmpty(p) == ResolveErrors(p)

\* An empty Codex file is no session yet, unless it is known as one.
EmptyCodex(p, stored) ==
    IF stored \in DOMAIN sess /\ ~DropsRow(stored)
    THEN UNCHANGED sess /\ Identified(stored, Empty)
    ELSE /\ NoteEmpty(p)
         /\ sess' = [i \in DOMAIN sess \ {stored} |-> sess[i]]
         /\ PassDone(p)
         /\ UNCHANGED mixed

\* resolve_source_file
Identify(p) ==
    /\ pc = "identify" /\ NextFile(p)
    /\ \E stored \in StoredAt(p) :
          IF kind = "codex" /\ pass.size = 0 THEN EmptyCodex(p, stored)
          ELSE IF KeepsId(stored) THEN UNCHANGED sess /\ Identified(stored, Empty)
          ELSE ByHeader(p, stored)

\* The file is as the row's last import saw it: the row gets its path.
SkipUnchanged(p) ==
    /\ pc = "read" /\ NextFile(p)
    /\ pass.id \in DOMAIN sess /\ Unchanged(sess[pass.id])
    /\ sess' = [sess EXCEPT ![pass.id].path = p]
    /\ ResolveErrors(p)
    /\ PassDone(p)
    /\ UNCHANGED mixed

\* A Gemini chat has been read already.
Read(p) ==
    /\ pc = "read" /\ NextFile(p)
    /\ ~(pass.id \in DOMAIN sess /\ Unchanged(sess[pass.id]))
    /\ IF kind = "gemini" /\ pass.buf.head # NoId
       THEN pc' = "commit" /\ UNCHANGED <<world, db, todo, retry, pass, crashes>>
       ELSE IF file[p].present
       THEN /\ pc' = "commit"
            /\ pass' = [pass EXCEPT !.buf = Cut(file[p].content, pass.size)]
            /\ UNCHANGED <<world, db, todo, retry, crashes>>
       ELSE Fail(p, FALSE)

\* The complete lines.
Lines(c) == [c EXCEPT !.half = 0]

\* append_prefix_intact
PrefixIntact(gen, c) == gen.lines = 0 \/ (gen.head = c.head /\ gen.lines <= c.lines)

\* import_mode and its consequence for the generations.
Imported(gens, row, c) ==
    IF row.size = pass.size /\ row.fingerprint = c THEN gens
    ELSE IF \/ row.size = None
            \/ kind # "gemini" /\ PrefixIntact(gens[Len(gens)], c) /\ pass.size > row.size
    THEN [gens EXCEPT ![Len(gens)] = Lines(c)]
    ELSE Append(gens, Lines(c))

Commit(p) ==
    LET row == RowFor(pass.id, p) IN
    /\ pc = "commit" /\ NextFile(p)
    /\ sess' = Put(pass.id,
                   [path |-> p, size |-> pass.size, mtime |-> pass.mtime,
                    fingerprint |-> pass.buf, gens |-> Imported(row.gens, row, pass.buf)])
    /\ mixed' = mixed \cup (IF pass.changed = "no" THEN {} ELSE {p})
                       \cup (IF pass.changed = "read" THEN {pass.id} ELSE {})
    /\ ResolveErrors(p)
    /\ PassDone(p)

EndRun ==
    /\ pc = "run" /\ todo = {}
    /\ pc' = "idle"
    /\ retry' = {}
    /\ UNCHANGED <<world, db, todo, pass, crashes>>

Crash ==
    /\ pc # "idle" /\ crashes < MaxCrashes
    /\ crashes' = crashes + 1
    /\ pc' = "idle" /\ todo' = {} /\ retry' = {} /\ pass' = NoPass
    /\ UNCHANGED <<world, db>>

Step ==
    \/ StartRun \/ EndRun
    \/ \E p \in Paths : Stat(p) \/ Identify(p) \/ SkipUnchanged(p) \/ Read(p) \/ Commit(p)

Next == Writer \/ Step \/ Crash

Spec == Init /\ [][Next]_vars

\* The user keeps running ingest, and a run goes on.
FairSpec == Spec /\ WF_vars(Step)
------------------------------------------------------------------------------
(* Properties. *)

Generation == {Lines(c) : c \in Content}

\* Type correctness.
TypeOK ==
    /\ kind \in Kinds /\ clock \in 0 .. MaxWrites /\ crashes \in 0 .. MaxCrashes
    /\ file \in [Paths -> [present : BOOLEAN, content : Content, mtime : 0 .. MaxWrites]]
    /\ DOMAIN sess \subseteq Ids
    /\ \A i \in DOMAIN sess :
          /\ sess[i].path \in Paths /\ sess[i].fingerprint \in Content
          /\ sess[i].size \in {None} \cup Nat /\ sess[i].mtime \in {None} \cup Nat
          /\ (sess[i].size = None) = (sess[i].mtime = None)
          /\ sess[i].gens \in Seq(Generation)
    /\ errors \subseteq Paths /\ todo \subseteq Paths /\ retry \subseteq Paths
    /\ pc \in {"idle", "run", "identify", "read", "commit"}
    /\ pass \in [size : Nat, mtime : Nat, id : Ids \cup {NoId}, buf : Content,
                 changed : {"no", "identify", "read"}]
    /\ mixed \subseteq Ids \cup Paths

\* The lines of a session are lines of files that name it: no renaming, moving
\* or replacing of files, and no placeholder, gives it those of another, unless
\* the file was replaced after it was identified and before it was read, which
\* cannot happen to a Gemini chat.
LinesAreItsOwn ==
    \A i \in DOMAIN sess : i \notin mixed \/ kind = "gemini" =>
        \A g \in DOMAIN sess[i].gens :
            sess[i].gens[g].lines > 0 => sess[i].gens[g].head = i

\* A session with a preserved line is never removed or renamed, and keeps its
\* generations.
SessionsKept ==
    [][\A i \in DOMAIN sess : ~IsPlaceholder(sess[i]) =>
          /\ i \in DOMAIN sess'
          /\ Len(sess[i].gens) <= Len(sess'[i].gens)
          /\ \A g \in DOMAIN sess[i].gens :
                PrefixIntact(sess[i].gens[g], sess'[i].gens[g])]_vars

\* A file that is left alone ends up preserved under the id it names, whatever its path was known as.  Files that
\* changed under a pass are exempt: the pass stores what it read with the size
\* and mtime of before, and a file that has these again is not read again.
EventuallyCaptured ==
    \A p \in Paths : \A i \in Heads :
        <>[](Names(p, i) /\ mixed \cap {p, i} = {}
             => /\ i \in DOMAIN sess
                /\ sess[i].path = p
                /\ sess[i].gens[Len(sess[i].gens)] = Lines(file[p].content))

Unusable(p) ==
    file[p].content.head = NoId /\ ~(kind = "codex" /\ file[p].content = Empty)

\* An invalid_session_meta error is open in the end exactly if the file is still
\* there and cannot be identified; with the exemption of EventuallyCaptured.
EventuallyTold ==
    \A p \in Paths :
        <>[](file[p].present /\ p \notin mixed => (p \in errors) = Unusable(p))
==============================================================================
