--------------------------- MODULE SnapshotIngest ---------------------------
(***************************************************************************)
(* The readers of agents that keep their sessions in a SQLite store        *)
(* (OpenCode, Hermes): every ingest run reads each session of the store    *)
(* with several SELECT statements, outside one read transaction and while  *)
(* the agent writes, and stores what it read as a new generation when it   *)
(* differs from the last one.                                              *)
(*                                                                         *)
(* A record of the store is the number of the write that made it, 0 when   *)
(* it is absent; a fingerprint is the payloads it was computed from.  The  *)
(* size and mtime of the store file are one stamp, which a write need not  *)
(* move (WAL).  All sessions are of one source and share one path and one  *)
(* project, and ids are unique in their table.  Timestamps and occurrence  *)
(* counters of errors are left out.                                        *)
(***************************************************************************)
EXTENDS Integers, Sequences, FiniteSets

CONSTANTS
    Sessions,     \* session ids of the store
    Rows,         \* its messages, parts and session messages
    Project,      \* its project record
    SessionOf,    \* Rows -> Sessions
    RankOf,       \* Rows -> 1 .. 3: message, part, session_message
    CreatedAt,    \* Sessions \cup Rows -> time_created
    IdOrder,      \* Sessions \cup Rows -> lexical order of the ids
    ParentOf,     \* Sessions -> Sessions \cup {NoSession}
    StoreSession, \* the session id errors of the whole store are filed under
    NoSession,
    MaxWrites, MaxStamp, MaxFaults  \* bounds on the environment

Items == Sessions \cup Rows \cup {Project}
Ids == Sessions \cup {StoreSession}
Kinds == {"missing", "other", "unreadable", "ok"}

ASSUME StoreAssumption ==
    /\ IsFiniteSet(Sessions) /\ IsFiniteSet(Rows)
    /\ StoreSession \notin Sessions /\ NoSession \notin Ids
    /\ Project \notin Sessions \cup Rows /\ Sessions \cap Rows = {}
    /\ SessionOf \in [Rows -> Sessions]
    /\ RankOf \in [Rows -> 1 .. 3]
    /\ CreatedAt \in [Sessions \cup Rows -> Int]
    /\ IdOrder \in [Sessions \cup Rows -> Int]
    /\ \A s, t \in Sessions : IdOrder[s] = IdOrder[t] => s = t
    /\ \A q, r \in Rows : RankOf[q] = RankOf[r] /\ IdOrder[q] = IdOrder[r] => q = r
    /\ ParentOf \in [Sessions -> Sessions \cup {NoSession}]
    /\ MaxWrites \in Nat /\ MaxStamp \in Nat /\ MaxFaults \in Nat

VARIABLES
    source,  \* whose store it is
    store,   \* the agent's store
    rows,    \* table sessions
    events,  \* table events: id -> (generation -> its events by seq)
    errors,  \* the rows of ingest_errors with resolved_at NULL
    pc,      \* where the ingest process is
    todo,    \* discovered sessions the run has not finished
    flagged, \* is the store's path in unresolved_invalid_session_meta_paths?
    stamp,   \* the stat of the store taken by the current pass
    table,   \* the tables the current pass has read
    buf,     \* the events it has read
    faults,  \* history: crashes and busy reads so far
    writes,  \* history: number of writes to the store
    touched  \* history: writes that concern each session

db == <<rows, events, errors>>
agent == <<source, store, writes, touched>>
proc == <<pc, todo, flagged, stamp, table, buf>>
vars == <<agent, db, proc, faults>>

------------------------------------------------------------------------------
(* Events. *)

\* S in an order that is total on it.
Sorted(S, Before(_, _)) ==
    [n \in 1 .. Cardinality(S) |->
        CHOOSE x \in S : Cardinality({y \in S : Before(y, x)}) = n - 1]

Event == [item : Sessions \cup Rows, ver : Nat, project : Nat]

Rank(e) == IF e.item \in Sessions THEN 0 ELSE RankOf[e.item]

\* events.sort_by: sort_time, then rank, then id.
Precedes(e, f) ==
    LET s == CreatedAt[e.item]
        t == CreatedAt[f.item]
    IN  \/ s < t
        \/ s = t /\ Rank(e) < Rank(f)
        \/ s = t /\ Rank(e) = Rank(f) /\ IdOrder[e.item] < IdOrder[f.item]
Ordered(es) == Sorted(es, Precedes)

\* The session and its project in one SELECT; source_metadata repeats both.
OpenCodeSessionEvent(s) ==
    [item |-> s, ver |-> store.ver[s], project |-> store.ver[Project]]

\* The session alone.
HermesSessionEvent(s) == [item |-> s, ver |-> store.ver[s], project |-> 0]

SessionEvent(s) ==
    IF source = "opencode" THEN OpenCodeSessionEvent(s) ELSE HermesSessionEvent(s)

RowEvent(r) == [item |-> r, ver |-> store.ver[r], project |-> 0]

\* WHERE session_id = ?1, in one table.
RowsIn(s, rank) ==
    {r \in Rows : SessionOf[r] = s /\ RankOf[r] = rank /\ store.ver[r] # 0}

\* message, part and session_message, or messages.
Tables == IF source = "opencode" THEN 3 ELSE 1

\* What a read of s finds when nobody writes meanwhile.
SnapshotOf(s) ==
    Ordered({SessionEvent(s)} \cup
            UNION {{RowEvent(r) : r \in RowsIn(s, k)} : k \in 1 .. Tables})

------------------------------------------------------------------------------
(* Session rows and error rows. *)

Row == [known : BOOLEAN, parent : Ids \cup {NoSession}, gen : Nat, stamp : Int,
        print : Seq(Event), meta : {<<>>} \cup (Nat \X Nat), count : Nat]

Unset == [known |-> FALSE, parent |-> NoSession, gen |-> 0, stamp |-> -1,
          print |-> <<>>, meta |-> <<>>, count |-> 0]

\* insert_session_if_missing, then load_session.
RowFor(s) == IF rows[s].known THEN rows[s] ELSE [Unset EXCEPT !.known = TRUE]

\* is_empty_source_file_placeholder (next_read_offset is the event count).
IsPlaceholder(row) == row.gen = 0 /\ row.count = 0 /\ row.print = <<>>

\* resolve_parent_session_id; no parent in the store unlinks the row.
ResolvedParent(s) ==
    IF s \in Sessions /\ ParentOf[s] # NoSession /\ rows[ParentOf[s]].known
    THEN ParentOf[s] ELSE NoSession

MetaOf(snap, s) ==
    LET i == CHOOSE i \in DOMAIN snap : snap[i].item = s
    IN  <<snap[i].ver, snap[i].project>>

\* Mutant of Differs: the stamp decides, as it does for JSONL files.
StampDiffers(row, snap) == row.print # snap \/ row.stamp # stamp

\* The fingerprint of the snapshot is not the stored one.
Differs(row, snap) == row.print # snap

\* Mutant of Matches: the parent link is not compared.
MatchesButParent(row, snap, s) == row.stamp = stamp /\ row.meta = MetaOf(snap, s)

\* stored_sqlite_snapshot_matches.
Matches(row, snap, s) ==
    /\ row.stamp = stamp
    /\ row.parent = ResolvedParent(s)
    /\ row.meta = MetaOf(snap, s)

\* Mutant of Generation: the snapshot is filed under the stored generation.
SameGeneration(row) == row.gen

Generation(row) == IF ~row.known \/ IsPlaceholder(row) THEN 0 ELSE row.gen + 1

\* INSERT OR IGNORE with the primary key (session, generation, seq).
InsertOrIgnore(old, new) == old \o SubSeq(new, Len(old) + 1, Len(new))

GenerationRows(s, g) == IF g \in DOMAIN events[s] THEN events[s][g] ELSE <<>>

ErrorRow == [session : Ids, gen : Nat,
             kind : {"invalid_session_meta", "not_file", "read_error"}]

\* record_ingest_error: count up the unresolved row, or insert one.
Record(es, e) == es \cup {e}

MetaErrors == {e \in errors : e.kind = "invalid_session_meta"}

Current == Head(todo)

\* Mutant of Resolve: the table is updated whatever the set says.
ResolveAlways == errors \ MetaErrors

\* Mutant of Resolve: only the errors of the session that was read.
ResolveOwn == IF flagged THEN errors \ {e \in MetaErrors : e.session = Current}
              ELSE errors

\* resolve_source_file_error: by path, which all sessions of the store share,
\* and only when the set loaded at the start of the run has it.
Resolve == IF flagged THEN errors \ MetaErrors ELSE errors

------------------------------------------------------------------------------
(* The agent. *)

Init ==
    /\ source \in {"opencode", "hermes"}
    /\ store = [kind |-> "missing", ver |-> [i \in Items |-> 0], bad |-> {},
                stamp |-> 0]
    /\ rows = [s \in Ids |-> Unset]
    /\ events = [s \in Ids |-> << >>]
    /\ errors = {}
    /\ pc = "idle" /\ todo = <<>> /\ flagged = FALSE /\ stamp = -1
    /\ table = 0 /\ buf = {}
    /\ faults = 0 /\ writes = 0
    /\ touched = [s \in Ids |-> 0]

Concerns(i) ==
    IF i \in Rows THEN {SessionOf[i]} ELSE IF i \in Sessions THEN {i} ELSE Sessions

\* One write of the agent, which may leave size and mtime as they were.
Write(new, concerned) ==
    /\ writes < MaxWrites
    /\ writes' = writes + 1
    /\ \E t \in {store.stamp, store.stamp + 1} :
          t <= MaxStamp /\ store' = [new EXCEPT !.stamp = t]
    /\ touched' = [s \in Ids |-> touched[s] + (IF s \in concerned THEN 1 ELSE 0)]
    /\ UNCHANGED <<source, db, proc, faults>>

\* A record is inserted or updated; a value of it may be undecodable.
Put(i) ==
    /\ store.kind = "ok"
    /\ i \in Rows => store.ver[SessionOf[i]] # 0 /\ RankOf[i] <= Tables
    /\ i = Project => source = "opencode"
    /\ \E bad \in BOOLEAN :
          Write([store EXCEPT !.ver[i] = writes + 1,
                              !.bad = IF bad THEN @ \cup {i} ELSE @ \ {i}],
                Concerns(i))

\* A record is deleted, a session with its rows.
Delete(i) ==
    /\ store.kind = "ok" /\ store.ver[i] # 0
    /\ LET gone == {i} \cup {r \in Rows : SessionOf[r] = i}
       IN  Write([store EXCEPT
                      !.ver = [j \in Items |-> IF j \in gone THEN 0 ELSE @[j]],
                      !.bad = @ \ gone], Concerns(i))

\* The store is created, locked away, damaged, repaired, or replaced by
\* something that is no file.
Become(kind) ==
    /\ store.kind # kind
    /\ Write([store EXCEPT !.kind = kind], {})

Agent ==
    \/ \E i \in Items : Put(i)
    \/ \E i \in Items : Delete(i)
    \/ \E k \in Kinds : Become(k)

------------------------------------------------------------------------------
(* One ingest run. *)

\* ORDER BY parent_id IS NOT NULL, time_created, id.
Discovered(s, t) ==
    LET key(x) == <<IF ParentOf[x] = NoSession THEN 0 ELSE 1,
                    CreatedAt[x], IdOrder[x]>>
    IN  \/ key(s)[1] < key(t)[1]
        \/ key(s)[1] = key(t)[1] /\ key(s)[2] < key(t)[2]
        \/ key(s)[1] = key(t)[1] /\ key(s)[2] = key(t)[2] /\ key(s)[3] < key(t)[3]

\* discover_sqlite_session_files.
SessionFiles ==
    CASE store.kind = "missing" -> <<>>
      [] store.kind = "ok" ->
            Sorted({s \in Sessions : store.ver[s] # 0}, Discovered)
      [] OTHER -> <<StoreSession>>

StartRun ==
    /\ pc = "idle"
    /\ todo' = SessionFiles
    /\ flagged' = (MetaErrors # {})
    /\ pc' = IF todo' = <<>> THEN "idle" ELSE "stat"
    /\ UNCHANGED <<agent, db, stamp, table, buf, faults>>

\* The run goes on with the next session after s.
NextSession ==
    /\ todo' = Tail(todo)
    /\ pc' = IF Len(todo) = 1 THEN "idle" ELSE "stat"
    /\ buf' = {} /\ stamp' = -1 /\ table' = 0

\* record_source_file_ingest_error: by session id for SQLite sources.
RecordError(kind) ==
    LET row == RowFor(Current)
    IN  /\ rows' = [rows EXCEPT ![Current] = row]
        /\ errors' = Record(errors, [session |-> Current, gen |-> row.gen,
                                     kind |-> kind])
        /\ NextSession
        /\ UNCHANGED <<agent, events, flagged, faults>>

\* fs::metadata and is_file.
Stat ==
    /\ pc = "stat"
    /\ IF store.kind = "missing" THEN RecordError("read_error")
       ELSE IF store.kind = "other" THEN RecordError("not_file")
       ELSE /\ stamp' = store.stamp
            /\ pc' = "session"
            /\ UNCHANGED <<agent, db, todo, flagged, table, buf, faults>>

\* The store cannot be opened, the session is missing, or a value of its
\* record cannot be decoded: all are invalid_session_meta.
SessionFails ==
    \/ store.kind # "ok"
    \/ Current \notin Sessions \/ store.ver[Current] = 0
    \/ {Current, Project} \cap store.bad # {}

\* The session record, in a statement of its own.
ReadSession ==
    /\ pc = "session"
    /\ IF SessionFails
       THEN RecordError("invalid_session_meta")
       ELSE /\ buf' = {SessionEvent(Current)}
            /\ pc' = "table"
            /\ UNCHANGED <<agent, db, todo, flagged, stamp, table, faults>>

\* One table of rows, in a statement of its own.
ReadTable ==
    /\ pc = "table" /\ table < Tables
    /\ LET found == RowsIn(Current, table + 1)
       IN  IF store.kind # "ok" \/ found \cap store.bad # {}
           THEN RecordError("invalid_session_meta")
           ELSE /\ buf' = buf \cup {RowEvent(r) : r \in found}
                /\ table' = table + 1
                /\ UNCHANGED <<agent, db, pc, todo, flagged, stamp, faults>>

\* The columns update_session_after_import and update_skipped_session write.
Refreshed(row, snap) ==
    [row EXCEPT !.known = TRUE, !.parent = ResolvedParent(Current),
                !.stamp = stamp, !.meta = MetaOf(snap, Current),
                !.print = snap]

\* ingest_sqlite_session_snapshot: one transaction, or nothing to write.
Import ==
    /\ pc = "table" /\ table = Tables
    /\ LET snap == Ordered(buf)
           row == rows[Current]
           g == Generation(row)
           stored == InsertOrIgnore(GenerationRows(Current, g), snap)
       IN  IF row.known /\ ~Differs(row, snap)
           THEN /\ rows' = IF Matches(row, snap, Current) THEN rows
                           ELSE [rows EXCEPT ![Current] = Refreshed(row, snap)]
                /\ UNCHANGED events
           ELSE /\ events' = [events EXCEPT ![Current] =
                                [k \in DOMAIN @ \cup {g} |->
                                    IF k = g THEN stored ELSE @[k]]]
                /\ rows' = [rows EXCEPT ![Current] =
                              [Refreshed(RowFor(Current), snap) EXCEPT
                                  !.gen = g, !.count = Len(stored)]]
    /\ errors' = Resolve
    /\ flagged' = FALSE
    /\ NextSession
    /\ UNCHANGED <<agent, faults>>

\* The agent holds the store locked for longer than the reader waits.
Busy ==
    /\ pc \in {"session", "table"} /\ (pc = "table" => table < Tables)
    /\ faults < MaxFaults /\ faults' = faults + 1
    /\ LET row == RowFor(Current)
       IN  /\ rows' = [rows EXCEPT ![Current] = row]
           /\ errors' = Record(errors, [session |-> Current, gen |-> row.gen,
                                        kind |-> "invalid_session_meta"])
    /\ NextSession
    /\ UNCHANGED <<agent, events, flagged>>

\* The process dies; a transaction it had open is rolled back.
Crash ==
    /\ pc # "idle"
    /\ faults < MaxFaults /\ faults' = faults + 1
    /\ pc' = "idle" /\ todo' = <<>> /\ buf' = {} /\ stamp' = -1 /\ table' = 0
    /\ flagged' = FALSE
    /\ UNCHANGED <<agent, db>>

Step == StartRun \/ Stat \/ ReadSession \/ ReadTable \/ Import
Next == Agent \/ Step \/ Busy \/ Crash
Spec == Init /\ [][Next]_vars

\* Runs are started again and again, and a run that is not killed goes on.
FairSpec == Spec /\ WF_vars(Step)

------------------------------------------------------------------------------
(* Correctness. *)

\* Type correctness; error and event rows refer to session rows.
TypeOK ==
    /\ source \in {"opencode", "hermes"}
    /\ store \in [kind : Kinds, ver : [Items -> Nat], bad : SUBSET Items, stamp : Nat]
    /\ rows \in [Ids -> Row]
    /\ DOMAIN events = Ids
    /\ \A s \in Ids : /\ DOMAIN events[s] \subseteq Nat
                      /\ \A g \in DOMAIN events[s] : events[s][g] \in Seq(Event)
    /\ errors \subseteq ErrorRow /\ \A e \in errors : rows[e.session].known
    /\ \A s \in Ids : DOMAIN events[s] # {} => rows[s].known
    /\ pc \in {"idle", "stat", "session", "table"} /\ table \in 0 .. Tables
    /\ todo \in Seq(Ids) /\ (pc # "idle" => todo # <<>>)
    /\ flagged \in BOOLEAN /\ stamp \in Int /\ buf \subseteq Event

\* A generation, once stored, is never changed, extended or removed by a later
\* read: not when the agent edits a message, nor when it deletes the session.
GenerationsKept ==
    [][\A s \in Ids : \A g \in DOMAIN events[s] :
          g \in DOMAIN events'[s] /\ events'[s][g] = events[s][g]]_vars

\* What the next read is compared with is what is stored: the fingerprint of a
\* session that has generations is that of its last one.
FingerprintIsStored ==
    \A s \in Ids :
        DOMAIN events[s] # {} =>
            /\ rows[s].gen \in DOMAIN events[s]
            /\ events[s][rows[s].gen] = rows[s].print

\* A re-read that finds nothing new writes nothing: a session has no more
\* generations than its records, or its project, saw writes.
OneGenerationPerChange ==
    \A s \in Ids : Cardinality(DOMAIN events[s]) <= touched[s]

Readable(s) ==
    /\ store.kind = "ok" /\ store.ver[s] # 0
    /\ store.bad \cap ({s, Project} \cup {r \in Rows : SessionOf[r] = s}) = {}

Captured(s) ==
    /\ rows[s].known /\ rows[s].gen \in DOMAIN events[s]
    /\ events[s][rows[s].gen] = SnapshotOf(s)
    /\ rows[s].stamp = store.stamp
    /\ (ParentOf[s] # NoSession /\ rows[ParentOf[s]].known)
          => rows[s].parent = ParentOf[s]

\* When the agent stops writing, every readable session ends up captured as it
\* is, linked to its parent, whatever mixtures were read before.
EventuallyCaptured ==
    \A s \in Sessions : <>[]Readable(s) => <>[]Captured(s)

\* An error of a store that can be read again does not stay unresolved.
EventuallyResolved ==
    <>[](/\ \E s \in Sessions : Readable(s)
         /\ \A s \in Sessions : store.ver[s] # 0 => Readable(s))
        => <>[](MetaErrors = {})

\* A session that can never be read is, between runs, among the unresolved
\* errors again and again, although its neighbours resolve the errors of the
\* path they share.
BrokenIsSeen ==
    \A s \in Sessions :
        <>[](store.kind = "ok" /\ store.ver[s] # 0 /\ s \in store.bad)
            => []<>(pc = "idle" /\ \E e \in MetaErrors : e.session = s)
==============================================================================
