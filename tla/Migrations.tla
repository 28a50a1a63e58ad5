----------------------------- MODULE Migrations -----------------------------
(***************************************************************************)
(* Opening the journal: a program reads the schema version, then runs the  *)
(* migrations it lacks in one transaction.  The version is read before the *)
(* transaction begins, and status, doctor and dry runs open the journal    *)
(* without the data lock, so another program may have migrated it by then. *)
(*                                                                         *)
(* Almost every migration creates a table, an index or a column, and fails *)
(* where that exists.  Migration 2 also shifts the line numbers of the     *)
(* errors, which must happen once.                                         *)
(***************************************************************************)
EXTENDS Integers, FiniteSets

CONSTANTS
    Openers,     \* processes that open the journal
    FirstSchemas \* the schema versions the journal may have at first

Latest == 13
Repeatable == {3, 5, 12}   \* the migrations that succeed a second time

ASSUME SchemaAssumption == FirstSchemas \subseteq 0 .. Latest

VARIABLES
    db,      \* version: PRAGMA user_version; applied: migrations whose tables,
             \* columns and indexes exist; shifts: of the error line numbers
    seen,    \* the version each process read
    outdone, \* history: an older program committed over a newer one's schema
    alone    \* history: a migration failed although nobody else migrated

migrationVars == <<db, seen, outdone, alone>>

MigrationInit ==
    /\ \E v \in FirstSchemas :
          db = [version |-> v, applied |-> 1 .. v, shifts |-> IF v >= 2 THEN 1 ELSE 0]
    /\ seen = [p \in Openers |-> 0]
    /\ outdone = FALSE /\ alone = FALSE

\* Mutant of Pending: the migration of the current version is included.
PendingInclusive(current, latest) == current .. latest

\* The migrations a program of schema latest runs on what it read.
Pending(current, latest) == current + 1 .. latest

Clashes(m) == m \in db.applied /\ m \notin Repeatable

Migrated(batch, latest) ==
    [version |-> latest, applied |-> db.applied \cup batch,
     shifts |-> db.shifts + (IF 2 \in batch THEN 1 ELSE 0)]

\* Mutant of RolledBack: every statement commits on its own, so what precedes
\* the failing one stays.
LeftBehind(batch) ==
    [db EXCEPT !.shifts = @ + (IF 2 \in batch /\ 1 \notin batch THEN 1 ELSE 0)]

\* A batch that fails is dropped with its transaction.
RolledBack(batch) == db

\* user_version: a newer journal is an error, the latest one is open, and an
\* older one is to be migrated from what was read.
ReadVersion(p, latest) ==
    /\ seen' = [seen EXCEPT ![p] = IF db.version < latest THEN db.version ELSE 0]
    /\ UNCHANGED <<db, outdone, alone>>

\* The transaction; its first statement waits for other writers.
Migrate(p, latest) ==
    LET batch == Pending(seen[p], latest)
    IN  /\ IF \E m \in batch : Clashes(m)
           THEN /\ db' = RolledBack(batch)
                /\ alone' = (alone \/ (db.version = seen[p] /\ ~outdone))
                /\ UNCHANGED outdone
           ELSE /\ db' = Migrated(batch, latest)
                /\ outdone' = (outdone \/ db.version > latest)
                /\ UNCHANGED alone
        /\ seen' = [seen EXCEPT ![p] = 0]

------------------------------------------------------------------------------
\* The version names the migrations that took effect, each once, unless a
\* program older than the schema committed after a newer one.
VersionIsHonest ==
    /\ ~outdone => db.applied = 1 .. db.version
    /\ db.shifts = IF 2 \in db.applied THEN 1 ELSE 0

\* A program that is not older than the journal fails to open it only when
\* another one migrated it at the same moment.
FailureIsExcused == ~alone
==============================================================================
