------------------------------ MODULE Transfer ------------------------------
(***************************************************************************)
(* `jottrace pack` and `jottrace settle` on one journal directory, while   *)
(* commands that take no data lock (status, doctor) open and close the     *)
(* database, ingest runs come between, and anyone may be killed.           *)
(*                                                                         *)
(* A journal is the number of ingest runs committed to it, 0 being a newly *)
(* created one.  The directory has the database file and its WAL.  SQLite  *)
(* keeps a commit in the WAL until the last connection closes and folds it *)
(* into the database; a connection whose database file was replaced folds  *)
(* nothing; a WAL beside an empty database file is discarded; and a WAL    *)
(* beside a database it does not belong to is replayed over it.  What an   *)
(* open connection still sees of a WAL that was removed is left out.  The  *)
(* data lock is taken to work here.  What an archive holds is its database and  *)
(* WAL; the listing, permission and schema checks are one decision.        *)
(***************************************************************************)
EXTENDS Integers

CONSTANTS
    Readers,      \* commands that take no lock
    None, Empty, Mixed, Partial, Unread,
    MaxVersion, MaxOpens,  \* bounds on ingest runs, on openings without the lock
    MaxDeaths,             \* bound on kills, failures and removals of the archive
    IoErrors      \* may removing or renaming a file fail?

Wal == [v : Nat, mine : BOOLEAN]

ASSUME TransferAssumption ==
    /\ MaxVersion \in Nat /\ MaxOpens \in Nat /\ MaxDeaths \in Nat
    /\ IoErrors \in BOOLEAN
    /\ {None, Empty, Mixed, Partial, Unread} \cap Int = {}
    /\ None \notin {Empty, Mixed} /\ {None, Empty} \cap Wal = {}

VARIABLES
    db, wal,   \* the journal directory
    conns,     \* the connection of each reader
    lock,      \* who holds the data lock
    archive,   \* the archive file
    ppc, tape, \* pack: where it is, what tar has read
    spc, force, staged, toClear, outcome,  \* settle
    opens, deaths,  \* history, for the bounds
    base,      \* history: the journal when settle took the lock
    packed,    \* history: the journal when pack opened it
    intruded   \* history: was the database opened while settle replaced it?

home == <<db, wal>>
pack == <<ppc, tape>>
settle == <<spc, force, staged, toClear, outcome>>
vars == <<home, conns, lock, archive, pack, settle, opens, deaths, base, packed, intruded>>

Version == Nat \cup {Mixed}
WalFile == Wal \cup {None, Empty}
Tree == [db : Version, wal : WalFile]

------------------------------------------------------------------------------
(* SQLite. *)

\* What a command that opens database d beside WAL w reads.
View(d, w) ==
    IF d = None THEN 0
    ELSE IF w \in {None, Empty} THEN d
    ELSE IF w.mine THEN w.v ELSE Mixed

Journal == View(db, wal)

\* open_database: a missing database is created and migrated, and the WAL file
\* is created if there is none.
Open ==
    IF db = None
    THEN db' = 0 /\ wal' = [v |-> 0, mine |-> TRUE]
    ELSE UNCHANGED db /\ wal' = IF wal = None THEN Empty ELSE wal

\* A checkpoint runs to its end, and truncates the WAL.
Checkpoint == db' = Journal /\ wal' = Empty

\* The last connection closes, and removes the WAL.
Fold == db' = Journal /\ wal' = None

\* The database file at the path is replaced by d.
Replace(d) ==
    /\ db' = d
    /\ wal' = IF wal \in {None, Empty} THEN wal ELSE [wal EXCEPT !.mine = FALSE]
    /\ conns' = [r \in Readers |-> IF conns[r] = "live" THEN "moved" ELSE conns[r]]

\* Mutant of PackConnected: pack closes its connection before it calls tar.
PackConnectedBriefly == ppc = "checkpoint"

\* pack keeps its connection until it returns.
PackConnected == ppc \in {"checkpoint", "tar", "close"}

OthersLive(r) == PackConnected \/ \E q \in Readers \ {r} : conns[q] = "live"
NoReader == \A r \in Readers : conns[r] # "live"

------------------------------------------------------------------------------
Init ==
    /\ \/ db = None /\ wal = None
       \/ db = 1 /\ wal = None
       \/ db = 0 /\ wal = [v |-> 1, mine |-> TRUE]
    /\ conns = [r \in Readers |-> "none"]
    /\ lock = "none"
    /\ archive = None
    /\ ppc = "idle" /\ tape = [db |-> Unread, wal |-> Unread]
    /\ spc = "idle" /\ force = FALSE /\ staged = None /\ toClear = {} /\ outcome = "none"
    /\ opens = 0 /\ deaths = 0
    /\ base = 0 /\ packed = 0 /\ intruded = FALSE

(* Commands without the lock. *)

ReaderOpen(r) ==
    /\ conns[r] = "none"
    /\ opens < MaxOpens
    /\ opens' = opens + 1
    /\ conns' = [conns EXCEPT ![r] = "live"]
    /\ Open
    /\ intruded' = (intruded \/ spc \in {"clear", "move"})
    /\ UNCHANGED <<lock, archive, pack, settle, deaths, base, packed>>

ReaderClose(r) ==
    /\ conns[r] # "none"
    /\ conns' = [conns EXCEPT ![r] = "none"]
    /\ IF conns[r] = "moved" \/ OthersLive(r) THEN UNCHANGED home ELSE Fold
    /\ UNCHANGED <<lock, archive, pack, settle, opens, deaths, base, packed, intruded>>

Die ==
    /\ deaths < MaxDeaths
    /\ deaths' = deaths + 1
    /\ UNCHANGED <<opens, base, packed, intruded>>

ReaderKilled(r) ==
    /\ conns[r] # "none"
    /\ conns' = [conns EXCEPT ![r] = "none"]
    /\ Die
    /\ UNCHANGED <<home, lock, archive, pack, settle>>

\* run_ingest commits; it may be killed, or not be the last, before it closes.
Ingest ==
    /\ lock = "none"
    /\ Journal # Mixed /\ Journal < MaxVersion
    /\ \/ /\ db' = IF db = None THEN 0 ELSE db
          /\ wal' = [v |-> Journal + 1, mine |-> TRUE]
       \/ /\ NoReader
          /\ db' = Journal + 1
          /\ wal' = None
    /\ UNCHANGED <<conns, lock, archive, pack, settle, opens, deaths, base, packed, intruded>>

------------------------------------------------------------------------------
(* run_pack. *)

PackReset == ppc' = "idle" /\ tape' = [db |-> Unread, wal |-> Unread]

\* claim_private_path creates the output.
PackClaim ==
    /\ ppc = "idle"
    /\ archive = None
    /\ archive' = Partial
    /\ ppc' = "claimed"
    /\ UNCHANGED <<home, conns, lock, tape, settle, opens, deaths, base, packed, intruded>>

PackLock ==
    /\ ppc = "claimed" /\ lock = "none"
    /\ lock' = "pack"
    /\ ppc' = "open"
    /\ UNCHANGED <<home, conns, archive, tape, settle, opens, deaths, base, packed, intruded>>

PackOpen ==
    /\ ppc = "open" /\ db # None
    /\ packed' = Journal
    /\ ppc' = "checkpoint"
    /\ Open
    /\ UNCHANGED <<conns, lock, archive, tape, settle, opens, deaths, base, intruded>>

\* checkpoint_truncate: another connection may hold it off, which is not an error.
PackCheckpoint ==
    /\ ppc = "checkpoint"
    /\ ppc' = "tar"
    /\ Checkpoint \/ (~NoReader /\ UNCHANGED home)
    /\ UNCHANGED <<conns, lock, archive, tape, settle, opens, deaths, base, packed, intruded>>

\* tar reads the two files one after the other, in any order.
PackTar ==
    /\ ppc = "tar"
    /\ \/ tape.db = Unread /\ tape' = [tape EXCEPT !.db = db]
       \/ tape.wal = Unread /\ tape' = [tape EXCEPT !.wal = wal]
    /\ IF tape'.db # Unread /\ tape'.wal # Unread
       THEN archive' = tape' /\ ppc' = "close"
       ELSE UNCHANGED <<archive, ppc>>
    /\ UNCHANGED <<home, conns, lock, settle, opens, deaths, base, packed, intruded>>

\* The claim is committed; the connection and the lock are dropped.
PackClose ==
    /\ ppc = "close"
    /\ IF NoReader THEN Fold ELSE UNCHANGED home
    /\ lock' = "none"
    /\ PackReset
    /\ UNCHANGED <<conns, archive, settle, opens, deaths, base, packed, intruded>>

\* The lock is taken, or there is no database; ArchiveClaim is dropped.
PackRefuse ==
    /\ \/ ppc = "claimed" /\ lock # "none"
       \/ ppc = "open" /\ db = None
    /\ archive' = None
    /\ lock' = IF lock = "pack" THEN "none" ELSE lock
    /\ PackReset
    /\ UNCHANGED <<home, conns, settle, opens, deaths, base, packed, intruded>>

\* tar fails; the connection, the lock and ArchiveClaim are dropped.
PackFail ==
    /\ ppc = "tar"
    /\ archive' = None
    /\ lock' = "none"
    /\ IF NoReader THEN Fold ELSE UNCHANGED home
    /\ PackReset
    /\ Die
    /\ UNCHANGED <<conns, settle>>

PackKilled ==
    /\ ppc # "idle"
    /\ lock' = IF lock = "pack" THEN "none" ELSE lock
    /\ PackReset
    /\ Die
    /\ UNCHANGED <<home, conns, archive, settle>>

\* The user removes the archive, to pack again.
RemoveArchive ==
    /\ archive # None /\ ppc = "idle" /\ spc = "idle"
    /\ archive' = None
    /\ Die
    /\ UNCHANGED <<home, conns, lock, pack, settle>>

------------------------------------------------------------------------------
(* run_settle. *)

\* Mutant of HomeEmpty: only the sidecars count.
HomeEmptyButDb == wal = None /\ staged = None

\* directory_has_journal_content: leftovers of a settle count.
HomeEmpty == db = None /\ wal = None /\ staged = None

\* Up to the check under the lock; without --force an existing journal is refused.
SettleBegin(f) ==
    /\ spc = "idle" /\ archive # None
    /\ lock = "none"
    /\ f \/ HomeEmpty
    /\ lock' = "settle"
    /\ spc' = "inspect"
    /\ force' = f
    /\ outcome' = "none"
    /\ base' = Journal
    /\ intruded' = FALSE
    /\ UNCHANGED <<home, conns, archive, pack, staged, toClear, opens, deaths, packed>>

\* The run ends with an error: StagingGuard removes what was staged.
SettleError ==
    /\ spc' = "idle" /\ staged' = None /\ toClear' = {} /\ force' = FALSE
    /\ outcome' = "error"
    /\ lock' = "none"

\* inspect_archive_safety: an archive that tar cannot list is refused.
SettleInspect ==
    /\ spc = "inspect"
    /\ IF archive \in {None, Partial}
       THEN SettleError
       ELSE spc' = "stage" /\ UNCHANGED <<force, staged, toClear, outcome, lock>>
    /\ UNCHANGED <<home, conns, archive, pack, opens, deaths, base, packed, intruded>>

\* Mutants of SettleStage: a leftover staging directory is an error; the journal
\* is cleared before the archive is proven.
StageOnlyOnce ==
    /\ spc = "stage"
    /\ IF staged # None
       THEN /\ spc' = "idle" /\ lock' = "none" /\ outcome' = "error"
            /\ UNCHANGED <<staged, force, toClear>>
       ELSE spc' = "extract" /\ staged' = Partial /\ UNCHANGED <<force, toClear, outcome, lock>>
    /\ UNCHANGED <<home, conns, archive, pack, opens, deaths, base, packed, intruded>>
StageClearsFirst ==
    /\ spc = "stage"
    /\ spc' = "extract" /\ staged' = Partial
    /\ Replace(None)
    /\ UNCHANGED <<force, toClear, outcome, lock, archive, pack, opens, deaths, base,
                   packed, intruded>>

\* A leftover staging directory is removed and a new one made.
SettleStage ==
    /\ spc = "stage"
    /\ spc' = "extract"
    /\ staged' = Partial
    /\ UNCHANGED <<home, conns, lock, archive, pack, force, toClear, outcome, opens,
                   deaths, base, packed, intruded>>

SettleExtract ==
    /\ spc = "extract"
    /\ spc' = "validate"
    /\ staged' = archive
    /\ UNCHANGED <<home, conns, lock, archive, pack, force, toClear, outcome, opens,
                   deaths, base, packed, intruded>>

\* Mutant of Listed: the WAL is not among the files to remove.
ListedDbOnly == {n \in {"db"} : db # None}

\* The entries read_dir lists.
Listed == {n \in {"db", "wal"} : (n = "db" /\ db # None) \/ (n = "wal" /\ wal # None)}

\* validate_staged_jottrace_database opens the staged database, which folds its
\* WAL; then the clearing begins.
SettleValidate ==
    /\ spc = "validate"
    /\ spc' = "clear"
    /\ staged' = [db |-> View(staged.db, staged.wal), wal |-> None]
    /\ toClear' = Listed
    /\ UNCHANGED <<home, conns, lock, archive, pack, force, outcome, opens, deaths, base,
                   packed, intruded>>

\* clear_journal_contents removes one of the entries it listed; an entry that
\* someone else removed is an error.
SettleClear(n) ==
    /\ spc = "clear" /\ n \in toClear
    /\ IF (n = "db" /\ db = None) \/ (n = "wal" /\ wal = None)
       THEN SettleError /\ UNCHANGED <<home, conns>>
       ELSE /\ toClear' = toClear \ {n}
            /\ IF n = "db" THEN Replace(None) ELSE wal' = None /\ UNCHANGED <<db, conns>>
            /\ UNCHANGED <<spc, staged, force, outcome, lock>>
    /\ UNCHANGED <<archive, pack, opens, deaths, base, packed, intruded>>

SettleCleared ==
    /\ spc = "clear" /\ toClear = {}
    /\ spc' = "move"
    /\ UNCHANGED <<home, conns, lock, archive, pack, force, staged, toClear, outcome,
                   opens, deaths, base, packed, intruded>>

\* move_staged_into_place: the database is renamed over what the path names.
SettleMove ==
    /\ spc = "move"
    /\ spc' = "remove"
    /\ Replace(staged.db)
    /\ staged' = Partial
    /\ UNCHANGED <<lock, archive, pack, force, toClear, outcome, opens, deaths, base,
                   packed, intruded>>

SettleRemoveStaging ==
    /\ spc = "remove"
    /\ spc' = "status"
    /\ staged' = None
    /\ UNCHANGED <<home, conns, lock, archive, pack, force, toClear, outcome, opens,
                   deaths, base, packed, intruded>>

\* status_for_path opens the restored journal and closes it; the lock is dropped.
SettleStatus ==
    /\ spc = "status"
    /\ spc' = "idle" /\ force' = FALSE /\ outcome' = "settled"
    /\ lock' = "none"
    /\ IF NoReader THEN Fold ELSE UNCHANGED home
    /\ UNCHANGED <<conns, archive, pack, staged, toClear, opens, deaths, base, packed, intruded>>

\* tar or a check fails; a removal or the rename does if IoErrors.
SettleFail ==
    /\ spc \in {"inspect", "extract", "validate"} \/ (IoErrors /\ spc \in {"clear", "move"})
    /\ SettleError
    /\ Die
    /\ UNCHANGED <<home, conns, archive, pack>>

SettleKilled ==
    /\ spc # "idle"
    /\ spc' = "idle" /\ toClear' = {} /\ force' = FALSE /\ outcome' = "none"
    /\ lock' = "none"
    /\ Die
    /\ UNCHANGED <<home, conns, archive, pack, staged>>

------------------------------------------------------------------------------
Pack ==
    \/ PackClaim \/ PackLock \/ PackOpen \/ PackCheckpoint \/ PackTar \/ PackClose
    \/ PackRefuse

SettleStep ==
    \/ SettleInspect \/ SettleStage \/ SettleExtract \/ SettleValidate
    \/ (\E n \in {"db", "wal"} : SettleClear(n)) \/ SettleCleared \/ SettleMove
    \/ SettleRemoveStaging \/ SettleStatus

Next ==
    \/ \E r \in Readers : ReaderOpen(r) \/ ReaderClose(r) \/ ReaderKilled(r)
    \/ Ingest
    \/ Pack \/ PackFail \/ PackKilled \/ RemoveArchive
    \/ SettleStep \/ (\E f \in BOOLEAN : SettleBegin(f)) \/ SettleFail \/ SettleKilled

Spec == Init /\ [][Next]_vars

\* A settle that has begun goes on, and the user repeats it with --force; a pack
\* that has begun goes on.
FairSpec ==
    /\ Spec
    /\ WF_vars(SettleStep) /\ SF_vars(SettleBegin(TRUE))
    /\ WF_vars(ppc # "idle" /\ Pack)

------------------------------------------------------------------------------
(* Properties. *)

TypeOK ==
    /\ db \in Version \cup {None} /\ wal \in WalFile
    /\ archive \in Tree \cup {None, Partial} /\ staged \in Tree \cup {None, Partial}
    /\ tape \in [db : Version \cup {Unread}, wal : WalFile \cup {Unread}]
    /\ conns \in [Readers -> {"none", "live", "moved"}]
    /\ lock \in {"none", "pack", "settle"}
    /\ ppc \in {"idle", "claimed", "open", "checkpoint", "tar", "close"}
    /\ spc \in {"idle", "inspect", "stage", "extract", "validate", "clear", "move",
                "remove", "status"}
    /\ lock = "settle" <=> spc # "idle"
    /\ lock = "pack" <=> ppc \notin {"idle", "claimed"}
    /\ force \in BOOLEAN /\ intruded \in BOOLEAN
    /\ toClear \subseteq {"db", "wal"} /\ outcome \in {"none", "error", "settled"}
    /\ spc \in {"validate", "clear", "move"} => staged \in Tree

Whole == archive \notin {None, Partial}

\* An archive that was finished holds the journal as it was when pack opened it,
\* though the checkpoint may be held off and commands close the database while
\* tar is between its two files.
PackedIsComplete == Whole => View(archive.db, archive.wal) = packed

\* What the journal holds changes only by an ingest that adds to it and, once
\* the archive is proven and staged, by settle: never by a command without the
\* lock, a failed or killed pack, or a settle that fails before.
ChangedByProof ==
    [][Journal' # Journal =>
          \/ Journal # Mixed /\ Journal' = Journal + 1 /\ lock = "none"
          \/ spc \in {"clear", "move"} /\ Whole /\ staged.db = View(archive.db, archive.wal)
      ]_vars

\* Without --force settle destroys no ingested data.
ForcedOnly ==
    [][spc # "idle" /\ ~force /\ Journal # 0 => Journal' = Journal]_vars

\* A settle that reports success leaves exactly the archive's journal, unless
\* the database was opened while it was being replaced.
SettledIsTheArchive ==
    [][outcome' = "settled" /\ outcome # "settled" /\ ~intruded =>
          View(db', wal') = View(archive.db, archive.wal)]_vars

\* Whatever was killed, and whatever it left behind, repeating `settle --force`
\* restores the archive.
EventuallyRestored ==
    []<>(Whole => Journal = View(archive.db, archive.wal))

\* "on any failure ..., the partial extraction is wiped so the previous journal
\* stays intact": a settle that reports an error has left the journal as it was.
FailureKeepsJournal ==
    [][outcome' = "error" /\ outcome # "error" => View(db', wal') = base]_vars
==============================================================================
