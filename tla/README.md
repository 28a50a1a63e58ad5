# A verification project for jottrace

jottrace preserves the session files that AI coding agents leave on disk. It
reads them again and again while the agents are still writing, and keeps every
committed event in a private SQLite journal. This directory holds TLA+ models
of that code, TLC configurations that check them on small instances, and
proofs that TLAPS checks for every instance.

File references are relative to the repository; `ingest.rs` stands for
`src/ingest.rs`.

## The system

| Component | State it keeps | Operations | Hard because |
|---|---|---|---|
| JSONL ingest core (`ingest.rs`) | `sessions`, `events`, `ingest_errors`; in memory the paths with open errors | `ingest`: discover, then per file stat, skip or read, import in one transaction | the files have concurrent writers; offsets recorded for one version are applied to another; runs die between files |
| Header-identified readers (`ingest.rs`) | the same, plus placeholder rows of files that could not be identified | id from the first line; reuse or removal of placeholders | identity changes while a file grows or moves |
| Gemini and SQLite readers (`ingest.rs`) | the same | whole snapshot into a new generation | snapshots are not read in one transaction; one path serves many sessions |
| Storage (`storage.rs`, `src/migrations`) | schema version | open, migrate, status, decode | openers without the lock migrate too |
| Data lock (`lib.rs`) | process set, lock file, flock | acquire, drop | the file is removed while others may have it open |
| Compaction (`compact.rs`) | codec and payload of events | dry run, apply in batches, vacuum | crashes between batches |
| Pack and settle (`transfer.rs`) | the archive, a staging directory, the journal files | checkpoint and archive; validate and replace | several renames and removals, no transaction around them |
| Self-update (`update.rs`) | update lock, time of the last check, the binary | update, spawn an update if due | stale-lock removal races |
| Taste (`taste/`) | extraction counts, examples, timelines | extract, status, compile, export | staleness is judged by counts |
| Web, export, command line | none | render, stream, dispatch | read-only |

How they interact: every command that changes the database takes the data lock
first (`ingest`, `compact --apply`/`--vacuum`, `pack`, `settle`, `taste extract`), opens
the database, which migrates it, and works in SQLite transactions. `status`,
`doctor`, `compact` dry runs and the web UI do not take the lock. The agents
know nothing of jottrace: their files are shared state that anyone may change
between any two system calls. Before its body every command may spawn a
background update, which replaces the binary that later commands are started
from; so programs of several schema versions meet at one journal.

What makes each component correct:

- *Ingest*: nothing preserved is ever deleted or changed; every generation is
  the beginning of one version of the file; offset, count and fingerprint
  describe the same lines; an open error points at the line where reading
  stopped; a file left alone is eventually captured and linked; an unchanged
  file causes no writes.
- *Identity*: a session holds the lines of the file that names it, whatever was
  renamed, moved or emptied; a file that cannot be identified is reported until
  it can.
- *Snapshots*: no generation is lost; one is opened only for a change; an error
  comes and goes with its cause, though all sessions of a store share a path.
- *Data lock*: one holder; no leaks on any error path; a dead holder blocks
  nobody.
- *Compaction*: payloads decode to the same bytes before and after; a rerun
  finishes what a crash left.
- *Settle*: nothing but a proven archive replaces a journal, and a settle that died
  can be repeated; an archive is one consistent journal.
- *Migrations*: the schema is the one of its version, whoever migrated.
- *Self-update*: checks are a day apart; a program older than its journal still
  gets replaced.
- *Taste*: what is stored corresponds to the events now in the journal; a label
  agrees with what the files show; a context never holds the future.

## Modules

| Module | What it is |
|---|---|
| `JsonlIngest` | the ingest core: writers, runs, crashes, and its properties |
| `Journal` | the abstract promise of the ingest core |
| `MCJsonlIngest` | instances for TLC: one file; a session with a sidechain; two files with one id |
| `JsonlIngestProofs` | proofs about `JsonlIngest`: types, offsets, nothing lost, errors, what a run does to an unchanged or growing file, genuine generations, and that the tables implement `Journal` |
| `DataLock` | the data lock, system call by system call |
| `MCDataLock` | instances of it |
| `DataLockProofs` | proofs about `DataLock` |
| `Compact` | dry and applying runs of `compact`, next to each other and to ingest |
| `MCCompact`, `CompactProofs` | instances of it, proofs about it |
| `Transfer` | `pack` and `settle` on a directory that other commands open without the lock |
| `MCTransfer`, `TransferProofs` | instances of it, proofs about it |
| `HeaderIngest`, `MCHeaderIngest` | files that name their session themselves: Codex, Factory, Gemini; an instance |
| `HeaderIngestProofs` | proofs about `HeaderIngest` |
| `SnapshotIngest`, `MCSnapshotIngest` | OpenCode and Hermes stores; an instance |
| `SnapshotIngestProofs` | proofs about `SnapshotIngest` |
| `Preferences` | parsing, merge, timelines and labels of taste extraction, as operators |
| `TasteExtract`, `MCTasteExtract` | `taste extract` beside ingest; instances |
| `TasteExtractProofs` | proofs about `TasteExtract` and the operators of `Preferences` |
| `Migrations` | opening and migrating the journal |
| `AutoUpdate` | the update check, its lock and the updater |
| `Upgrade`, `MCUpgrade` | the two composed: a command as a whole; an instance |
| `UpgradeProofs` | proofs about `Upgrade` and the two modules it composes |

`Upgrade` composes `AutoUpdate` and `Migrations`: the version of the program a
command was started as decides which migrations it runs. The other modules meet
at the data lock: `TasteExtract` uses that ingest and extract exclude each other,
`Compact` and `Transfer` do not rely on it where `DataLock` shows it to fail or
commands do without.

Operators whose comment begins with "Mutant of" are deliberately wrong variants
of the definition that follows them. Replacing the definition by its mutant must
break the property it is meant for; no specification uses them.

### JsonlIngest

`file` is what the agents' files hold. `sess`, `events` and `unresolved` are the
three tables, so a database transaction is one action. `pc`, `todo`, `retry`,
`pass` and `buf` are the memory of the process: the position in
`ingest_source_file`, the files of the run still to be done, the paths with
open `invalid_json` errors loaded at the start of the run, the stat of the
current pass and the bytes it read. `crashes`, `ver`, `had` and `rewritten` (the
files that did anything but grow) are history variables: no action's guard reads
them except for the bounds.

A line is a token and all lines have the same length; an unterminated tail is
the first half of a line. So an offset at a line boundary is a number of lines,
`Size` is in half lines, and a read that is cut by the stat's size can end
inside a line exactly as in the code. A fingerprint is the content it was taken
from: FNV collisions are left out. So are timestamps, `cwd`, source metadata
and occurrence counters, which no property is about.

| Action | Code |
|---|---|
| `StartRun`, `EndRun` | `run_ingest` up to the loop, and after it |
| `SkipByStat`, `Stat` | `ingest_source_file` up to the mtime shortcut, taken or not |
| `Read` | `read_bounded` |
| `ReadError` | `record_source_file_ingest_error` for a file that is gone at the stat or at the open |
| `CommitSkip` | the transaction of `ImportMode::Skip` |
| `CommitImport` | the transaction of `Append` and `Rewrite`: event rows, session row, errors |
| `Crash` | the process dies anywhere; the open transaction is rolled back |
| `Create` ... `Vanish` | the agents and the user, which may do anything to a file between two steps of a run |

Files are taken in the order of `sort_source_files_with_parents_last`: `Before`.

### DataLock

The path of the lock file names an inode or nothing; `flock` belongs to an
inode; a thread has a descriptor of an inode; a token is in an inode. That is
what the removal of a locked file is about, so every system call of
`acquire_data_lock` and of the drop of `DataLock` is an action, including the
two stats of `ensure_private_file`, `create_new`, the chmod that may find the
file gone (and then removes whatever the path names), `open(O_CREAT)`,
`flock(LOCK_NB)`, the write, and the read and removal on drop. An inode nobody
refers to may be used again, so a small set of inodes allows runs of any length.
The mode bits of the file are left out, as is the variant for platforms without
`flock`.

### Compact

`events` is the table: keys in the order of `(session_id, generation,
line_index)`, each with a codec and the payload it decodes to. A payload is raw
or as zstd gives it back; which payloads are small, do not shrink or do not
round trip is part of the data. The variables of a command are those of
`run_compact_with_diagnostics`: the statistics it read, the cursor, the page it
is about to update and the sums of its report.

| Action | Code |
|---|---|
| `Begin`, `ReadStats`, `CountSmall` | `run_compact_with_diagnostics` up to the scan |
| `Scan` | `raw_event_batch` and the plan of each of its rows |
| `Apply` | `apply_update_batch`: one transaction, `WHERE payload_codec = 'raw'` |
| `Finish`, `Leave` | the report, the end of the run |
| `Fail` | an error or a kill, which rolls the open batch back |
| `Insert` | ingest inserting an event at any key |

The data lock is not used as a guard here: two applying commands may run at
once, which `lock_unlinked` shows to be possible. `VACUUM` changes no row and is
left out.

### Transfer

A journal is the number of ingest runs committed to it. The directory has a
database file and a WAL; an archive and a staging directory are each such a
pair. What SQLite does is taken from how it behaves, not from this repository:
a commit stays in the WAL until the last connection closes (`Fold`) or a
checkpoint folds it; a connection whose file was removed or renamed over folds
nothing; a WAL beside a database it was not written for is replayed over it
(`Mixed`). One directory entry is removed or renamed per step, since that is
what a crash and an unlocked reader can come between.

| Action | Code |
|---|---|
| `ReaderOpen`, `ReaderClose`, `ReaderKilled` | `status`, `doctor`: `open_database` without the lock |
| `Ingest` | a whole run under the lock, killed before it closes or not |
| `PackClaim` ... `PackClose` | `run_pack`, in the order of its statements and drops |
| `PackRefuse`, `PackFail` | its early returns, with `ArchiveClaim` |
| `SettleBegin` | `run_settle` up to the check under the lock |
| `SettleInspect`, `SettleStage`, `SettleExtract`, `SettleValidate` | inspection, staging, extraction, the two validations |
| `SettleClear`, `SettleCleared` | `clear_journal_contents`, entry by entry of the listing it took |
| `SettleMove`, `SettleRemoveStaging`, `SettleStatus` | promotion, removal of the staging directory, `status_for_path` |
| `SettleFail`, `SettleKilled`, `PackKilled` | errors, with `StagingGuard`; kills, without |

Left out: what an open connection still sees of a WAL that settle removed, and
the reasons for which an archive may be refused, which are one decision.

### HeaderIngest

A file is empty, the beginning of a first line, a first line without an id, or a
header and some lines; what an import does with lines in detail is in
`JsonlIngest`. A row keeps its path, its generations as the lines they hold, and
what the last import saw. The source is chosen at the start: Codex stands also
for what Factory does, but for the empty file; Gemini's chat is read once and
used for both identification and import.

| Action | Code |
|---|---|
| `Stat`, `Fail` | `ingest_source_file` up to the stat; `record_source_file_ingest_error` |
| `Identify`: `KeepsId`, `ByHeader`, `EmptyCodex` | `resolve_source_file` with `reuse_source_file_session_identity`, and the empty Codex file before it |
| `SkipUnchanged`, `Read`, `Commit` | the rest of `ingest_source_file` |
| `Write`, `Move`, `Remove` | the agents and the user between any two of these |

The rename and the removal of a placeholder are statements of their own in the
code, outside the import's transaction; nothing of the database comes between
them and the next system call, so they are part of `Identify`.

### SnapshotIngest

A record of the store is the number of the write that made it, so a snapshot is
a sequence of versions. Every SELECT is an action (`ReadSession`, `ReadTable`)
and the agent writes between them. The store may be missing, some other
database, unreadable or good; Hermes has one table, OpenCode three and a project
row that is part of every session event. `StartRun` includes the discovery: a
store whose sessions cannot be listed gives one pseudo session for the whole store.

| Action | Code |
|---|---|
| `StartRun` | `run_ingest`, `discover_sqlite_session_files` |
| `Stat`, `ReadSession`, `ReadTable` | `ingest_source_file` up to the snapshot, statement by statement |
| `Import` | `ingest_sqlite_session_snapshot`: skip, refresh or a generation, in one transaction |
| `SessionFails`, `Busy` | the errors of one session; a store locked for longer than the reader waits. The run goes on with the next session |
| `Put`, `Delete`, `Become`, `Crash` | the agent, damage and repair, kills |

### Preferences, TasteExtract

`Preferences` has no state: a line is a record of the JSON fields the parser
looks at, a text is a set of tokens, a confidence is in tenths. It follows
`parse.rs`, `timeline.rs`, `compiler.rs` and `sidecar.rs` from the line to the
labelled example. `TasteExtract` has the journal as ingest leaves it, the
sidecars of Claude, and the three tables extract writes.

| Action | Code |
|---|---|
| `IngestAppend`, `IngestRewrite` | ingest runs between extract runs, links included |
| `SidecarChanges` | a backup file removed or made unreadable |
| `ExtractBegin` | `run_taste_extract` up to its loop, with `--force` and `--session` |
| `Skip`, `Extract` | one session: `session_needs_extract`, then the transaction of timelines, examples and metadata |
| `ExtractError`, `ExtractKilled` | a clash of primary keys or an unreadable sidecar ends the command; a kill |

It may start from rows that a program before `taste_extractions` wrote (`OldInit`).

### Migrations, AutoUpdate, Upgrade

`Migrations` has the schema version, the set of migrations whose effect is in
the file, and how often migration 2 shifted the error lines, the one effect that
must not happen twice. `AutoUpdate` has the stamp and the lock as ages, the
processes of the user and the updaters they spawn, and the installed and
released versions.

| Action | Code |
|---|---|
| `Start` ... `Spawn` (`Prologue`) | `spawn_auto_update_if_due`, with `AutoUpdateLock::acquire` system call by system call |
| `Open`, `RunMigrations` | `run_migrations`: the version is read, then the transaction |
| `ReadInstalled`, `Download`, `Replace`, `Unlock` | `run_update`, by the spawned child or by `jottrace update` |
| `Tick`, `Release`, kills and failures | the environment |

## Runs

| Run | Configuration | Shows |
|---|---|---|
| `ingest_rewrites` | one file, up to 4 changes of any kind, 2 lines, 2 good tokens and the bad one, one crash, several writes within one mtime second | `PreservedPrefix`, `GenuineGenerations`, `BadLineVisible`, `AppendOnlyNeverReindexed`, `PreservedForever`, `SameContentWritesNothing`, and that the tables implement `Journal` |
| `ingest_family` | a session and its sidechain, 3 changes each, one crash, every change moves the mtime | both end up captured and linked |
| `header_files` | two files of a Codex, Factory or Gemini source, 3 changes of any kind, two ids, one of them also the id made of a path, one crash | sessions keep their own lines; placeholders are renamed and removed without taking a session along; each file is preserved or reported in the end |
| `snapshot_store` | a session with a message and a part of equal time, its child, 4 writes, one kill or busy read | generations are kept, one per change; the next read is compared with what is stored; torn reads are superseded; errors come and go with their cause |
| `lock_commands` | two threads of one process and a second process, one kill, one failed write, with fairness | descriptors, process guard and file removal are sound, and nothing that is left behind blocks a lone command |
| `compact_commands` | two commands, dry or applying, 2 keys, pages of 1, 4 kinds of payload, ingest inserting, one kill, with fairness | no payload changes, none is counted twice, nothing found is left over, the report is exact, and everything that can be compacted is in the end |
| `transfer_journal` | pack, settle, two commands without the lock, up to 2 ingest runs, 2 openings, 2 kills or failures, I/O errors anywhere, with fairness | archives are complete; the journal is replaced only by force and only by a proven archive; repeating `settle --force` restores it in the end |
| `taste_labels` | a session that edits and writes a file in two ways, its subagent with a Bash command or a snapshot without a time, an older session that is rewritten once, a sidecar that may vanish | the merge keeps each transcript's order; labels of full confidence agree with the snapshots, but for rejections whose first snapshot lost its sidecar (see below); contexts do not change when lines are added behind; a skip is safe; a proposal is an example once |
| `upgrade_commands` | two commands over and over, two updaters, releases with schema 3 and 13, a journal of schema 1, one kill, failure or manual update, with fairness | migrations take effect once, only a concurrent one makes another fail; checks are spaced; the program in use can open its journal in the end |
| `lock_unlinked`, `transfer_failure`, `taste_present` | see Findings | the program departs from what its documents say |

Type invariants are theorems (`TypeCorrect`, see Proofs) and no run repeats them.
Each inductive invariant was checked on an instance before it was proved.

*Why the bounds are enough.* The import decision compares one stored version
with one version read; the stored row summarises all earlier ones. Four changes
give a version that is read in part, a rewrite, a retry of its bad line and one
more change while that is going on, with a crash anywhere. Two lines distinguish
a consumed prefix, a bad line after it and a tail; two good tokens distinguish a
rewritten line from a kept one. Three changes give `HeaderIngest` a placeholder,
the file that replaces it, and a move or replacement under a pass; two files of
one session id are excluded there, because they import each other in turn for
ever (see below). Four writes give `SnapshotIngest` a snapshot, a torn read, its
cause and one more change or repair. In the lock runs three attempts cover a holder that
leaves, one that opened the old file and one that comes later; three inodes are
one more than can be open at once. Two keys and pages of one make a full page,
a last one and a cursor between them. For transfer, two openings are one that
holds the checkpoint off and one that comes during the replacement; two kills
let a settle die and its repetition die too; two ingest runs make the archive, the
journal before settle and a new journal three different things. The transcripts
of `taste_labels` are few, but each holds one of the cases the compiler
distinguishes: paths partly absolute, times equal, absent or going back, a denial,
an edit undone, a repeated proposal. Two releases are one older and one newer
than any journal they meet, and schema 1 makes both migrate.

*Fairness.* `FairSpec` of `JsonlIngest` assumes that the process goes on with
its next step and that ingest is run again after a run ends: that is what the
user's scheduler does, and nothing blocks a step. Nothing is assumed of the
writers. Crashes are bounded, since a program that always crashes achieves
nothing. `Convergence` needs every change to move the mtime (`CoarseClock =
FALSE`): a rewrite to the same size within one second is not read. `FairSpec` of `DataLock` assumes that a command that has begun reaches
its end. It does not assume that anyone begins: `AbandonedLockNeverBlocks`
says so itself, of the thread that keeps trying. `FairSpec` of `Compact` assumes
that a command goes on and that an applying one is started again for ever;
`FairSpec` of `Transfer` that a pack or settle that has begun goes on and that the
user repeats `settle --force` whenever it can begin for ever again. Kills and
failures are bounded in both, for the reason given above. `FairSpec` of
`HeaderIngest` and `SnapshotIngest` is that of `JsonlIngest`; the agents are free.
`FairSpec` of `Upgrade` assumes that the user goes on starting commands, that live
processes go on and that time passes; nothing is assumed of releases. Liveness
of a chain of sessions in `taste extract` is not checked: the instance is too large.

## Proofs

Every safety property that a passing run checks, of states or of steps, is a
theorem; what is left to TLC is named at the end of this section. TLC checks a
property on one instance; the theorem states it for all values of the constants
that satisfy the named assumptions of its module, and for any number of steps. No
other assumption is made.

| Module | Theorem | Property |
|---|---|---|
| `JsonlIngestProofs` | `TypeCorrect` | `TypeOK` |
| | `OffsetsAreSound` | `PreservedPrefix` |
| | `NothingIsLost` | `PreservedForever` |
| | `NothingTwice` | `SameContentWritesNothing` |
| | `BadLinesAreTold` | `BadLineVisible` |
| | `AppendsStay` | `AppendOnlyNeverReindexed` |
| | `GenerationsAreGenuine` | `GenuineGenerations` |
| | `JournalImplemented` | `ImplementsJournal` |
| `HeaderIngestProofs` | `TypeCorrect` | `TypeOK` |
| | `NothingTaken` | `SessionsKept` |
| | `NobodysElse` | `LinesAreItsOwn` |
| `SnapshotIngestProofs` | `TypeCorrect` | `TypeOK` and the shape of a pass |
| | `FingerprintsAreStored` | `FingerprintIsStored` |
| | `StoredForGood` | `GenerationsKept` |
| | `GenerationsArePaidFor` | `OneGenerationPerChange` |
| `DataLockProofs` | `TypeCorrect` | `TypeOK` |
| | `ProcessExclusion` | `OneDescriptorPerProcess` |
| | `LeavesNoFile` | `TidyShutdown` |
| `CompactProofs` | `TypeCorrect` | `TypeOK` |
| | `NothingGarbled` | `PayloadsKept` |
| | `NobodyCountsTwice` | `CountedOnce` |
| | `LeavesNothing` | `NothingLeftOver` |
| | `ReportsAreExact` | `ReportIsExact` |
| `TransferProofs` | `TypeCorrect` | `TypeOK` |
| | `ArchivesAreComplete` | `PackedIsComplete` |
| | `OnlyProofChanges` | `ChangedByProof` |
| | `ForceIsNeeded` | `ForcedOnly` |
| | `SuccessIsTheArchive` | `SettledIsTheArchive` |
| `TasteExtractProofs` | `RowsAreComputed` | the inductive invariant `TasteInv` |
| | `OrderIsKept` | `MergeKeepsStreams` |
| | `SkipsLoseNothing` | `SkipIsSafe` |
| | `ContextsStay` | `ContextIsStable` |
| | `ExportedOnce` | `EachProposalOnce` |
| | `LabelsAreTrue` | `LabelsMatchTheFiles` |
| `UpgradeProofs` | `TypeCorrect` | the types of `Upgrade`'s variables |
| | `HonestVersion` | `VersionIsHonest` |
| | `ExcusedFailure` | `FailureIsExcused` |
| | `SpacedChecks` | `ChecksAreSpaced` |

### JsonlIngest and Journal

The inductive invariant for the first three is `TypeOK /\ PreservedPrefix /\
FreshRows`. `PreservedPrefix` alone is not inductive: an import may append without
comparing the prefix when the row has no `file_size` (`None => Append` in
`import_mode`), and that is right only because such a row never consumed a line;
and a row that is missing from `sessions` must not have events waiting under its
id. `FreshRows` says both. The heart of the proof is `CommitImport`:
`AppendMode` shows that an append starts in a buffer whose first lines are those
already preserved, `InsertLines` that inserting the lines `start .. n-1` into a
generation that holds the first `start` makes it hold the first `n` and leaves
all other rows alone, and `CommitImportResult` puts them together. `NothingIsLost`
follows from the same lemma.

`NothingTwice` needs that a row which agrees with the file was read as far as the
file goes. `ConsumedInv` says so of a row (`Consumed`: its offset is where a read
of its lines stops) and of a pass (`ReadWithin`: the bytes read are those up to
the size of the stat). Then a second read of the same content computes the
row that is there (`RowForReads`), `import_mode` gives `Skip` (`SkipMode`), and
the transaction changes nothing (`QuietRows`).

`BadLinesAreTold` adds `ErrorInv`: a row that stopped before a bad line has its
error open (`ErrorsTold`), and while a run retries a path with errors, its list
`retry` knows it (`RetryKnown`), so that the import which resolves errors is the
one that read past them. Both are about a file that is alone with its session id
(`Sole`): two files with one id write the same row, and the code resolves the
errors of a path by the outcome of its own import.

`AppendsStay` adds `GrownInv`: as long as a file has only grown, what its row
preserved and what a pass has read are both beginnings of what the file holds
now (`Grown`). The lemmas about `Continues` say that a cut read of something that
grew still continues what was read before, so `import_mode` never finds the
prefix changed (`AppendsInPlace`).

The last two theorems rest on `GInv`: the first invariant, `GenuineGenerations`
itself, and `VersionsHad`, which says that what a file holds is one of the
versions recorded in `had` and that the buffer between `Read` and the commit is
the beginning of one (`ReadBegins`: a read cut off by an older stat is one too;
writers go on changing the file meanwhile). For `JournalImplemented`, a step that
is no import leaves the view alone (`SourceStep`); an import makes it `Extend`
when it appends (`ImportExtends`: the rows before it are the beginning of the
rows after it) and `Supersede` when it rewrites.

### HeaderIngest

`LinesAreItsOwn` is not inductive: it says nothing of a pass under way.
`ReadsItsOwn` says of a pass that is about to read that the file it will find is
one that names its session, or that it will not get lines from it (the row is
unchanged and skipped, the stamp was empty, a chat is in the buffer already), or
that the file was changed under it; `CommitsItsOwn` says the same of the
buffer before the commit. They rest on the id being taken either from the header or from the row
of the path with the same size and mtime (`KeepsId`), and on rows without a size
having no lines (`GoodRow`), so that renaming one renames nothing that is
preserved and `None => Append` appends to nothing.

### SnapshotIngest

The agent's store and the reader's snapshot are finite sets and sequences of
them; `Sorted` is defined by the rank of a record, and the first lemmas show that
it puts every record in exactly one place for any total order. `FingerprintsAreStored`
and `StoredForGood` follow from the types of a pass (`IInv`).

`OneGenerationPerChange` counts, and a read that overlaps a write may yield a
torn snapshot and, later, the right one. `CountInv` makes that an account: the
writes so far pay for the generations so far and for what the pass under way may
still cost: nothing, one generation if what it has read differs from what is
stored, and one more if something was written after it was read. Every read
keeps the account, since a table that changed since the last import was
paid for by its write; every import spends what its pass had set aside.

### DataLock

`ProcessExclusion`: the process set names the thread that passed it until that
thread is idle. `LeavesNoFile` adds `LockOwner` (who has locked an inode has
it open and has not closed it, and once it comes to the close the path no longer
names it) and `Cleaned`: unless a process was killed, a lock file that the path
names has a thread that will remove it or leave it to one that will (`Cleaner`).

### Compact

`UpdatesOK` says of every pending update that its payload is that of the row it
will be written to and that zstd gives it back; `CountedOK` of every counted key
that its row is no longer raw. The first holds though the page was read outside
the transaction because nothing else changes a payload; the second because the
update's `WHERE` clause tests the codec again.

`LeavesNothing` rests on `Ahead`: whatever a command found when it began and
could still compact lies after its cursor or in the batch it is about to apply.
A page keeps that because it is a prefix of the rows after the cursor
(`PagesAreInOrder`, from the order being total, `BeforeIsOrder`), and the new
cursor is the last of it (`LastIsLast`). That a nonempty set of keys has a first
one is the least number principle of `WellFoundedInduction` applied to the
numbers of keys before each (`LeastNatural`, `FewerAbove`).

`ReportsAreExact` is about sums of lengths. The library defines a sum by recursion
over the set, and the rule of induction over finite sets cannot be used here
because it takes a predicate; but a set of good sets can stand for the predicate,
and a smallest set that is not good exists by `LeastNatural` (`SetInduction`). So
a sum of lengths is the number of their places (`SumIsPlaces`: a key of length
three has the places 1 to 3), and what is needed of sums follows from
the cardinality of disjoint unions. `ConvertedStats` says what converting rows does to
the statistics. `ExactInv` says that the books of a command nobody disturbed are
right at every step, not only at the end: `TotalsMatch` that what it read at the
beginning differs from the table by what it converted, `PlansMatch` that what it
counted is what the pages up to its cursor held (`PageIsScanned`). A command that
was disturbed keeps its books too, but they are no longer about this table.
`TypeCorrect` comes from the same invariant: that sums of bytes saved are natural
numbers needs that only payloads that shrink are planned.

### Transfer

`PackInv` says that while pack is connected the database and its WAL exist and
read as what pack opened, and that what tar has read of either file is what it
still holds: true because a reader that closes is never the last one, which is
what pack's own connection is for. `SettleInv` says that the archive settle
proved is still there and that what it staged is its content. `NextStep` is the
one lemma two theorems rest on: a step keeps the journal, adds one ingest run to
it, or is one of the two steps of settle that replace it.

`RInv` follows a settle that replaces the journal. `ForceInv`: without `--force`
the directory was empty, and whatever is in it since is an empty journal that
some command without the lock created. `RestoreInv`: unless the database was
opened meanwhile (`SettledIsTheArchive` excepts that), what is in the directory
is still listed to be removed, nothing is left when the archive is moved in, and
from then on the journal is the archive's.

### Upgrade

`HonestVersion` and `ExcusedFailure` come from `SchemaInv`, which adds `NotAhead`:
what a process has read is at most the journal's version, unless an older
program committed over a newer one. So the migrations it will run begin no later
than where the journal ends (`PendingFillsUp`), and when nobody else migrated they
begin right there and clash with nothing. That migration 2 shifts lines once
needs no exception: it clashes wherever it was applied, and the transaction
is dropped.

`SpacedChecks` comes from `LockInv`: until a lock is taken over or an update goes
without it, the commands between creating the lock and handing it over and the
children that have it are one process at most (`OneHolder`), the lock is there
as long as there is one (`LockKept`), so nobody else can write the stamp between
the second look at it and its use (`DueAtStamp`).

### TasteExtract

What `taste extract` computes of a session is a function of its lines, so most of
these proofs are lemmas about that function, from the line to the label.

- *Positions.* `Ordered` enumerates a set of positions by counting those up to
  each; `Ranks` says that in a finite total order every rank is taken once, and
  `OrderedProperty` and `OrderedIs` that the enumeration is the only increasing one.
  Selecting from a longer sequence begins with what is selected from the shorter
  (`OrderedPrefix`).
- *Merging.* `FlattenSeq` of the community modules is a recursive function;
  `FlattenProperty` says that every part lies at its offset in it. It is proved
  without induction over an operator: the first part that is out of place
  would contradict `LeastNatural`. `EarlierIsTotal` shows that `merge_streams` sorts
  by a total order, so the merge is a permutation (`MergeStreamsShape`). The events
  of one transcript with times that do not go back are increasing in that
  order, and `OrderedIs` makes their places the selection: `OrderIsKept`.
- *Contexts.* A row, the content before an event and the events before it are the
  same computed of a timeline and of one that continues it (`RowsPrefix`,
  `BeforePrefix`, `ContextPrefix`), so an example keeps them (`ExamplesPrefix`).
- *Labels.* A label of full confidence comes from the first row a proposal
  triggered (`HighLabels`). A row is triggered by the last proposal before it that
  names its file (`Triggered`), so the first triggered row is the first row of the
  file after the proposal, and there is one exactly when no other proposal came
  between (`FirstTriggered`). What a rejection says of the effect is subject to that
  row having content.

`TasteInv` carries this to every state. `Read` says of a session that was
extracted that its rows are `Materialize` and `CompileExamples` of the events in
`basis`, that these are numbered, come from its transcripts and those of its
children, and have one name per modification (the transaction failed otherwise).
`Counted` says that the stored count is at most the present one and that they
are equal only when nothing was added. That is true because `MergedCount` is the
cardinality of a set of pairs and an appended line adds one pair, be it to the
session, to a child, or as the first of a new child (`CountGrows`); every other session's
tree is untouched (`UntouchedTree`). `TasteInv` was checked by TLC on the
instance of `taste_labels` first.

Two assumptions are made of the transcripts, which jottrace does not write.
`TranscriptAssumption`: they are sequences of lines with a time, and only lines of
the types the parser reads have blocks, which says what a line stands for here and
excludes no transcript. `ToolUseAssumption`: within a session and its subagents one
name is not used for two tools. It does not exclude that a use is repeated, or
that two sessions use the same name, which `show example --session` is for. Only
`LabelsAreTrue` needs it: the trigger of a row is a name, and
if a Read had the name of an Edit, a row could be credited to either.

### Only model-checked

- The liveness properties, which need reasoning about fairness and `ENABLED`:
  `Convergence`, `AbandonedLockNeverBlocks`, `EventuallyCompact`,
  `EventuallyRestored`, `EventuallyCaptured`, `EventuallyTold`,
  `EventuallyResolved`, `BrokenIsSeen`, `EventuallyUsable`.

## Findings

- `lock_unlinked`: two commands can run under the lock. B opens the lock file, A
  (the holder) removes and closes it, C finds no file, creates and locks a new
  one, B locks the removed one.
- `transfer_failure`: settle lists the journal, a `status` closes it and SQLite
  removes the WAL, settle removes the database, then fails because the WAL is
  gone, and its guard removes the staged copy: the previous journal is lost
  though settle reports an error. The archive itself is intact, so
  `EventuallyRestored` holds.
- `taste_present`: a snapshot is credited to the last proposal that named the
  file, even a Read; a Write whose text is the last snapshot is then labelled
  rejected at full confidence.

## Seen while modelling

Behaviour that the models have, that a reader may not expect, and that the
properties therefore exempt by name or do not speak of:

- Two files with one session id and different contents make every run insert
  both again, in two new generations (`docs/design.md:190`: unchanged files cause
  no writes).
- An import stores the size and mtime of its stat with bytes read later. A file
  that shrank in between is inserted again by the next run; one that was replaced
  and then given back is not read again; a header read before the replacement
  gives a session the lines of another file (`mixed` in `HeaderIngest`).
- A longer file with another beginning opens a new generation, and a file that
  lost its bad tail resumes, both unlike the re-read table of `docs/design.md`. A
  rewrite to the same size within one second is not read.
- If the session that a placeholder's file names is known already, the
  placeholder stays, and so does one whose file went away.
- A new event in an OpenCode or Hermes session inserts its whole snapshot again
  (`docs/design.md:191`), and a changed project row does so for all its sessions.
- The error of one session of a store is resolved when a neighbour succeeds after
  it in the same run; the next run records it again.
- `status` and `doctor` take no lock and create a missing database; one that does
  so during settle leaves a WAL that is replayed over the restored journal.
  `SettledIsTheArchive` excepts it.
- After a rewrite every generation is extracted, a `tool_use_id` occurs twice,
  and the primary key makes `taste extract` fail at that session on every run,
  before the sessions behind it.
- `docs/design.md:355` says that proposals affected by missing sidecars are flagged
  low-confidence. The code does so when the last snapshot of the file is missing.
  When the first one after the proposal is, an Edit or Write is rejected at full
  confidence (`compiler.rs:393`), even if a later snapshot shows its text; so a
  kept edit that was accepted becomes rejected when it is extracted again after
  the sidecar was removed. When the one before is missing, it counts as an empty
  file (`compiler.rs:395`). `LabelsMatchTheFiles` names both cases: it speaks of
  no rejection of the first kind, and takes the empty file in the second. Both
  occur in `taste_labels`.
- A sidechain that was ingested and extracted before its parent keeps the rows it
  got on its own. Once linked it is extracted again inside its parent, so its
  proposals are exported twice. `EachProposalOnce` exempts exactly this.
- A program older than the journal that read its version before a newer one
  migrated runs migrations 3, 5 or 12 again if only these are pending, and sets the
  version back.
- A child that was slow to download renames an older release over a newer one.
- A command killed between creating the update lock and writing into it leaves a
  lock that is never stale; automatic updates stop until it is removed.

## Not modelled, and the plan

- Of the readers: directory walks and the ids made of paths, Claude local-agent
  headers over the limit and their fallback id, Factory's settings file, the second look at
  the header of Pi's nested runs, metadata of sessions, and timestamps.
- Of taste: the parsing of JSON, the correlation of Bash and MCP results beyond
  the label they give, `status` and `compile` reports, rendering.
- Web UI and event export: they read, and keep no state between requests.
- Argument parsing, reports, the download itself: pure input and output.
- The chmod of the update lock is one step with its creation: a command killed
  between them leaves the empty lock that one killed before the write leaves too.
- `SQLITE_BUSY` of a migration after the busy timeout of five seconds.
- FNV collisions, torn reads of one file, rows from before migration 009.

Next: the readers of Gemini and the correlation of Bash and MCP results, which
have no model yet; the liveness properties stay with TLC.
