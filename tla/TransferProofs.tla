--------------------------- MODULE TransferProofs ---------------------------
(* Proofs about Transfer, for every set of commands and all bounds. *)
EXTENDS Transfer, TLAPS

\* From the time pack has opened the journal nobody changes what it holds; what
\* tar has read of the two files is what they still hold; the output file is
\* not whole before tar ends, and holds what pack opened after it.
PackInv ==
    /\ PackConnected => db # None /\ wal # None /\ Journal = packed
    /\ ppc \notin {"tar", "close"} => tape = [db |-> Unread, wal |-> Unread]
    /\ ppc = "tar" => tape.db \in {Unread, db} /\ tape.wal \in {Unread, wal}
    /\ ppc \in {"claimed", "open", "checkpoint", "tar"} => ~Whole
    /\ PackedIsComplete

\* The archive that settle proved stays; what it has staged is that archive.
SettleInv ==
    /\ spc \in {"stage", "extract", "validate", "clear", "move"} => Whole
    /\ spc = "validate" => staged = archive
    /\ spc \in {"clear", "move"} => staged.db = View(archive.db, archive.wal)

IInv == TypeOK /\ PackInv /\ SettleInv

------------------------------------------------------------------------------
(* SQLite. *)

LEMMA ViewType ==
    ASSUME NEW d \in Version \cup {None}, NEW w \in WalFile
    PROVE  View(d, w) \in Version
BY TransferAssumption DEF View, Version, WalFile, Wal

LEMMA VersionIsFile ==
    ASSUME NEW v \in Version
    PROVE  v # None /\ View(v, None) = v /\ View(v, Empty) = v
BY TransferAssumption DEF View, Version

\* Closing and checkpointing keep what the journal holds.
LEMMA FoldKeeps ==
    ASSUME TypeOK, Fold \/ Checkpoint
    PROVE  Journal' = Journal /\ db' \in Version /\ wal' \in WalFile
<1>1. Journal \in Version
  BY ViewType DEF TypeOK, Journal
<1>2. db' = Journal /\ wal' \in {None, Empty}
  BY DEF Fold, Checkpoint
<1> QED
  BY <1>1, <1>2, VersionIsFile DEF Journal, WalFile

\* So does opening, which leaves a database with its WAL file.
LEMMA OpenKeeps ==
    ASSUME TypeOK, Open
    PROVE  /\ Journal' = Journal /\ db' \in Version /\ wal' \in WalFile
           /\ db # None => db' = db /\ wal' # None
           /\ db # None /\ wal # None => wal' = wal
<1>1. CASE db = None
  <2>1. db' = 0 /\ wal' = [v |-> 0, mine |-> TRUE] /\ 0 \in Version
    BY <1>1 DEF Open, Version
  <2>2. wal' \in Wal
    BY <2>1 DEF Wal
  <2>3. View(db, wal) = 0
    BY <1>1 DEF View
  <2>4. View(db', wal') = 0
    BY <2>1 DEF View
  <2> QED
    BY <1>1, <2>1, <2>2, <2>3, <2>4 DEF Journal, WalFile
<1>2. CASE db # None
  <2>1. db' = db /\ wal' = IF wal = None THEN Empty ELSE wal
    BY <1>2 DEF Open
  <2>2. View(db, Empty) = db /\ View(db, None) = db
    BY <1>2 DEF View
  <2> QED
    BY <1>2, <2>1, <2>2, TransferAssumption DEF Journal, TypeOK, WalFile
<1> QED
  BY <1>1, <1>2

\* Replacing the database file keeps the types.
LEMMA ReplaceType ==
    ASSUME TypeOK, NEW d \in Version \cup {None}, Replace(d)
    PROVE  /\ db' = d /\ wal' \in WalFile
           /\ conns' \in [Readers -> {"none", "live", "moved"}]
<1>1. wal' \in WalFile
  <2>1. CASE wal \in {None, Empty}
    BY <2>1 DEF Replace, TypeOK
  <2>2. CASE wal \notin {None, Empty}
    <3>1. wal \in Wal
      BY <2>2 DEF TypeOK, WalFile
    <3>2. [wal EXCEPT !.mine = FALSE] \in Wal
      BY <3>1 DEF Wal
    <3> QED
      BY <2>2, <3>2 DEF Replace, WalFile
  <2> QED
    BY <2>1, <2>2
<1> QED
  BY <1>1 DEF Replace, TypeOK

\* A file system and a connection that are left alone, or changed without
\* changing what the journal holds.
LEMMA HomeKept ==
    ASSUME TypeOK, UNCHANGED home \/ Fold \/ Checkpoint
    PROVE  Journal' = Journal /\ db' \in Version \cup {None} /\ wal' \in WalFile
<1>1. CASE UNCHANGED home
  BY <1>1 DEF home, Journal, TypeOK
<1>2. CASE Fold \/ Checkpoint
  BY <1>2, FoldKeeps
<1> QED
  BY <1>1, <1>2

------------------------------------------------------------------------------
(* Every step keeps the invariant: first the types, with the holder of the    *)
(* lock, then what pack and settle rely on.                                   *)

LEMMA InitInvariant == Init => IInv
<1> SUFFICES ASSUME Init PROVE IInv
  OBVIOUS
<1>1. db \in Version \cup {None} /\ wal \in WalFile
  <2> DEFINE w == [v |-> 1, mine |-> TRUE]
  <2>1. w \in Wal
    BY DEF Wal
  <2>2. \/ db = None /\ wal = None
        \/ db = 1 /\ wal = None
        \/ db = 0 /\ wal = w
    BY DEF Init
  <2> HIDE DEF w
  <2> QED
    BY <2>1, <2>2 DEF Version, WalFile
<1>2. TypeOK
  BY <1>1 DEF Init, TypeOK
<1>3. PackInv /\ SettleInv
  BY DEF Init, PackInv, PackedIsComplete, SettleInv, PackConnected, Whole
<1> QED
  BY <1>2, <1>3 DEF IInv

\* The commands without the lock.
LEMMA ReaderSteps ==
    ASSUME IInv, NEW r \in Readers, ReaderOpen(r) \/ ReaderClose(r) \/ ReaderKilled(r)
    PROVE  IInv' /\ Journal' = Journal
<1> USE DEF IInv
<1>1. CASE ReaderOpen(r)
  <2>1. Open /\ UNCHANGED <<lock, archive, pack, settle, packed>>
    BY <1>1 DEF ReaderOpen
  <2>2. /\ conns' \in [Readers -> {"none", "live", "moved"}]
        /\ intruded' \in BOOLEAN
    BY <1>1 DEF ReaderOpen, TypeOK
  <2>3. TypeOK'
    BY <2>1, <2>2, OpenKeeps DEF TypeOK, pack, settle
  <2>4. PackInv' /\ SettleInv'
    BY <2>1, OpenKeeps DEF PackInv, PackedIsComplete, SettleInv, pack, settle,
      PackConnected, Whole
  <2> QED
    BY <2>1, <2>3, <2>4, OpenKeeps
<1>2. CASE ReaderClose(r) \/ ReaderKilled(r)
  <2>1. UNCHANGED <<lock, archive, pack, settle, packed, intruded>>
    BY <1>2 DEF ReaderClose, ReaderKilled, Die
  <2>2. UNCHANGED home \/ (Fold /\ ~PackConnected)
    BY <1>2 DEF ReaderClose, ReaderKilled, OthersLive
  <2>3. conns' \in [Readers -> {"none", "live", "moved"}]
    BY <1>2 DEF ReaderClose, ReaderKilled, TypeOK
  <2>4. TypeOK'
    BY <2>1, <2>2, <2>3, HomeKept DEF TypeOK, pack, settle
  <2>5. PackInv'
    BY <2>1, <2>2, HomeKept DEF PackInv, PackedIsComplete, pack, PackConnected, Whole, home
  <2>6. SettleInv'
    BY <2>1 DEF SettleInv, settle, Whole
  <2> QED
    BY <2>2, <2>4, <2>5, <2>6, HomeKept
<1> QED
  BY <1>1, <1>2

LEMMA IngestStep ==
    ASSUME IInv, Ingest
    PROVE  /\ IInv'
           /\ Journal # Mixed /\ Journal' = Journal + 1 /\ lock = "none"
<1> USE DEF IInv
<1>1. Journal \in Nat /\ lock = "none" /\ Journal # Mixed
  BY ViewType DEF Ingest, Journal, TypeOK, Version
<1>2. db' \in Version /\ wal' \in WalFile /\ Journal' = Journal + 1
  <2>1. CASE NoReader /\ db' = Journal + 1 /\ wal' = None
    BY <1>1, <2>1, VersionIsFile DEF Journal, Version, WalFile
  <2>2. CASE db' = (IF db = None THEN 0 ELSE db) /\ wal' = [v |-> Journal + 1,
    mine |-> TRUE]
    <3>1. wal' \in Wal /\ wal'.mine /\ wal'.v = Journal + 1
      BY <1>1, <2>2 DEF Wal
    <3>2. db' \in Version
      BY <2>2 DEF TypeOK, Version
    <3>3. wal' \notin {None, Empty}
      BY <3>1, TransferAssumption
    <3> QED
      BY <3>1, <3>2, <3>3, VersionIsFile DEF WalFile, Journal, View
  <2> QED
    BY <2>1, <2>2 DEF Ingest
<1>3. UNCHANGED <<conns, lock, archive, pack, settle, packed, intruded>>
  BY DEF Ingest
<1>4. TypeOK'
  BY <1>2, <1>3 DEF TypeOK, pack, settle
<1>5. PackInv' /\ SettleInv'
  BY <1>1, <1>3 DEF TypeOK, PackInv, PackedIsComplete, SettleInv, pack, settle,
    PackConnected, Whole
<1> QED
  BY <1>1, <1>2, <1>4, <1>5

\* pack, up to the archive.
LEMMA PackSteps ==
    ASSUME IInv, Pack \/ PackFail \/ PackKilled \/ RemoveArchive
    PROVE  IInv' /\ Journal' = Journal
<1> USE DEF IInv
<1>1. CASE PackClaim
  <2>1. TypeOK'
    BY <1>1 DEF PackClaim, TypeOK, home, settle
  <2>2. PackInv' /\ SettleInv'
    BY <1>1 DEF PackClaim, PackInv, PackedIsComplete, SettleInv, PackConnected, Whole,
      settle
  <2> QED
    BY <1>1, <2>1, <2>2 DEF PackClaim, home, Journal
<1>2. CASE PackLock
  <2>1. TypeOK'
    BY <1>2 DEF PackLock, TypeOK, home, settle
  <2>2. PackInv' /\ SettleInv'
    BY <1>2 DEF PackLock, PackInv, PackedIsComplete, SettleInv, PackConnected, Whole, settle
  <2> QED
    BY <1>2, <2>1, <2>2 DEF PackLock, home, Journal
<1>3. CASE PackOpen
  <2>1. TypeOK'
    BY <1>3, OpenKeeps DEF PackOpen, TypeOK, settle
  <2>2. PackInv' /\ SettleInv'
    BY <1>3, OpenKeeps DEF PackOpen, PackInv, PackedIsComplete, SettleInv, PackConnected,
      Whole, settle
  <2> QED
    BY <1>3, <2>1, <2>2, OpenKeeps DEF PackOpen
<1>4. CASE PackCheckpoint
  <2>1. TypeOK'
    BY <1>4, HomeKept DEF PackCheckpoint, TypeOK, settle
  <2>2. db' # None /\ wal' # None
    BY <1>4, FoldKeeps, VersionIsFile, TransferAssumption
    DEF PackCheckpoint, PackInv, PackedIsComplete, PackConnected, Checkpoint, home
  <2>3. PackInv' /\ SettleInv'
    BY <1>4, <2>2, HomeKept
    DEF PackCheckpoint, PackInv, PackedIsComplete, SettleInv, PackConnected, Whole, settle
  <2> QED
    BY <1>4, <2>1, <2>3, HomeKept DEF PackCheckpoint
<1>5. CASE PackTar
  <2>1. UNCHANGED <<db, wal, conns, lock, settle, packed, intruded>> /\ ppc = "tar"
    BY <1>5 DEF PackTar, home
  <2>2. tape' \in [db : Version \cup {Unread}, wal : WalFile \cup {Unread}]
        /\ tape'.db \in {Unread, db} /\ tape'.wal \in {Unread, wal}
    BY <1>5, <2>1 DEF PackTar, TypeOK, PackInv, PackedIsComplete, PackConnected
  <2>3. CASE tape'.db # Unread /\ tape'.wal # Unread
    <3>1. archive' = tape' /\ ppc' = "close" /\ tape'.db = db /\ tape'.wal = wal
      BY <1>5, <2>2, <2>3 DEF PackTar
    <3>2. tape' \in Tree
      BY <2>2, <2>3 DEF Tree
    <3> QED
      BY <2>1, <2>2, <3>1, <3>2
      DEF TypeOK, PackInv, PackedIsComplete, SettleInv, PackConnected, Whole, settle,
        Journal
  <2>4. CASE ~(tape'.db # Unread /\ tape'.wal # Unread)
    <3>1. UNCHANGED <<archive, ppc>>
      BY <1>5, <2>4 DEF PackTar
    <3> QED
      BY <2>1, <2>2, <3>1
      DEF TypeOK, PackInv, PackedIsComplete, SettleInv, PackConnected, Whole, settle,
        Journal
  <2> QED
    BY <2>3, <2>4
<1>6. CASE PackClose
  <2>1. TypeOK'
    BY <1>6, HomeKept DEF PackClose, PackReset, TypeOK, settle
  <2>2. PackInv' /\ SettleInv'
    BY <1>6 DEF PackClose, PackReset, PackInv, PackedIsComplete, SettleInv,
      PackConnected, Whole, settle
  <2> QED
    BY <1>6, <2>1, <2>2, HomeKept DEF PackClose
<1>7. CASE PackRefuse
  <2>1. TypeOK'
    BY <1>7 DEF PackRefuse, PackReset, TypeOK, home, settle
  <2>2. PackInv' /\ SettleInv'
    BY <1>7 DEF PackRefuse, PackReset, TypeOK, PackInv, PackedIsComplete, SettleInv,
      PackConnected, Whole, settle
  <2> QED
    BY <1>7, <2>1, <2>2 DEF PackRefuse, home, Journal
<1>8. CASE PackFail
  <2>1. TypeOK'
    BY <1>8, HomeKept DEF PackFail, PackReset, Die, TypeOK, settle
  <2>2. PackInv' /\ SettleInv'
    BY <1>8 DEF PackFail, PackReset, TypeOK, PackInv, PackedIsComplete, SettleInv,
      PackConnected, Whole, settle
  <2> QED
    BY <1>8, <2>1, <2>2, HomeKept DEF PackFail
<1>9. CASE PackKilled
  <2>1. TypeOK'
    BY <1>9 DEF PackKilled, PackReset, Die, TypeOK, home, settle
  <2>2. PackInv' /\ SettleInv'
    BY <1>9 DEF PackKilled, PackReset, Die, PackInv, PackedIsComplete, SettleInv,
      PackConnected, Whole, settle
  <2> QED
    BY <1>9, <2>1, <2>2 DEF PackKilled, home, Journal
<1>10. CASE RemoveArchive
  <2>1. TypeOK'
    BY <1>10 DEF RemoveArchive, Die, TypeOK, home, pack, settle
  <2>2. PackInv' /\ SettleInv'
    BY <1>10 DEF RemoveArchive, Die, PackInv, PackedIsComplete, SettleInv, PackConnected,
      Whole, pack, settle
  <2> QED
    BY <1>10, <2>1, <2>2 DEF RemoveArchive, home, Journal
<1> QED
  BY <1>1, <1>2, <1>3, <1>4, <1>5, <1>6, <1>7, <1>8, <1>9, <1>10 DEF Pack

------------------------------------------------------------------------------
\* The steps of settle that do not touch the journal, or only look at it.
LEMMA SettleOutside ==
    ASSUME IInv,
           \/ \E f \in BOOLEAN : SettleBegin(f)
           \/ SettleInspect \/ SettleStage \/ SettleExtract \/ SettleValidate
           \/ SettleCleared \/ SettleRemoveStaging \/ SettleStatus
           \/ SettleFail \/ SettleKilled
    PROVE  IInv' /\ Journal' = Journal
<1> USE DEF IInv
<1>0. ASSUME UNCHANGED <<archive, pack, packed>>, UNCHANGED home \/ Fold,
             lock # "pack"
      PROVE  PackInv' /\ Journal' = Journal
  BY <1>0, HomeKept DEF TypeOK, PackInv, PackedIsComplete, PackConnected, Whole, pack
<1>1. ASSUME NEW f \in BOOLEAN, SettleBegin(f) PROVE IInv' /\ Journal' = Journal
  <2>1. TypeOK'
    BY <1>1 DEF SettleBegin, TypeOK, home, pack
  <2>2. SettleInv'
    BY <1>1 DEF SettleBegin, SettleInv
  <2> QED
    BY <1>0, <1>1, <2>1, <2>2 DEF SettleBegin
<1>2. CASE SettleInspect
  <2>1. TypeOK'
    BY <1>2 DEF SettleInspect, SettleError, TypeOK, home, pack
  <2>2. SettleInv'
    BY <1>2 DEF SettleInspect, SettleError, SettleInv, Whole
  <2> QED
    BY <1>0, <1>2, <2>1, <2>2 DEF SettleInspect, TypeOK
<1>3. CASE SettleStage
  <2>1. TypeOK'
    BY <1>3 DEF SettleStage, TypeOK, home, pack
  <2>2. SettleInv'
    BY <1>3 DEF SettleStage, SettleInv, Whole
  <2> QED
    BY <1>0, <1>3, <2>1, <2>2 DEF SettleStage, TypeOK
<1>4. CASE SettleExtract
  <2>1. TypeOK'
    BY <1>4 DEF SettleExtract, SettleInv, Whole, TypeOK, home, pack
  <2>2. SettleInv'
    BY <1>4 DEF SettleExtract, SettleInv, Whole
  <2> QED
    BY <1>0, <1>4, <2>1, <2>2 DEF SettleExtract, TypeOK
<1>5. CASE SettleValidate
  <2>1. staged \in Tree /\ staged = archive
    BY <1>5 DEF SettleValidate, TypeOK, SettleInv
  <2>2. View(staged.db, staged.wal) \in Version
    BY <2>1, ViewType DEF Tree
  <2>3. staged' \in Tree /\ staged'.db = View(archive.db, archive.wal)
    BY <1>5, <2>1, <2>2 DEF SettleValidate, Tree, WalFile
  <2>4. TypeOK'
    BY <1>5, <2>3 DEF SettleValidate, Listed, TypeOK, home, pack
  <2>5. SettleInv'
    BY <1>5, <2>3 DEF SettleValidate, SettleInv, Whole
  <2> QED
    BY <1>0, <1>5, <2>4, <2>5 DEF SettleValidate, TypeOK
<1>6. CASE SettleCleared
  <2>1. TypeOK'
    BY <1>6 DEF SettleCleared, TypeOK, home, pack
  <2>2. SettleInv'
    BY <1>6 DEF SettleCleared, SettleInv, Whole
  <2> QED
    BY <1>0, <1>6, <2>1, <2>2 DEF SettleCleared, TypeOK
<1>7. CASE SettleRemoveStaging
  <2>1. TypeOK'
    BY <1>7 DEF SettleRemoveStaging, TypeOK, home, pack
  <2>2. SettleInv'
    BY <1>7 DEF SettleRemoveStaging, SettleInv
  <2> QED
    BY <1>0, <1>7, <2>1, <2>2 DEF SettleRemoveStaging, TypeOK
<1>8. CASE SettleStatus
  <2>1. TypeOK'
    BY <1>8, HomeKept DEF SettleStatus, TypeOK, pack
  <2>2. SettleInv'
    BY <1>8 DEF SettleStatus, SettleInv
  <2> QED
    BY <1>0, <1>8, <2>1, <2>2 DEF SettleStatus, TypeOK
<1>9. CASE SettleFail
  <2>1. TypeOK'
    BY <1>9 DEF SettleFail, SettleError, Die, TypeOK, home, pack
  <2>2. SettleInv'
    BY <1>9 DEF SettleFail, SettleError, SettleInv
  <2> QED
    BY <1>0, <1>9, <2>1, <2>2 DEF SettleFail, Die, TypeOK
<1>10. CASE SettleKilled
  <2>1. TypeOK'
    BY <1>10 DEF SettleKilled, Die, TypeOK, home, pack
  <2>2. SettleInv'
    BY <1>10 DEF SettleKilled, SettleInv
  <2> QED
    BY <1>0, <1>10, <2>1, <2>2 DEF SettleKilled, Die, TypeOK
<1> QED
  BY <1>1, <1>2, <1>3, <1>4, <1>5, <1>6, <1>7, <1>8, <1>9, <1>10

\* The two that replace the journal.
LEMMA SettleInside ==
    ASSUME IInv, (\E n \in {"db", "wal"} : SettleClear(n)) \/ SettleMove
    PROVE  /\ IInv'
           /\ spc \in {"clear", "move"} /\ Whole
           /\ staged.db = View(archive.db, archive.wal)
<1> USE DEF IInv
<1>1. ASSUME UNCHANGED <<archive, pack, packed>>, lock # "pack"
      PROVE  PackInv'
  BY <1>1 DEF TypeOK, PackInv, PackedIsComplete, PackConnected, Whole, pack
<1>2. ASSUME NEW n \in {"db", "wal"}, SettleClear(n) PROVE IInv' /\ spc = "clear"
  <2>1. /\ db' \in Version \cup {None} /\ wal' \in WalFile
        /\ conns' \in [Readers -> {"none", "live", "moved"}]
    <3>1. \/ UNCHANGED <<home, conns>>
          \/ Replace(None)
          \/ wal' = None /\ UNCHANGED <<db, conns>>
      BY <1>2 DEF SettleClear
    <3> QED
      BY <3>1, ReplaceType DEF home, TypeOK, WalFile
  <2>2. \/ SettleError
        \/ toClear' = toClear \ {n} /\ UNCHANGED <<spc, staged, force, outcome, lock>>
    BY <1>2 DEF SettleClear
  <2>3. UNCHANGED <<archive, pack, packed, intruded>> /\ spc = "clear"
    BY <1>2 DEF SettleClear
  <2>4. TypeOK'
    BY <2>1, <2>2, <2>3 DEF SettleError, TypeOK, pack
  <2>5. SettleInv'
    BY <2>2, <2>3 DEF SettleError, SettleInv, Whole
  <2> QED
    BY <1>1, <2>3, <2>4, <2>5 DEF TypeOK
<1>3. ASSUME SettleMove PROVE IInv'
  <2>1. staged.db \in Version
    BY <1>3 DEF SettleMove, TypeOK, Tree
  <2>2. /\ db' \in Version /\ wal' \in WalFile
        /\ conns' \in [Readers -> {"none", "live", "moved"}]
    BY <1>3, <2>1, ReplaceType DEF SettleMove
  <2>3. TypeOK'
    BY <1>3, <2>2 DEF SettleMove, TypeOK, pack
  <2>4. SettleInv'
    BY <1>3 DEF SettleMove, SettleInv
  <2> QED
    BY <1>1, <1>3, <2>3, <2>4 DEF SettleMove, TypeOK
<1>4. IInv' /\ spc \in {"clear", "move"}
  <2>1. CASE \E n \in {"db", "wal"} : SettleClear(n)
    BY <1>2, <2>1
  <2>2. CASE SettleMove
    BY <1>3, <2>2 DEF SettleMove
  <2> QED
    BY <2>1, <2>2
<1>5. Whole /\ staged.db = View(archive.db, archive.wal)
  BY <1>4 DEF SettleInv
<1> QED
  BY <1>4, <1>5

------------------------------------------------------------------------------
\* What one step may do: keep the journal, add an ingest run to it, or put the
\* proven archive in its place.
LEMMA NextStep ==
    ASSUME IInv, [Next]_vars
    PROVE  /\ IInv'
           /\ \/ Journal' = Journal
              \/ Journal # Mixed /\ Journal' = Journal + 1 /\ lock = "none"
              \/ /\ spc \in {"clear", "move"} /\ Whole
                 /\ staged.db = View(archive.db, archive.wal)
<1>1. CASE \E r \in Readers : ReaderOpen(r) \/ ReaderClose(r) \/ ReaderKilled(r)
  BY <1>1, ReaderSteps
<1>2. CASE Ingest
  BY <1>2, IngestStep
<1>3. CASE Pack \/ PackFail \/ PackKilled \/ RemoveArchive
  BY <1>3, PackSteps
<1>4. CASE \/ SettleStep \/ (\E f \in BOOLEAN : SettleBegin(f))
           \/ SettleFail \/ SettleKilled
  BY <1>4, SettleOutside, SettleInside DEF SettleStep
<1>5. CASE UNCHANGED vars
  <2>1. TypeOK'
    BY <1>5 DEF IInv, TypeOK, vars, home, pack, settle
  <2>2. PackInv' /\ SettleInv'
    BY <1>5 DEF IInv, PackInv, PackedIsComplete, SettleInv, PackConnected, Whole,
      Journal, vars, home,
                pack, settle
  <2> QED
    BY <1>5, <2>1, <2>2 DEF IInv, Journal, vars, home
<1> QED
  BY <1>1, <1>2, <1>3, <1>4, <1>5 DEF Next

LEMMA InvariantHolds == Spec => []IInv
<1>1. IInv /\ [Next]_vars => IInv'
  BY NextStep
<1> QED
  BY <1>1, InitInvariant, PTL DEF Spec

\* Every variable keeps its type, settle and pack hold the lock exactly while
\* they are at work, and a staged tree that was validated is a journal.
THEOREM TypeCorrect == Spec => []TypeOK
<1>1. IInv => TypeOK
  BY DEF IInv
<1> QED
  BY <1>1, InvariantHolds, PTL

\* A finished archive holds the journal that pack opened, whatever held the
\* checkpoint off and whoever closed the database while tar was reading.
THEOREM ArchivesAreComplete == Spec => []PackedIsComplete
<1>1. IInv => PackedIsComplete
  BY DEF IInv, PackInv
<1> QED
  BY <1>1, InvariantHolds, PTL

\* Nothing but an ingest run or a settle that has proven its archive changes
\* what the journal holds.
THEOREM OnlyProofChanges == Spec => ChangedByProof
<1>1. IInv /\ [Next]_vars =>
        [Journal' # Journal =>
            \/ Journal # Mixed /\ Journal' = Journal + 1 /\ lock = "none"
            \/ spc \in {"clear", "move"} /\ Whole
                 /\ staged.db = View(archive.db, archive.wal)]_vars
  BY NextStep
<1> QED
  BY <1>1, InvariantHolds, PTL DEF Spec, ChangedByProof

------------------------------------------------------------------------------
(* Without --force, and with success: what the journal is while settle works.  *)

BeforeRemove == {"inspect", "stage", "extract", "validate", "clear", "move"}

\* The directory was found empty, and only commands without the lock have been
\* there since: what they create is an empty journal.
ForceInv == ~force /\ spc \in BeforeRemove => db \in {None, 0} /\ Journal = 0

\* A connection to the database at the path means that there is one.
LiveInv == ~NoReader => db # None

\* Unless somebody opens the database meanwhile, what is in the directory is
\* still listed to be removed, nothing is left when the archive is moved in, and
\* what the journal holds then stays until settle returns.
RestoreInv ==
    /\ spc \in {"clear", "move"} /\ ~intruded =>
          (db # None => "db" \in toClear) /\ (wal # None => "wal" \in toClear)
    /\ spc = "move" => toClear = {}
    /\ spc \in {"remove", "status"} =>
          Whole /\ (~intruded => Journal = View(archive.db, archive.wal))

RInv == ForceInv /\ LiveInv /\ RestoreInv

LEMMA InitRestore == Init => RInv
BY DEF Init, RInv, ForceInv, LiveInv, RestoreInv, NoReader, BeforeRemove

\* Folding a WAL leaves the one database file, with what the journal held.
LEMMA FoldRestores ==
    ASSUME TypeOK, Fold
    PROVE  /\ db' = Journal /\ db' # None /\ wal' = None /\ Journal' = Journal
<1>1. Journal \in Version
  BY ViewType DEF TypeOK, Journal
<1> QED
  BY <1>1, FoldKeeps, VersionIsFile DEF Fold

\* What pack does meanwhile: it leaves the files alone unless it holds the
\* lock, and a whole archive unless settle is idle.
LEMMA PackApart ==
    ASSUME IInv, Pack \/ PackFail \/ PackKilled \/ RemoveArchive
    PROVE  /\ UNCHANGED <<conns, settle, intruded>>
           /\ UNCHANGED home \/ (spc = "idle" /\ (db # None => db' # None))
           /\ archive' = archive \/ ~Whole \/ spc = "idle"
<1> USE DEF IInv
<1>1. CASE PackClaim \/ PackLock \/ PackTar \/ PackRefuse \/ PackKilled \/ RemoveArchive
  BY <1>1 DEF PackClaim, PackLock, PackTar, PackRefuse, PackReset, PackKilled,
    RemoveArchive, Die, TypeOK, Whole, PackInv
<1>2. CASE PackOpen
  BY <1>2, OpenKeeps DEF PackOpen, TypeOK
<1>3. CASE PackCheckpoint
  <2>1. Checkpoint => db' # None
    BY FoldKeeps, VersionIsFile
  <2> QED
    BY <1>3, <2>1 DEF PackCheckpoint, TypeOK
<1>4. CASE PackClose \/ PackFail
  <2>1. Fold => db' # None
    BY FoldRestores
  <2> QED
    BY <1>4, <2>1 DEF PackClose, PackFail, Die, TypeOK
<1> QED
  BY <1>1, <1>2, <1>3, <1>4 DEF Pack

\* The commands without the lock.
LEMMA ReaderRestores ==
    ASSUME IInv, RInv, NEW r \in Readers,
           ReaderOpen(r) \/ ReaderClose(r) \/ ReaderKilled(r)
    PROVE  RInv'
<1> USE DEF IInv
<1>1. CASE ReaderOpen(r)
  <2>1. /\ Open /\ Journal' = Journal /\ db' # None
        /\ UNCHANGED <<archive, settle>>
        /\ intruded' = (intruded \/ spc \in {"clear", "move"})
        /\ db' = db \/ db' = 0
    BY <1>1, OpenKeeps, VersionIsFile DEF ReaderOpen, Open
  <2> QED
    BY <2>1 DEF RInv, ForceInv, LiveInv, RestoreInv, settle, Whole
<1>2. CASE ReaderClose(r) /\ Fold /\ conns[r] = "live"
  <2>1. UNCHANGED <<archive, settle, intruded>>
    BY <1>2 DEF ReaderClose
  <2>2. db' = Journal /\ db' # None /\ wal' = None /\ Journal' = Journal
    BY <1>2, FoldRestores
  <2>3. db # None
    BY <1>2 DEF RInv, LiveInv, NoReader
  <2> QED
    BY <2>1, <2>2, <2>3 DEF RInv, ForceInv, LiveInv, RestoreInv, settle, Whole
<1>3. CASE (ReaderClose(r) \/ ReaderKilled(r)) /\ UNCHANGED home
  <2>1. UNCHANGED <<archive, settle, intruded, Journal>>
    BY <1>3 DEF ReaderClose, ReaderKilled, Die, home, Journal
  <2>2. NoReader => NoReader'
    BY <1>3 DEF ReaderClose, ReaderKilled, NoReader, TypeOK
  <2> QED
    BY <1>3, <2>1, <2>2 DEF RInv, ForceInv, LiveInv, RestoreInv, settle, Whole, home
<1>4. ReaderClose(r) => UNCHANGED home \/ (Fold /\ conns[r] = "live")
  BY DEF ReaderClose, TypeOK
<1> QED
  BY <1>1, <1>2, <1>3, <1>4 DEF ReaderKilled

\* What settle does before and after the files are replaced.
LEMMA OutsideRestores ==
    ASSUME IInv, RInv,
           \/ \E f \in BOOLEAN : SettleBegin(f)
           \/ SettleInspect \/ SettleStage \/ SettleExtract \/ SettleValidate
           \/ SettleCleared \/ SettleRemoveStaging \/ SettleStatus
           \/ SettleFail \/ SettleKilled
    PROVE  RInv' /\ (outcome' = "settled" /\ outcome # "settled" =>
                        spc = "status" /\ archive' = archive)
<1> USE DEF IInv
<1> DEFINE Unsettled == ~(outcome' = "settled" /\ outcome # "settled")
<1>0. ASSUME UNCHANGED <<home, conns>>
      PROVE  LiveInv' /\ Journal' = Journal /\ UNCHANGED <<db, wal>>
  BY <1>0 DEF RInv, LiveInv, NoReader, home, Journal
<1>1. ASSUME NEW f \in BOOLEAN, SettleBegin(f) PROVE RInv' /\ Unsettled
  <2>1. ~f => db = None /\ Journal = 0
    BY <1>1 DEF SettleBegin, HomeEmpty, Journal, View
  <2> QED
    BY <1>0, <1>1, <2>1 DEF SettleBegin, RInv, ForceInv, RestoreInv
<1>2. CASE SettleInspect \/ SettleStage \/ SettleExtract
  BY <1>0, <1>2 DEF SettleInspect, SettleError, SettleStage, SettleExtract, RInv, ForceInv,
    RestoreInv, BeforeRemove
<1>3. CASE SettleValidate
  BY <1>0, <1>3 DEF SettleValidate, Listed, RInv, ForceInv, RestoreInv, BeforeRemove
<1>4. CASE SettleCleared
  BY <1>0, <1>4 DEF SettleCleared, RInv, ForceInv, RestoreInv, BeforeRemove
<1>5. CASE SettleRemoveStaging
  BY <1>0, <1>5 DEF SettleRemoveStaging, RInv, ForceInv, RestoreInv, BeforeRemove, Whole
<1>6. CASE SettleStatus
  <2>1. LiveInv'
    <3>1. CASE Fold
      BY <3>1, FoldRestores DEF LiveInv
    <3>2. CASE UNCHANGED home
      BY <1>0, <1>6, <3>2 DEF SettleStatus
    <3> QED
      BY <1>6, <3>1, <3>2 DEF SettleStatus
  <2> QED
    BY <1>6, <2>1 DEF SettleStatus, RInv, ForceInv, RestoreInv, BeforeRemove
<1>7. CASE SettleFail \/ SettleKilled
  BY <1>0, <1>7 DEF SettleFail, SettleKilled, SettleError, Die, RInv, ForceInv,
    RestoreInv, BeforeRemove
<1> QED
  BY <1>1, <1>2, <1>3, <1>4, <1>5, <1>6, <1>7

\* The two steps that replace the journal.
LEMMA InsideRestores ==
    ASSUME IInv, RInv, (\E n \in {"db", "wal"} : SettleClear(n)) \/ SettleMove
    PROVE  RInv' /\ outcome' \in {outcome, "error"} /\ (~force => Journal = 0)
<1> USE DEF IInv
<1>0. ASSUME NEW d, Replace(d)
      PROVE  NoReader' /\ db' = d /\ (wal = None => wal' = None)
  BY <1>0 DEF Replace, NoReader, TypeOK
<1>1. ASSUME NEW n \in {"db", "wal"}, SettleClear(n) PROVE RInv' /\ outcome' \in {outcome, "error"}
  <2>1. CASE SettleError /\ UNCHANGED <<home, conns>>
    BY <1>1, <2>1 DEF SettleError, RInv, ForceInv, LiveInv, RestoreInv, NoReader, home,
      BeforeRemove
  <2>2. CASE n = "db" /\ Replace(None) /\ toClear' = toClear \ {n}
             /\ UNCHANGED <<spc, staged, force, outcome, lock>>
    <3>1. Journal' = 0
      BY <1>0, <2>2 DEF Journal, View
    <3> QED
      BY <1>0, <1>1, <2>2, <3>1 DEF SettleClear, RInv, ForceInv, LiveInv, RestoreInv
  <2>3. CASE n = "wal" /\ wal' = None /\ UNCHANGED <<db, conns>> /\ toClear' = toClear \ {n}
             /\ UNCHANGED <<spc, staged, force, outcome, lock>>
    <3>1. db \in {None, 0} => Journal' = 0
      BY <2>3 DEF Journal, View
    <3> QED
      BY <1>1, <2>3, <3>1 DEF SettleClear, RInv, ForceInv, LiveInv, RestoreInv, NoReader
  <2> QED
    BY <1>1, <2>1, <2>2, <2>3 DEF SettleClear
<1>2. CASE SettleMove
  <2>1. spc = "move" /\ spc' = "remove" /\ Whole /\ UNCHANGED <<archive, force, outcome, intruded>>
    BY <1>2 DEF SettleMove, SettleInv
  <2>2. NoReader' /\ db' = staged.db /\ staged.db = View(archive.db, archive.wal)
        /\ staged.db \in Version
    BY <1>0, <1>2 DEF SettleMove, SettleInv, TypeOK, Tree
  <2>3. ~intruded => Journal' = View(archive.db, archive.wal)
    <3>1. SUFFICES ASSUME ~intruded PROVE wal' = None
      BY <2>2, VersionIsFile DEF Journal
    <3>2. wal = None
      BY <2>1, <3>1 DEF RInv, RestoreInv
    <3> QED
      BY <1>0, <1>2, <3>2 DEF SettleMove
  <2> QED
    BY <2>1, <2>2, <2>3 DEF RInv, ForceInv, LiveInv, RestoreInv, BeforeRemove, Whole
<1>3. spc \in {"clear", "move"}
  BY SettleInside
<1> QED
  BY <1>1, <1>2, <1>3 DEF RInv, ForceInv, BeforeRemove

\* Every step keeps this invariant; without --force it keeps ingested data; and
\* only a step that leaves the archive's journal reports success.
LEMMA RestoreStep ==
    ASSUME IInv, RInv, [Next]_vars
    PROVE  /\ RInv'
           /\ spc # "idle" /\ ~force /\ Journal # 0 => Journal' = Journal
           /\ outcome' = "settled" /\ outcome # "settled" /\ ~intruded =>
                 View(db', wal') = View(archive.db, archive.wal)
<1> DEFINE Unsettled == ~(outcome' = "settled" /\ outcome # "settled")
<1>1. CASE \E r \in Readers : ReaderOpen(r) \/ ReaderClose(r) \/ ReaderKilled(r)
  <2>1. Unsettled
    BY <1>1 DEF ReaderOpen, ReaderClose, ReaderKilled, settle
  <2> QED
    BY <1>1, <2>1, ReaderSteps, ReaderRestores
<1>2. CASE Ingest
  <2>1. Unsettled /\ spc' = "idle" /\ spc = "idle" /\ conns' = conns
    BY <1>2 DEF Ingest, IInv, TypeOK, settle
  <2>2. db' # None
    <3>1. Journal \in Version
      BY ViewType DEF IInv, TypeOK, Journal
    <3>2. db' \in {0, Journal + 1} \/ (db' = db /\ db # None)
      BY <1>2 DEF Ingest
    <3> QED
      BY <1>2, <3>1, <3>2, TransferAssumption DEF Ingest, Version
  <2> QED
    BY <2>1, <2>2 DEF RInv, ForceInv, LiveInv, RestoreInv, BeforeRemove
<1>3. CASE Pack \/ PackFail \/ PackKilled \/ RemoveArchive
  <2>1. Journal' = Journal
    BY <1>3, PackSteps
  <2>2. Unsettled
    BY <1>3, PackApart DEF settle
  <2>3. RInv'
    BY <1>3, <2>1, PackApart DEF RInv, ForceInv, LiveInv, RestoreInv, NoReader, Whole, settle,
      home, BeforeRemove
  <2> QED
    BY <2>1, <2>2, <2>3
<1>4. CASE \/ \E f \in BOOLEAN : SettleBegin(f)
           \/ SettleInspect \/ SettleStage \/ SettleExtract \/ SettleValidate
           \/ SettleCleared \/ SettleRemoveStaging \/ SettleStatus
           \/ SettleFail \/ SettleKilled
  <2>1. Journal' = Journal /\ RInv'
    BY <1>4, SettleOutside, OutsideRestores
  <2>2. outcome' = "settled" /\ outcome # "settled" => spc = "status"
    BY <1>4, OutsideRestores
  <2> QED
    BY <2>1, <2>2 DEF RInv, RestoreInv, Journal
<1>5. CASE (\E n \in {"db", "wal"} : SettleClear(n)) \/ SettleMove
  BY <1>5, InsideRestores
<1>6. CASE UNCHANGED vars
  <2>1. Journal' = Journal /\ Unsettled
    BY <1>6 DEF vars, home, settle, Journal
  <2> QED
    BY <1>6, <2>1 DEF RInv, ForceInv, LiveInv, RestoreInv, NoReader, Whole, vars, home, settle
<1> QED
  BY <1>1, <1>2, <1>3, <1>4, <1>5, <1>6 DEF Next, SettleStep

LEMMA RestoreHolds == Spec => []RInv
<1>1. IInv /\ RInv /\ [Next]_vars => RInv'
  BY RestoreStep
<1> QED
  BY <1>1, InitRestore, InvariantHolds, PTL DEF Spec

\* A settle without --force changes nothing of a journal that has ingested data,
\* whoever opens the database while it is at work.
THEOREM ForceIsNeeded == Spec => ForcedOnly
<1>1. IInv /\ RInv /\ [Next]_vars =>
        [spc # "idle" /\ ~force /\ Journal # 0 => Journal' = Journal]_vars
  BY RestoreStep
<1> QED
  BY <1>1, InvariantHolds, RestoreHolds, PTL DEF Spec, ForcedOnly

\* A settle that reports success leaves the archive's journal, unless the
\* database was opened while it was being replaced.
THEOREM SuccessIsTheArchive == Spec => SettledIsTheArchive
<1>1. IInv /\ RInv /\ [Next]_vars =>
        [outcome' = "settled" /\ outcome # "settled" /\ ~intruded =>
            View(db', wal') = View(archive.db, archive.wal)]_vars
  BY RestoreStep
<1> QED
  BY <1>1, InvariantHolds, RestoreHolds, PTL DEF Spec, SettledIsTheArchive
==============================================================================
