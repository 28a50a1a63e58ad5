---------------------------- MODULE UpgradeProofs ----------------------------
(***************************************************************************)
(* Proofs about commands that update themselves and open the journal, for  *)
(* any number of commands, updates and releases, whatever schema each      *)
(* release has, and for any interval and age of a stale lock.              *)
(*                                                                         *)
(* What the journal's version names rests on what a program read before    *)
(* its transaction: it is never ahead of the journal, unless an older      *)
(* program committed over a newer one.  That the checks are spaced rests   *)
(* on the lock: until one is taken over or an update goes without it, the  *)
(* commands between creating the lock and handing it to a child, and the   *)
(* children that have it, are at most one process.                         *)
(***************************************************************************)
EXTENDS Upgrade, TLAPS

Places == {"idle", "create", "inspect", "remove", "recreate", "write", "decide",
           "stamp", "spawn", "open", "migrate"}
Stages == {"none", "version", "download", "rename", "unlock"}

UpdaterType ==
    [at : Stages, auto : BOOLEAN, current : 0 .. MaxVersion, candidate : 0 .. MaxVersion]

\* The programs and their releases.
ProgramType ==
    /\ setting \in {"on", "opted out", "configured off"}
    /\ released \in 1 .. MaxVersion /\ installed \in 1 .. MaxVersion
    /\ pc \in [Commands -> Places]
    /\ program \in [Commands -> 0 .. MaxVersion]
    /\ \A p \in Commands : pc[p] # "idle" => program[p] \in 1 .. MaxVersion
    /\ updater \in [Updaters -> UpdaterType]
    /\ \A u \in Updaters :
          updater[u].at = "rename" => updater[u].candidate \in 1 .. MaxVersion

\* The files of the self-update.
FileType ==
    /\ stamp \in Nat \cup {None}
    /\ lock \in Nat \cup {None, Empty}
    /\ writer \in Commands \cup {NoCommand}
    /\ faults \in 0 .. MaxFaults
    /\ bypassed \in BOOLEAN

\* The journal's schema.
SchemaType ==
    /\ db \in [version : 0 .. Latest, applied : SUBSET (1 .. Latest), shifts : 0 .. 1]
    /\ seen \in [Openers -> 0 .. Latest]
    /\ outdone \in BOOLEAN /\ alone \in BOOLEAN

TypeInv == ProgramType /\ FileType /\ SchemaType

\* What a process has read is not ahead of the journal.
NotAhead == ~outdone => \A p \in Openers : seen[p] <= db.version

SchemaInv == SchemaType /\ VersionIsHonest /\ FailureIsExcused /\ NotAhead

\* The command that created the lock, until it drops it or hands it over.
Holds(p) == pc[p] \in {"write", "decide", "stamp", "spawn"}

\* The child that removes the lock when it ends.
Runs(u) == updater[u].at # "none" /\ updater[u].auto

LockKept ==
    /\ \A p \in Commands : Holds(p) => lock # None
    /\ \A u \in Updaters : Runs(u) => lock # None

OneHolder ==
    /\ \A p, q \in Commands : Holds(p) /\ Holds(q) => p = q
    /\ \A p \in Commands, u \in Updaters : ~ (Holds(p) /\ Runs(u))
    /\ \A u, v \in Updaters : Runs(u) /\ Runs(v) => u = v

DueAtStamp == \A p \in Commands : pc[p] = "stamp" => Due

LockInv == ~bypassed => LockKept /\ OneHolder /\ DueAtStamp

------------------------------------------------------------------------------
(* The types. *)

\* A process goes from one place to another.
LEMMA GoKeepsType ==
    ASSUME NEW p \in Commands, NEW here \in Places, NEW there \in Places,
           pc \in [Commands -> Places], Go(p, here, there)
    PROVE  /\ pc' \in [Commands -> Places]
           /\ pc[p] = here /\ pc'[p] = there
           /\ \A q \in Commands : q # p => pc'[q] = pc[q]
BY DEF Go

\* A running command has a program, so it keeps one on its way.
LEMMA GoKeepsProgram ==
    ASSUME NEW p \in Commands, NEW here \in Places \ {"idle"}, NEW there \in Places,
           ProgramType, Go(p, here, there), UNCHANGED program
    PROVE  /\ pc' \in [Commands -> Places]
           /\ \A q \in Commands : pc'[q] # "idle" => program'[q] \in 1 .. MaxVersion
<1>1. /\ pc' \in [Commands -> Places] /\ pc[p] = here
      /\ \A q \in Commands : q # p => pc'[q] = pc[q]
  BY GoKeepsType DEF ProgramType
<1>2. here # "idle" OBVIOUS
<1> QED BY <1>1, <1>2 DEF ProgramType

LEMMA NoUpdaterType == NoUpdater \in UpdaterType /\ NoUpdater.at = "none"
BY ReleaseAssumption DEF NoUpdater, UpdaterType, Stages

LEMMA EndingType ==
    ASSUME ProgramType, NEW u \in Updaters
    PROVE  /\ Ending(u) \in UpdaterType /\ Ending(u).at = "unlock"
           /\ Ending(u).auto = updater[u].auto
<1>1. updater[u].auto \in BOOLEAN BY DEF ProgramType, UpdaterType
<1> QED BY <1>1, NoUpdaterType DEF Ending, UpdaterType, Stages

\* What is released is what can be installed.
LEMMA Releases ==
    ASSUME ProgramType
    PROVE  /\ 1 .. MaxVersion \subseteq 0 .. MaxVersion
           /\ 0 \in 0 .. MaxVersion
           /\ installed \in 1 .. MaxVersion
           /\ \A u \in Updaters : Requested(u) \subseteq 1 .. MaxVersion
<1>1. MaxVersion \in Nat BY ReleaseAssumption
<1>2. released \in 1 .. MaxVersion /\ installed \in 1 .. MaxVersion BY DEF ProgramType
<1>3. 1 .. released \subseteq 1 .. MaxVersion BY <1>1, <1>2
<1>4. 1 .. MaxVersion \subseteq 0 .. MaxVersion /\ 0 \in 0 .. MaxVersion BY <1>1
<1> QED BY <1>2, <1>3, <1>4 DEF Requested

LEMMA InitProgram == Init => ProgramType
<1> SUFFICES ASSUME Init PROVE ProgramType OBVIOUS
<1>1. 0 \in 0 .. MaxVersion /\ 1 \in 1 .. MaxVersion BY ReleaseAssumption
<1>2. /\ updater \in [Updaters -> UpdaterType]
      /\ \A u \in Updaters : updater[u].at = "none"
  BY NoUpdaterType DEF Init, UpdateInit
<1>3. /\ pc \in [Commands -> Places] /\ \A p \in Commands : pc[p] = "idle"
      /\ program \in [Commands -> 0 .. MaxVersion]
  BY <1>1 DEF Init, UpdateInit, Places
<1>4. /\ setting \in {"on", "opted out", "configured off"}
      /\ released \in 1 .. MaxVersion /\ installed \in 1 .. MaxVersion
  BY <1>1 DEF Init, UpdateInit
<1> QED BY <1>2, <1>3, <1>4 DEF ProgramType

\* A command's look for an update.
LEMMA PrologueKeepsProgram ==
    ASSUME ProgramType, NEW p \in Commands, CommandStep(p)
    PROVE  ProgramType'
<1>1. CASE Start(p)
  <2> DEFINE there == IF setting # "opted out" /\ Due THEN "create" ELSE "open"
  <2>1. there \in Places /\ "idle" \in Places BY DEF Places
  <2>2. Go(p, "idle", there) /\ program' = [program EXCEPT ![p] = installed]
    BY <1>1 DEF Start
  <2> HIDE DEF there
  <2>3. /\ pc' \in [Commands -> Places]
        /\ \A q \in Commands : q # p => pc'[q] = pc[q]
    BY <2>1, <2>2, GoKeepsType DEF ProgramType
  <2>4. /\ program' \in [Commands -> 0 .. MaxVersion]
        /\ \A q \in Commands : pc'[q] # "idle" => program'[q] \in 1 .. MaxVersion
    <3>1. /\ program \in [Commands -> 0 .. MaxVersion] /\ installed \in 1 .. MaxVersion
          /\ \A q \in Commands : pc[q] # "idle" => program[q] \in 1 .. MaxVersion
      BY DEF ProgramType
    <3>2. installed \in 0 .. MaxVersion BY <3>1, Releases
    <3> QED BY <2>2, <2>3, <3>1, <3>2
  <2> QED BY <1>1, <2>3, <2>4 DEF Start, ProgramType, worldVars, fileVars
<1>2. CASE \/ CreateLock(p) \/ InspectLock(p) \/ RemoveLock(p) \/ WriteLock(p)
           \/ Decide(p) \/ WriteStamp(p)
  <2>1. PICK here \in Places \ {"idle"}, there \in Places : Go(p, here, there) \/ UNCHANGED pc
    <3>1. CASE CreateLock(p)
      <4>1. pc[p] \in Places BY DEF ProgramType
      <4>2. \/ pc' = [pc EXCEPT ![p] = "write"] /\ pc[p] \in {"create", "recreate"}
            \/ Go(p, "create", "inspect") \/ Go(p, "recreate", "open")
        BY <3>1 DEF CreateLock
      <4> QED BY <4>1, <4>2 DEF Go, Places
    <3>2. CASE InspectLock(p) BY <3>2 DEF InspectLock, Places
    <3>3. CASE RemoveLock(p) BY <3>3 DEF RemoveLock, Places
    <3>4. CASE WriteLock(p) BY <3>4 DEF WriteLock, Places
    <3>5. CASE Decide(p) BY <3>5 DEF Decide, Places
    <3>6. CASE WriteStamp(p) BY <3>6 DEF WriteStamp, Places
    <3> QED BY <1>2, <3>1, <3>2, <3>3, <3>4, <3>5, <3>6
  <2>2. UNCHANGED <<setting, released, installed, program, updater>>
    BY <1>2 DEF CreateLock, InspectLock, RemoveLock, WriteLock, Decide, WriteStamp,
                worldVars, fileVars
  <2>3. CASE UNCHANGED pc BY <2>2, <2>3 DEF ProgramType
  <2>4. CASE Go(p, here, there)
    <3>1. /\ pc' \in [Commands -> Places]
          /\ \A q \in Commands : pc'[q] # "idle" => program'[q] \in 1 .. MaxVersion
      BY <2>2, <2>4, GoKeepsProgram
    <3> QED BY <2>2, <3>1 DEF ProgramType
  <2> QED BY <2>1, <2>3, <2>4
<1>3. CASE Spawn(p)
  <2>1. Go(p, "spawn", "open") /\ UNCHANGED <<setting, released, installed, program>>
    BY <1>3 DEF Spawn, worldVars
  <2>2. "spawn" \in Places \ {"idle"} /\ "open" \in Places BY DEF Places
  <2>3. /\ pc' \in [Commands -> Places]
        /\ \A q \in Commands : pc'[q] # "idle" => program'[q] \in 1 .. MaxVersion
    BY <2>1, <2>2, GoKeepsProgram
  <2> DEFINE born == [NoUpdater EXCEPT !.at = "version", !.auto = TRUE]
  <2>4. born \in UpdaterType /\ born.at = "version"
    BY NoUpdaterType DEF UpdaterType, Stages
  <2>5. UNCHANGED updater \/ \E u \in Updaters : updater' = [updater EXCEPT ![u] = born]
    BY <1>3 DEF Spawn
  <2> HIDE DEF born
  <2>6. /\ updater' \in [Updaters -> UpdaterType]
        /\ \A v \in Updaters :
              updater'[v].at = "rename" => updater'[v].candidate \in 1 .. MaxVersion
    BY <2>4, <2>5 DEF ProgramType
  <2> QED BY <2>1, <2>3, <2>6 DEF ProgramType
<1> QED BY <1>1, <1>2, <1>3 DEF CommandStep

\* A command that opens the journal ends, or is about to migrate it.
LEMMA OpeningKeepsProgram ==
    ASSUME ProgramType, NEW p \in Commands, Open(p) \/ RunMigrations(p)
    PROVE  ProgramType'
<1>1. UNCHANGED <<setting, released, installed, updater>>
  BY DEF Open, RunMigrations, worldVars, fileVars
<1>2. \/ pc[p] = "open" /\ pc' = [pc EXCEPT ![p] = "migrate"] /\ UNCHANGED program
      \/ Exit(p)
  BY DEF Open, RunMigrations
<1>3. CASE Exit(p)
  <2>1. "idle" \in Places BY DEF Places
  <2>2. /\ pc' \in [Commands -> Places]
        /\ program' \in [Commands -> 0 .. MaxVersion]
        /\ \A q \in Commands : pc'[q] # "idle" => program'[q] \in 1 .. MaxVersion
    BY <1>3, <2>1, Releases DEF Exit, ProgramType
  <2> QED BY <1>1, <2>2 DEF ProgramType
<1>4. CASE pc[p] = "open" /\ pc' = [pc EXCEPT ![p] = "migrate"] /\ UNCHANGED program
  BY <1>1, <1>4 DEF ProgramType, Places
<1> QED BY <1>2, <1>3, <1>4

\* A step of an update.
LEMMA UpdateKeepsProgram ==
    ASSUME ProgramType, NEW u \in Updaters,
           UpdaterStep(u) \/ ManualUpdate(u) \/ UpdateFails(u) \/ UpdaterKilled(u)
    PROVE  ProgramType'
<1>1. UNCHANGED <<setting, released, pc, program>>
  BY DEF UpdaterStep, ReadInstalled, Download, Replace, Unlock, ManualUpdate, UpdateFails,
         UpdaterKilled, worldVars, fileVars
<1>2. updater[u] \in UpdaterType BY DEF ProgramType
<1>3. installed' \in 1 .. MaxVersion
  BY DEF UpdaterStep, ReadInstalled, Download, Replace, Unlock, ManualUpdate, UpdateFails,
         UpdaterKilled, worldVars, fileVars, ProgramType, At
<1>4. PICK new \in UpdaterType :
         /\ updater' = [updater EXCEPT ![u] = new]
         /\ new.at = "rename" => new.candidate \in 1 .. MaxVersion
  <2>1. CASE ReadInstalled(u)
    <3> DEFINE new == [updater[u] EXCEPT !.at = "download", !.current = installed]
    <3>1. installed \in 0 .. MaxVersion BY Releases
    <3>2. new \in UpdaterType /\ new.at = "download" BY <1>2, <3>1 DEF UpdaterType, Stages
    <3>3. updater' = [updater EXCEPT ![u] = new] BY <2>1 DEF ReadInstalled, At
    <3> HIDE DEF new
    <3> QED BY <3>2, <3>3
  <2>2. CASE Download(u)
    <3>1. PICK v \in Requested(u) :
             At(u, "download", IF v = updater[u].current THEN Ending(u)
                               ELSE [updater[u] EXCEPT !.candidate = v, !.at = "rename"])
      BY <2>2 DEF Download
    <3>2. v \in 1 .. MaxVersion /\ v \in 0 .. MaxVersion BY Releases
    <3>3. CASE v = updater[u].current BY <3>1, <3>3, EndingType DEF At
    <3>4. CASE v # updater[u].current
      <4> DEFINE staged == [updater[u] EXCEPT !.candidate = v, !.at = "rename"]
      <4>1. staged \in UpdaterType /\ staged.candidate = v
        BY <1>2, <3>2 DEF UpdaterType, Stages
      <4>2. updater' = [updater EXCEPT ![u] = staged] BY <3>1, <3>4 DEF At
      <4> HIDE DEF staged
      <4> QED BY <3>2, <4>1, <4>2
    <3> QED BY <3>3, <3>4
  <2>3. CASE Replace(u) BY <2>3, EndingType DEF Replace, At
  <2>4. CASE Unlock(u) BY <2>4, NoUpdaterType DEF Unlock, At
  <2>5. CASE ManualUpdate(u)
    <3> DEFINE new == [NoUpdater EXCEPT !.at = "version"]
    <3>1. new \in UpdaterType /\ new.at = "version"
      BY NoUpdaterType DEF UpdaterType, Stages
    <3>2. updater' = [updater EXCEPT ![u] = new] BY <2>5 DEF ManualUpdate, At
    <3> HIDE DEF new
    <3> QED BY <3>1, <3>2
  <2>6. CASE UpdateFails(u) BY <2>6, EndingType DEF UpdateFails
  <2>7. CASE UpdaterKilled(u) BY <2>7, NoUpdaterType DEF UpdaterKilled
  <2> QED BY <2>1, <2>2, <2>3, <2>4, <2>5, <2>6, <2>7 DEF UpdaterStep
<1>5. /\ updater' \in [Updaters -> UpdaterType]
      /\ \A v \in Updaters :
            updater'[v].at = "rename" => updater'[v].candidate \in 1 .. MaxVersion
  BY <1>4 DEF ProgramType
<1> QED BY <1>1, <1>3, <1>5 DEF ProgramType

LEMMA StepKeepsProgram ==
    ASSUME ProgramType, Next
    PROVE  ProgramType'
<1>1. ASSUME NEW p \in Commands, Command(p) PROVE ProgramType'
  BY <1>1, PrologueKeepsProgram, OpeningKeepsProgram DEF Command, Prologue
<1>2. ASSUME NEW u \in Updaters, Update(u) PROVE ProgramType'
  BY <1>2, UpdateKeepsProgram DEF Update
<1>3. CASE TimePasses BY <1>3 DEF TimePasses, Tick, worldVars, ProgramType
<1>4. CASE Environment
  <2>1. ASSUME NEW p \in Commands, WriteLockFails(p) PROVE ProgramType'
    <3>1. "write" \in Places \ {"idle"} /\ "open" \in Places BY DEF Places
    <3>2. /\ pc' \in [Commands -> Places]
          /\ \A q \in Commands : pc'[q] # "idle" => program'[q] \in 1 .. MaxVersion
      BY <2>1, <3>1, GoKeepsProgram DEF WriteLockFails
    <3> QED BY <2>1, <3>2 DEF WriteLockFails, ProgramType, worldVars
  <2>2. ASSUME NEW p \in Commands, CommandKilled(p) PROVE ProgramType'
    <3>1. "idle" \in Places BY DEF Places
    <3>2. /\ pc' \in [Commands -> Places]
          /\ program' \in [Commands -> 0 .. MaxVersion]
          /\ \A q \in Commands : pc'[q] # "idle" => program'[q] \in 1 .. MaxVersion
      BY <2>2, <3>1, Releases DEF CommandKilled, ProgramType
    <3> QED BY <2>2, <3>2 DEF CommandKilled, ProgramType, worldVars, fileVars
  <2>3. ASSUME NEW u \in Updaters, ManualUpdate(u) \/ UpdateFails(u) \/ UpdaterKilled(u)
        PROVE  ProgramType'
    BY <2>3, UpdateKeepsProgram
  <2>4. CASE Release
    <3>1. released \in 1 .. MaxVersion BY DEF ProgramType
    <3>2. released' \in 1 .. MaxVersion BY <2>4, <3>1, ReleaseAssumption DEF Release
    <3> QED BY <2>4, <3>2 DEF Release, ProgramType, fileVars
  <2> QED BY <1>4, <2>1, <2>2, <2>3, <2>4 DEF Environment
<1> QED BY <1>1, <1>2, <1>3, <1>4 DEF Next

LEMMA OlderIsAnAge ==
    ASSUME NEW age \in Nat \cup {None, Empty}, NEW limit \in Nat
    PROVE  /\ Older(age, limit) \in Nat \cup {age}
           /\ age \notin Nat => Older(age, limit) = age
           /\ age \in Nat => Older(age, limit) \in Nat
           /\ age >= limit => Older(age, limit) = age
BY DEF Older, None, Empty

LEMMA InitFiles == Init => FileType
<1>1. 0 \in 0 .. MaxFaults BY ReleaseAssumption
<1> QED BY <1>1 DEF Init, UpdateInit, FileType

LEMMA StepKeepsFiles ==
    ASSUME FileType, Next
    PROVE  FileType'
<1>1. ASSUME NEW p \in Commands, Command(p) PROVE FileType'
  <2>1. CASE Start(p) BY <2>1 DEF Start, FileType, fileVars, lockVars
  <2>2. CASE CreateLock(p) BY <2>2 DEF CreateLock, FileType, fileVars, lockVars
  <2>3. CASE InspectLock(p) BY <2>3 DEF InspectLock, FileType, fileVars, lockVars
  <2>4. CASE RemoveLock(p) BY <2>4 DEF RemoveLock, Unlink, FileType
  <2>5. CASE WriteLock(p) BY <2>5 DEF WriteLock, FileType, lockVars
  <2>6. CASE Decide(p) BY <2>6 DEF Decide, Unlink, FileType, lockVars
  <2>7. CASE WriteStamp(p) BY <2>7 DEF WriteStamp, FileType, lockVars
  <2>8. CASE Spawn(p) BY <2>8 DEF Spawn, Unlink, FileType, lockVars
  <2>9. CASE Open(p) BY <2>9 DEF Open, FileType, fileVars, lockVars
  <2>10. CASE RunMigrations(p) BY <2>10 DEF RunMigrations, FileType, fileVars, lockVars
  <2> QED BY <1>1, <2>1, <2>2, <2>3, <2>4, <2>5, <2>6, <2>7, <2>8, <2>9, <2>10
          DEF Command, Prologue, CommandStep
<1>2. ASSUME NEW u \in Updaters, Update(u) PROVE FileType'
  <2>1. CASE ReadInstalled(u) BY <2>1 DEF ReadInstalled, FileType, fileVars, lockVars
  <2>2. CASE Download(u) BY <2>2 DEF Download, FileType, fileVars, lockVars
  <2>3. CASE Replace(u) BY <2>3 DEF Replace, FileType, lockVars
  <2>4. CASE Unlock(u) BY <2>4 DEF Unlock, Unlink, FileType, lockVars
  <2> QED BY <1>2, <2>1, <2>2, <2>3, <2>4 DEF Update, UpdaterStep
<1>3. CASE TimePasses
  <2>1. stamp' \in Nat \cup {None} /\ lock' \in Nat \cup {None, Empty}
    BY <1>3, OlderIsAnAge, TimeAssumption DEF TimePasses, Tick, FileType
  <2> QED BY <1>3, <2>1 DEF TimePasses, Tick, FileType
<1>4. CASE Environment
  <2> DEFINE Fault == faults < MaxFaults /\ faults' = faults + 1
  <2>f. Fault => faults' \in 0 .. MaxFaults BY ReleaseAssumption DEF FileType
  <2>1. ASSUME NEW p \in Commands, WriteLockFails(p) \/ CommandKilled(p) PROVE FileType'
    <3>1. Fault BY <2>1 DEF WriteLockFails, CommandKilled
    <3> HIDE DEF Fault
    <3> QED BY <2>1, <2>f, <3>1
            DEF WriteLockFails, CommandKilled, Unlink, FileType, fileVars, lockVars
  <2>2. ASSUME NEW u \in Updaters, ManualUpdate(u) \/ UpdateFails(u) \/ UpdaterKilled(u)
        PROVE  FileType'
    <3>1. Fault BY <2>2 DEF ManualUpdate, UpdateFails, UpdaterKilled
    <3> HIDE DEF Fault
    <3> QED BY <2>2, <2>f, <3>1
            DEF ManualUpdate, UpdateFails, UpdaterKilled, FileType, fileVars, lockVars
  <2>3. CASE Release BY <2>3 DEF Release, FileType, fileVars, lockVars
  <2> QED BY <1>4, <2>1, <2>2, <2>3 DEF Environment
<1> QED BY <1>1, <1>2, <1>3, <1>4 DEF Next

------------------------------------------------------------------------------
(* The schema. *)

LEMMA SchemaIsKnown ==
    ASSUME ProgramType, NEW p \in Commands, pc[p] # "idle"
    PROVE  SchemaFor(p) \in 1 .. Latest
BY UpgradeAssumption DEF ProgramType, SchemaFor

\* Neither the tables nor what was read of them is touched by other steps.
LEMMA OnlyOpeningReads ==
    ASSUME Next
    PROVE  \/ UNCHANGED migrationVars
           \/ \E p \in Commands : Open(p) \/ RunMigrations(p)
BY DEF Next, Command, Update, TimePasses, Environment

LEMMA InitSchema == Init => SchemaInv
<1> SUFFICES ASSUME Init PROVE SchemaInv OBVIOUS
<1>1. PICK v \in FirstSchemas :
         db = [version |-> v, applied |-> 1 .. v, shifts |-> IF v >= 2 THEN 1 ELSE 0]
  BY DEF Init, MigrationInit
<1>2. v \in 0 .. Latest BY SchemaAssumption
<1>3. 1 .. v \in SUBSET (1 .. Latest) BY <1>2 DEF Latest
<1>4. /\ db.version = v /\ db.applied = 1 .. v
      /\ db.shifts = IF v >= 2 THEN 1 ELSE 0
  BY <1>1
<1>5. /\ db.shifts \in 0 .. 1
      /\ db.shifts = IF 2 \in 1 .. v THEN 1 ELSE 0
  BY <1>2, <1>4 DEF Latest
<1>6. db \in [version : 0 .. Latest, applied : SUBSET (1 .. Latest), shifts : 0 .. 1]
  BY <1>1, <1>2, <1>3, <1>4, <1>5
<1>7. 0 \in 0 .. Latest /\ 0 <= v BY <1>2 DEF Latest
<1>8. seen = [p \in Openers |-> 0] /\ outdone = FALSE /\ alone = FALSE
  BY DEF Init, MigrationInit
<1> QED BY <1>4, <1>5, <1>6, <1>7, <1>8
        DEF SchemaInv, SchemaType, VersionIsHonest, FailureIsExcused, NotAhead

\* What a program lacks begins where the journal it read ended.
LEMMA PendingFillsUp ==
    ASSUME NEW now \in 0 .. Latest, NEW read \in 0 .. Latest, NEW latest \in 0 .. Latest,
           read <= now, now <= latest
    PROVE  (1 .. now) \cup Pending(read, latest) = 1 .. latest
BY DEF Pending, Latest

LEMMA OpenKeepsSchema ==
    ASSUME ProgramType, SchemaInv, NEW p \in Commands, Open(p)
    PROVE  SchemaInv'
<1>1. p \in Openers /\ SchemaFor(p) \in 1 .. Latest
  BY UpgradeAssumption, SchemaIsKnown DEF Open
<1>2. db.version \in 0 .. Latest /\ seen \in [Openers -> 0 .. Latest]
  BY DEF SchemaInv, SchemaType
<1>3. /\ UNCHANGED <<db, outdone, alone>>
      /\ seen' = [seen EXCEPT ![p] = IF db.version < SchemaFor(p) THEN db.version ELSE 0]
  BY DEF Open, ReadVersion
<1>4. 0 \in 0 .. Latest /\ 0 <= db.version BY <1>2 DEF Latest
<1>5. /\ seen' \in [Openers -> 0 .. Latest]
      /\ seen'[p] <= db.version
      /\ \A q \in Openers : q # p => seen'[q] = seen[q]
  BY <1>1, <1>2, <1>3, <1>4 DEF Latest
<1>6. SchemaType' BY <1>3, <1>5 DEF SchemaInv, SchemaType
<1>7. NotAhead' BY <1>3, <1>5 DEF SchemaInv, NotAhead
<1>8. VersionIsHonest' /\ FailureIsExcused'
  BY <1>3 DEF SchemaInv, VersionIsHonest, FailureIsExcused
<1> QED BY <1>6, <1>7, <1>8 DEF SchemaInv

LEMMA MigrateKeepsSchema ==
    ASSUME ProgramType, SchemaInv, NEW p \in Commands, RunMigrations(p)
    PROVE  SchemaInv'
<1> DEFINE latest == SchemaFor(p)
           batch == Pending(seen[p], latest)
<1>1. p \in Openers /\ latest \in 1 .. Latest
  BY UpgradeAssumption, SchemaIsKnown DEF RunMigrations
<1>2. /\ db.version \in 0 .. Latest /\ db.applied \in SUBSET (1 .. Latest)
      /\ db.shifts \in 0 .. 1
      /\ db.shifts = IF 2 \in db.applied THEN 1 ELSE 0
      /\ ~outdone => db.applied = 1 .. db.version
      /\ seen \in [Openers -> 0 .. Latest] /\ seen[p] \in 0 .. Latest
      /\ outdone \in BOOLEAN /\ alone = FALSE
      /\ ~outdone => \A q \in Openers : seen[q] <= db.version
  BY <1>1 DEF SchemaInv, SchemaType, VersionIsHonest, FailureIsExcused, NotAhead
<1>3. seen' = [seen EXCEPT ![p] = 0] BY DEF RunMigrations, Migrate
<1>4. /\ seen' \in [Openers -> 0 .. Latest] /\ seen'[p] = 0
      /\ \A q \in Openers : q # p => seen'[q] = seen[q]
  BY <1>1, <1>2, <1>3 DEF Latest
<1>5. batch \in SUBSET (1 .. Latest) BY <1>1, <1>2 DEF Pending, Latest
<1>6. CASE \E m \in batch : Clashes(m)
  <2>1. /\ db' = db /\ UNCHANGED outdone
        /\ alone' = (alone \/ (db.version = seen[p] /\ ~outdone))
    BY <1>6 DEF RunMigrations, Migrate, RolledBack
  <2>2. ~ (db.version = seen[p] /\ ~outdone)
    <3>1. SUFFICES ASSUME db.version = seen[p], ~outdone PROVE FALSE OBVIOUS
    <3>2. PICK m \in batch : m \in db.applied BY <1>6 DEF Clashes
    <3>3. m \in 1 .. db.version BY <1>2, <3>1, <3>2
    <3>4. m \in db.version + 1 .. latest BY <3>1, <3>2 DEF Pending
    <3> HIDE DEF latest, batch
    <3> QED BY <1>2, <3>3, <3>4
  <2>3. alone' = FALSE BY <1>2, <2>1, <2>2
  <2>4. SchemaType' BY <1>4, <2>1, <2>3 DEF SchemaInv, SchemaType
  <2>5. NotAhead'
    <3>1. 0 <= db.version BY <1>2 DEF Latest
    <3> QED BY <1>2, <1>4, <2>1, <3>1 DEF NotAhead
  <2>6. VersionIsHonest' /\ FailureIsExcused'
    BY <2>1, <2>3 DEF SchemaInv, VersionIsHonest, FailureIsExcused
  <2> QED BY <2>4, <2>5, <2>6 DEF SchemaInv
<1>7. CASE ~ \E m \in batch : Clashes(m)
  <2>1. /\ db' = Migrated(batch, latest)
        /\ outdone' = (outdone \/ db.version > latest) /\ UNCHANGED alone
    BY <1>7 DEF RunMigrations, Migrate
  <2> HIDE DEF latest, batch
  <2>2. /\ db' = [version |-> latest, applied |-> db.applied \cup batch,
                  shifts |-> db.shifts + (IF 2 \in batch THEN 1 ELSE 0)]
        /\ db'.version = latest /\ db'.applied = db.applied \cup batch
        /\ db'.shifts = db.shifts + (IF 2 \in batch THEN 1 ELSE 0)
    BY <2>1 DEF Migrated
  <2>3. ~ (2 \in batch /\ 2 \in db.applied) BY <1>7 DEF Clashes, Repeatable
  <2>4. /\ db'.shifts \in 0 .. 1
        /\ db'.shifts = IF 2 \in db'.applied THEN 1 ELSE 0
    BY <1>2, <2>2, <2>3
  <2>5. latest \in 0 .. Latest /\ db.applied \cup batch \in SUBSET (1 .. Latest)
    <3>1. latest \in 0 .. Latest BY <1>1 DEF Latest
    <3>2. db.applied \in SUBSET (1 .. Latest) BY <1>2
    <3> QED BY <1>5, <3>1, <3>2
  <2>6. outdone' \in BOOLEAN /\ alone' = FALSE BY <1>2, <2>1
  <2>7. SchemaType'
    <3>1. db' \in [version : 0 .. Latest, applied : SUBSET (1 .. Latest), shifts : 0 .. 1]
      BY <2>2, <2>4, <2>5
    <3> QED BY <1>4, <2>6, <3>1 DEF SchemaType
  <2>8. ASSUME ~outdone'
        PROVE  /\ db'.applied = 1 .. db'.version
               /\ \A q \in Openers : seen'[q] <= db'.version
    <3>1. ~outdone /\ ~ (db.version > latest) BY <2>1, <2>8
    <3>2. db.version <= latest BY <1>2, <2>5, <3>1 DEF Latest
    <3>3. db.applied = 1 .. db.version /\ \A q \in Openers : seen[q] <= db.version
      BY <1>2, <3>1
    <3>4. (1 .. db.version) \cup batch = 1 .. latest
      BY <1>1, <1>2, <2>5, <3>2, <3>3, PendingFillsUp DEF batch
    <3>5. ASSUME NEW q \in Openers PROVE seen'[q] <= latest
      <4>1. CASE q = p BY <1>1, <1>4, <4>1 DEF Latest
      <4>2. CASE q # p
        <5>1. seen'[q] = seen[q] /\ seen[q] \in 0 .. Latest /\ seen[q] <= db.version
          BY <1>2, <1>4, <3>3, <4>2
        <5> QED BY <1>2, <2>5, <3>2, <5>1 DEF Latest
      <4> QED BY <4>1, <4>2
    <3> QED BY <2>2, <3>3, <3>4, <3>5
  <2> QED BY <2>4, <2>6, <2>7, <2>8 DEF SchemaInv, VersionIsHonest, FailureIsExcused, NotAhead
<1> QED BY <1>6, <1>7

LEMMA StepKeepsSchema ==
    ASSUME ProgramType, SchemaInv, [Next]_vars
    PROVE  SchemaInv'
<1>1. CASE UNCHANGED migrationVars
  BY <1>1 DEF migrationVars, SchemaInv, SchemaType, VersionIsHonest, FailureIsExcused, NotAhead
<1>2. CASE \E p \in Commands : Open(p) \/ RunMigrations(p)
  BY <1>2, OpenKeepsSchema, MigrateKeepsSchema
<1> QED BY <1>1, <1>2, OnlyOpeningReads DEF vars

------------------------------------------------------------------------------
(* The lock of the self-update. *)

LEMMA InitLock == Init => LockInv
<1> SUFFICES ASSUME Init PROVE LockInv OBVIOUS
<1>1. \A p \in Commands : pc[p] = "idle" BY DEF Init, UpdateInit
<1>2. \A u \in Updaters : updater[u].at = "none" BY DEF Init, UpdateInit, NoUpdater
<1> QED BY <1>1, <1>2 DEF LockInv, LockKept, OneHolder, DueAtStamp, Holds, Runs

\* A stamp that is due stays due until one is written.
LEMMA DueStays ==
    ASSUME FileType, Tick
    PROVE  /\ Due => Due'
           /\ lock # None => lock' # None
<1>1. stamp' = Older(stamp, Interval) /\ lock' = Older(lock, Stale) BY DEF Tick
<1>2. stamp \in Nat \cup {None} /\ lock \in Nat \cup {None, Empty} BY DEF FileType
<1>3. Interval \in Nat /\ Stale \in Nat BY TimeAssumption
<1> QED BY <1>1, <1>2, <1>3 DEF Older, Due, None, Empty

\* Nobody comes to hold the lock, and who held it finds it as it was.
LEMMA FewerHolders ==
    ASSUME LockInv, bypassed' = bypassed, lock # None => lock' # None, Due => Due',
           \A p \in Commands : Holds(p)' => Holds(p),
           \A u \in Updaters : Runs(u)' => Runs(u),
           \A p \in Commands : pc'[p] = "stamp" => pc[p] = "stamp"
    PROVE  LockInv'
<1> SUFFICES ASSUME ~bypassed PROVE (LockKept /\ OneHolder /\ DueAtStamp)'
  BY DEF LockInv
<1>1. LockKept /\ OneHolder /\ DueAtStamp BY DEF LockInv
<1>2. LockKept' BY <1>1 DEF LockKept
<1>3. OneHolder' BY <1>1 DEF OneHolder
<1>4. DueAtStamp' BY <1>1 DEF DueAtStamp
<1> QED BY <1>2, <1>3, <1>4

\* The holder goes: nobody holds the lock then, whether its path is removed or not.
LEMMA HolderLeaves ==
    ASSUME LockInv, bypassed' = bypassed, UNCHANGED stamp,
           \/ \E p \in Commands :
                 /\ Holds(p) /\ ~Holds(p)'
                 /\ \A q \in Commands : q # p => pc'[q] = pc[q]
                 /\ UNCHANGED updater
           \/ \E u \in Updaters :
                 /\ Runs(u) /\ ~Runs(u)'
                 /\ \A v \in Updaters : v # u => updater'[v] = updater[v]
                 /\ UNCHANGED pc
    PROVE  LockInv'
<1> SUFFICES ASSUME ~bypassed PROVE (LockKept /\ OneHolder /\ DueAtStamp)'
  BY DEF LockInv
<1>1. OneHolder BY DEF LockInv
<1>2. /\ \A p \in Commands : ~Holds(p)'
      /\ \A u \in Updaters : ~Runs(u)'
  BY <1>1 DEF OneHolder, Holds, Runs
<1>3. \A p \in Commands : pc'[p] # "stamp" BY <1>2 DEF Holds
<1> QED BY <1>2, <1>3 DEF LockKept, OneHolder, DueAtStamp

LEMMA CommandKeepsLock ==
    ASSUME ProgramType, LockInv, NEW p \in Commands, Command(p)
    PROVE  LockInv'
<1>1. pc \in [Commands -> Places] /\ pc[p] \in Places BY DEF ProgramType
<1>2. CASE \/ Start(p) \/ InspectLock(p) \/ Open(p) \/ RunMigrations(p)
           \/ CreateLock(p) /\ lock # None
  <2>1. UNCHANGED <<stamp, lock, updater, bypassed>>
    BY <1>2 DEF Start, InspectLock, Open, RunMigrations, CreateLock, fileVars, lockVars
  <2>2. /\ \A q \in Commands : q # p => pc'[q] = pc[q]
        /\ pc'[p] \in {"idle", "create", "inspect", "remove", "recreate", "open", "migrate"}
    BY <1>1, <1>2
       DEF Start, InspectLock, Open, RunMigrations, CreateLock, Exit, Go
  <2>3. \A q \in Commands : Holds(q)' => Holds(q) BY <2>2 DEF Holds
  <2>4. \A q \in Commands : pc'[q] = "stamp" => pc[q] = "stamp" BY <2>2
  <2>5. \A u \in Updaters : Runs(u)' => Runs(u) BY <2>1 DEF Runs
  <2>6. (Due => Due') /\ (lock # None => lock' # None) BY <2>1 DEF Due
  <2> QED BY <2>1, <2>3, <2>4, <2>5, <2>6, FewerHolders
<1>3. CASE CreateLock(p) /\ lock = None
  <2>1. /\ lock' = Empty /\ pc' = [pc EXCEPT ![p] = "write"]
        /\ UNCHANGED <<stamp, updater, bypassed>>
    BY <1>3 DEF CreateLock
  <2> SUFFICES ASSUME ~bypassed PROVE (LockKept /\ OneHolder /\ DueAtStamp)'
    BY <2>1 DEF LockInv
  <2>2. LockKept /\ DueAtStamp BY DEF LockInv
  <2>3. /\ \A q \in Commands : ~Holds(q)
        /\ \A u \in Updaters : ~Runs(u)
    BY <1>3, <2>2 DEF LockKept
  <2>4. \A q \in Commands : q # p => pc'[q] = pc[q] BY <1>1, <2>1
  <2>5. \A q \in Commands : Holds(q)' => q = p BY <2>3, <2>4 DEF Holds
  <2>6. \A u \in Updaters : ~Runs(u)' BY <2>1, <2>3 DEF Runs
  <2>7. LockKept' BY <2>1 DEF LockKept, None, Empty
  <2>8. OneHolder' BY <2>5, <2>6 DEF OneHolder
  <2>9. DueAtStamp'
    <3>1. \A q \in Commands : pc'[q] # "stamp"
      BY <1>1, <2>1, <2>3, <2>4 DEF Holds
    <3> QED BY <3>1 DEF DueAtStamp
  <2> QED BY <2>7, <2>8, <2>9
<1>4. CASE RemoveLock(p) BY <1>4 DEF RemoveLock, LockInv
<1>5. CASE WriteLock(p)
  <2>1. /\ Go(p, "write", "decide") /\ UNCHANGED <<stamp, updater, bypassed>>
        /\ lock' = 0 \/ lock' = lock
    BY <1>5 DEF WriteLock, lockVars
  <2>2. /\ pc[p] = "write" /\ pc'[p] = "decide"
        /\ \A q \in Commands : q # p => pc'[q] = pc[q]
    BY <1>1, <2>1 DEF Go
  <2>3. \A q \in Commands : Holds(q)' => Holds(q) BY <2>2 DEF Holds
  <2>4. \A q \in Commands : pc'[q] = "stamp" => pc[q] = "stamp" BY <2>2
  <2>5. \A u \in Updaters : Runs(u)' => Runs(u) BY <2>1 DEF Runs
  <2>6. (Due => Due') /\ (lock # None => lock' # None) BY <2>1 DEF Due, None
  <2> QED BY <2>1, <2>3, <2>4, <2>5, <2>6, FewerHolders
<1>6. CASE Decide(p)
  <2>1. UNCHANGED <<stamp, updater, bypassed>> BY <1>6 DEF Decide
  <2>2. CASE MayCheck
    <3>1. pc[p] = "decide" /\ pc' = [pc EXCEPT ![p] = "stamp"] /\ UNCHANGED lock
      BY <1>6, <2>2 DEF Decide, Go, lockVars
    <3>2. /\ pc'[p] = "stamp" /\ \A q \in Commands : q # p => pc'[q] = pc[q]
      BY <1>1, <3>1
    <3> SUFFICES ASSUME ~bypassed PROVE (LockKept /\ OneHolder /\ DueAtStamp)'
      BY <2>1 DEF LockInv
    <3>3. LockKept /\ OneHolder /\ DueAtStamp BY DEF LockInv
    <3>4. /\ \A q \in Commands : Holds(q)' <=> Holds(q)
          /\ \A u \in Updaters : Runs(u)' <=> Runs(u)
      BY <2>1, <3>1, <3>2 DEF Holds, Runs
    <3>5. LockKept' BY <3>1, <3>3, <3>4 DEF LockKept
    <3>6. OneHolder' BY <3>3, <3>4 DEF OneHolder
    <3>7. DueAtStamp' BY <2>1, <2>2 DEF DueAtStamp, MayCheck, Due
    <3> QED BY <3>5, <3>6, <3>7
  <2>3. CASE ~MayCheck
    <3>1. Go(p, "decide", "open") BY <1>6, <2>3 DEF Decide
    <3>2. /\ Holds(p) /\ ~Holds(p)' /\ \A q \in Commands : q # p => pc'[q] = pc[q]
      BY <1>1, <3>1 DEF Go, Holds
    <3> QED BY <2>1, <3>2, HolderLeaves
  <2> QED BY <2>2, <2>3
<1>7. CASE WriteStamp(p)
  <2>1. /\ pc[p] = "stamp" /\ pc' = [pc EXCEPT ![p] = "spawn"]
        /\ UNCHANGED <<lock, updater, bypassed>>
    BY <1>7 DEF WriteStamp, Go, lockVars
  <2>2. pc'[p] = "spawn" /\ \A q \in Commands : q # p => pc'[q] = pc[q] BY <1>1, <2>1
  <2> SUFFICES ASSUME ~bypassed PROVE (LockKept /\ OneHolder /\ DueAtStamp)'
    BY <2>1 DEF LockInv
  <2>3. LockKept /\ OneHolder BY DEF LockInv
  <2>4. /\ \A q \in Commands : Holds(q)' <=> Holds(q)
        /\ \A u \in Updaters : Runs(u)' <=> Runs(u)
    BY <2>1, <2>2 DEF Holds, Runs
  <2>5. LockKept' BY <2>1, <2>3, <2>4 DEF LockKept
  <2>6. OneHolder' BY <2>3, <2>4 DEF OneHolder
  <2>7. \A q \in Commands : pc'[q] # "stamp" BY <2>1, <2>2, <2>3 DEF OneHolder, Holds
  <2>8. DueAtStamp' BY <2>7 DEF DueAtStamp
  <2> QED BY <2>5, <2>6, <2>8
<1>8. CASE Spawn(p)
  <2>1. Go(p, "spawn", "open") /\ UNCHANGED <<stamp, bypassed>> BY <1>8 DEF Spawn
  <2>2. /\ Holds(p) /\ ~Holds(p)' /\ \A q \in Commands : q # p => pc'[q] = pc[q]
    BY <1>1, <2>1 DEF Go, Holds
  <2> DEFINE free == {u \in Updaters : updater[u].at = "none"}
  <2>3. CASE free = {}
    <3>1. UNCHANGED updater BY <1>8, <2>3 DEF Spawn
    <3> QED BY <2>1, <2>2, <3>1, HolderLeaves
  <2>4. CASE free # {}
    <3>1. UNCHANGED lock BY <1>8, <2>4 DEF Spawn, KeptForChild, lockVars
    <3>2. PICK u \in Updaters :
             updater' = [updater EXCEPT
                            ![u] = [NoUpdater EXCEPT !.at = "version", !.auto = TRUE]]
      BY <1>8, <2>4 DEF Spawn
    <3>3. \A v \in Updaters : v # u => updater'[v] = updater[v]
      BY <3>2 DEF ProgramType
    <3> SUFFICES ASSUME ~bypassed PROVE (LockKept /\ OneHolder /\ DueAtStamp)'
      BY <2>1 DEF LockInv
    <3>4. LockKept /\ OneHolder BY DEF LockInv
    <3>5. /\ \A q \in Commands : ~Holds(q)'
          /\ \A v \in Updaters : Runs(v)' => v = u
      BY <2>2, <3>3, <3>4 DEF OneHolder, Holds, Runs
    <3>6. LockKept' BY <2>2, <3>1, <3>4 DEF LockKept
    <3>7. OneHolder' BY <3>5 DEF OneHolder
    <3>8. DueAtStamp' BY <3>5 DEF DueAtStamp, Holds
    <3> QED BY <3>6, <3>7, <3>8
  <2> QED BY <2>3, <2>4
<1> QED BY <1>2, <1>3, <1>4, <1>5, <1>6, <1>7, <1>8 DEF Command, Prologue, CommandStep

LEMMA UpdateKeepsLock ==
    ASSUME ProgramType, LockInv, NEW u \in Updaters,
           UpdaterStep(u) \/ UpdateFails(u) \/ UpdaterKilled(u)
    PROVE  LockInv'
<1>1. UNCHANGED <<stamp, pc, bypassed>>
  BY DEF UpdaterStep, ReadInstalled, Download, Replace, Unlock, UpdateFails, UpdaterKilled,
         fileVars, lockVars
<1>2. updater \in [Updaters -> UpdaterType] BY DEF ProgramType
<1>3. \A v \in Updaters : v # u => updater'[v] = updater[v]
  BY <1>2 DEF UpdaterStep, ReadInstalled, Download, Replace, Unlock, UpdateFails,
              UpdaterKilled, At
<1>4. updater[u].at # "none" /\ (updater'[u].auto => updater[u].auto)
  <2>1. CASE ReadInstalled(u) \/ UpdateFails(u) \/ Replace(u)
    BY <1>2, <2>1, EndingType DEF ReadInstalled, UpdateFails, Replace, At, UpdaterType
  <2>2. CASE Download(u) BY <1>2, <2>2, EndingType DEF Download, At, UpdaterType
  <2>3. CASE Unlock(u) \/ UpdaterKilled(u)
    BY <1>2, <2>3 DEF Unlock, UpdaterKilled, At, NoUpdater
  <2> QED BY <2>1, <2>2, <2>3 DEF UpdaterStep
<1>5. \A v \in Updaters : Runs(v)' => Runs(v) BY <1>3, <1>4 DEF Runs
<1>6. CASE Unlock(u) /\ updater[u].auto
  <2>1. Runs(u) BY <1>4, <1>6 DEF Runs
  <2>2. ~Runs(u)' BY <1>2, <1>6 DEF Unlock, At, NoUpdater, Runs
  <2> QED BY <1>1, <1>3, <2>1, <2>2, HolderLeaves
<1>7. CASE ~ (Unlock(u) /\ updater[u].auto)
  <2>1. UNCHANGED lock
    BY <1>7 DEF UpdaterStep, ReadInstalled, Download, Replace, Unlock, UpdateFails,
                UpdaterKilled, fileVars, lockVars
  <2>2. \A p \in Commands : Holds(p)' => Holds(p) BY <1>1 DEF Holds
  <2>3. Due => Due' BY <1>1 DEF Due
  <2> QED BY <1>1, <1>5, <2>1, <2>2, <2>3, FewerHolders
<1> QED BY <1>6, <1>7

LEMMA StepKeepsLock ==
    ASSUME ProgramType, FileType, LockInv, [Next]_vars
    PROVE  LockInv'
<1>1. ASSUME NEW p \in Commands, Command(p) PROVE LockInv'
  BY <1>1, CommandKeepsLock
<1>2. ASSUME NEW u \in Updaters, Update(u) PROVE LockInv'
  BY <1>2, UpdateKeepsLock DEF Update
<1>3. CASE TimePasses
  <2>1. Tick /\ UNCHANGED <<pc, updater, bypassed>> BY <1>3 DEF TimePasses, Tick
  <2>2. (Due => Due') /\ (lock # None => lock' # None) BY <2>1, DueStays
  <2>3. /\ \A p \in Commands : Holds(p)' => Holds(p)
        /\ \A u \in Updaters : Runs(u)' => Runs(u)
        /\ \A p \in Commands : pc'[p] = "stamp" => pc[p] = "stamp"
    BY <2>1 DEF Holds, Runs
  <2> QED BY <2>1, <2>2, <2>3, FewerHolders
<1>4. CASE Environment
  <2>1. ASSUME NEW p \in Commands, WriteLockFails(p) PROVE LockInv'
    <3>1. Go(p, "write", "open") /\ UNCHANGED <<stamp, updater, bypassed>>
      BY <2>1 DEF WriteLockFails
    <3>2. /\ Holds(p) /\ ~Holds(p)' /\ \A q \in Commands : q # p => pc'[q] = pc[q]
      BY <3>1 DEF Go, Holds, ProgramType
    <3> QED BY <3>1, <3>2, HolderLeaves
  <2>2. ASSUME NEW p \in Commands, CommandKilled(p) PROVE LockInv'
    <3>1. /\ pc' = [pc EXCEPT ![p] = "idle"]
          /\ UNCHANGED <<stamp, lock, updater, bypassed>>
      BY <2>2 DEF CommandKilled, fileVars, lockVars
    <3>2. pc'[p] = "idle" /\ \A q \in Commands : q # p => pc'[q] = pc[q]
      BY <3>1 DEF ProgramType
    <3>3. \A q \in Commands : Holds(q)' => Holds(q) BY <3>2 DEF Holds
    <3>4. \A q \in Commands : pc'[q] = "stamp" => pc[q] = "stamp" BY <3>2
    <3>5. \A u \in Updaters : Runs(u)' => Runs(u) BY <3>1 DEF Runs
    <3>6. Due => Due' BY <3>1 DEF Due
    <3> QED BY <3>1, <3>3, <3>4, <3>5, <3>6, FewerHolders
  <2>3. ASSUME NEW u \in Updaters, ManualUpdate(u) PROVE LockInv'
    BY <2>3 DEF ManualUpdate, LockInv
  <2>4. ASSUME NEW u \in Updaters, UpdateFails(u) \/ UpdaterKilled(u) PROVE LockInv'
    BY <2>4, UpdateKeepsLock
  <2>5. CASE Release
    BY <2>5 DEF Release, fileVars, lockVars, LockInv, LockKept, OneHolder, DueAtStamp, Holds,
                Runs, Due
  <2> QED BY <1>4, <2>1, <2>2, <2>3, <2>4, <2>5 DEF Environment
<1>5. CASE UNCHANGED vars
  BY <1>5 DEF vars, updateVars, lockVars, LockInv, LockKept, OneHolder, DueAtStamp, Holds,
              Runs, Due
<1> QED BY <1>1, <1>2, <1>3, <1>4, <1>5 DEF Next

\* Only the command itself writes the stamp when it passes from one place to
\* the next.
LEMMA StampWasDue ==
    ASSUME LockInv, [Next]_vars, NEW p \in Commands, pc[p] = "stamp"
    PROVE  Due \/ bypassed
BY DEF LockInv, DueAtStamp

------------------------------------------------------------------------------
\* Every variable of the commands keeps its type: the processes, the programs
\* they run, the files of the self-update and the journal's schema.
THEOREM TypeCorrect == Spec => []TypeInv
<1>1. Init => ProgramType /\ FileType /\ SchemaInv
  BY InitProgram, InitFiles, InitSchema
<1>2. ProgramType /\ FileType /\ SchemaInv /\ [Next]_vars
         => (ProgramType /\ FileType /\ SchemaInv)'
  <2> SUFFICES ASSUME ProgramType, FileType, SchemaInv, [Next]_vars
               PROVE  (ProgramType /\ FileType /\ SchemaInv)'
    OBVIOUS
  <2>1. CASE Next BY <2>1, StepKeepsProgram, StepKeepsFiles, StepKeepsSchema
  <2>2. CASE UNCHANGED vars
    BY <2>2, StepKeepsSchema DEF vars, updateVars, lockVars, ProgramType, FileType
  <2> QED BY <2>1, <2>2
<1>3. ProgramType /\ FileType /\ SchemaInv => TypeInv BY DEF TypeInv, SchemaInv
<1> QED BY <1>1, <1>2, <1>3, PTL DEF Spec

\* The journal's version names exactly the migrations that took effect, and the
\* error line numbers were shifted as often as it says, however many programs
\* of different schemas migrate it at once: unless an older one committed over
\* a newer one's schema.
THEOREM HonestVersion == Spec => []VersionIsHonest
<1>1. Init => SchemaInv BY InitSchema
<1>2. TypeInv /\ SchemaInv /\ [Next]_vars => SchemaInv'
  BY StepKeepsSchema DEF TypeInv
<1>3. SchemaInv => VersionIsHonest BY DEF SchemaInv
<1> QED BY <1>1, <1>2, <1>3, TypeCorrect, PTL DEF Spec

\* A migration fails on a journal whose version the program has just read only
\* where another program migrated that journal in between.
THEOREM ExcusedFailure == Spec => []FailureIsExcused
<1>1. Init => SchemaInv BY InitSchema
<1>2. TypeInv /\ SchemaInv /\ [Next]_vars => SchemaInv'
  BY StepKeepsSchema DEF TypeInv
<1>3. SchemaInv => FailureIsExcused BY DEF SchemaInv
<1> QED BY <1>1, <1>2, <1>3, TypeCorrect, PTL DEF Spec

\* Commands that start at the same time do not check twice within an interval,
\* until a lock is taken over as stale or an update runs without it.
THEOREM SpacedChecks == Spec => ChecksAreSpaced
<1>1. Init => LockInv BY InitLock
<1>2. TypeInv /\ LockInv /\ [Next]_vars => LockInv'
  BY StepKeepsLock DEF TypeInv
<1>3. LockInv /\ [Next]_vars
         => [\A p \in Commands :
                pc[p] = "stamp" /\ pc'[p] = "spawn" => Due \/ bypassed]_updateVars
  BY StampWasDue
<1> QED BY <1>1, <1>2, <1>3, TypeCorrect, PTL DEF Spec, ChecksAreSpaced

==============================================================================
