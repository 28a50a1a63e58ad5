----------------------------- MODULE AutoUpdate -----------------------------
(***************************************************************************)
(* The self-update: a command that finds the last check a day old takes    *)
(* the update lock, records the check and spawns a child, which downloads  *)
(* the latest release, replaces the installed binary and removes the lock. *)
(* `jottrace update` does the same in the foreground, without the lock.    *)
(*                                                                         *)
(* Time is kept as ages that stop growing where no comparison tells them   *)
(* apart: Interval for the stamp, Stale for the lock.  Writing the stamp   *)
(* is one step: an empty stamp is due, as none is.                         *)
(***************************************************************************)
EXTENDS Integers, FiniteSets

CONSTANTS
    Commands,        \* processes of the user
    Updaters,        \* slots for processes that run run_update
    Interval, Stale, \* AUTO_UPDATE_INTERVAL_SECS, AUTO_UPDATE_LOCK_STALE_SECS
    NoCommand,
    MaxVersion,      \* the last release
    MaxFaults        \* bound on kills, failed updates and manual updates

ASSUME TimeAssumption == Stale \in Nat \ {0} /\ Interval \in Nat /\ Stale <= Interval
ASSUME CommandAssumption == NoCommand \notin Commands
ASSUME ReleaseAssumption == MaxVersion \in Nat \ {0} /\ MaxFaults \in Nat

None == -1
Empty == -2   \* the lock file before its created_at is written

VARIABLES
    setting,   \* "on", "opted out" (environment, not installed by the
               \* installer) or "configured off" (config.json)
    released,  \* the latest release
    installed, \* the version of the installed binary
    stamp,     \* age of auto-update-check, or None
    lock,      \* age of created_at in the lock file, Empty or None
    writer,    \* whose empty lock file the path names, or NoCommand
    pc,        \* where each command is
    program,   \* the version each running command was started as
    updater,   \* the processes in run_update
    faults,    \* history: kills, failed and manual updates so far
    bypassed   \* history: a lock was taken over, or an update ran without it

updateVars == <<setting, released, installed, stamp, lock, writer, pc, program, updater,
                faults, bypassed>>
lockVars == <<lock, writer>>
fileVars == <<installed, stamp, lockVars>>
worldVars == <<setting, released>>

NoUpdater == [at |-> "none", auto |-> FALSE, current |-> 0, candidate |-> 0]

UpdateInit ==
    /\ setting \in {"on", "opted out", "configured off"}
    /\ released = 1 /\ installed = 1
    /\ stamp = None /\ lock = None /\ writer = NoCommand
    /\ pc = [p \in Commands |-> "idle"]
    /\ program = [p \in Commands |-> 0]
    /\ updater = [u \in Updaters |-> NoUpdater]
    /\ faults = 0 /\ bypassed = FALSE

------------------------------------------------------------------------------
(* The command's side. *)

Go(p, here, there) == pc[p] = here /\ pc' = [pc EXCEPT ![p] = there]

\* auto_update_due
Due == stamp = None \/ stamp >= Interval

\* The shell runs the installed binary; it looks at the stamp first.
Start(p) ==
    /\ Go(p, "idle", IF setting # "opted out" /\ Due THEN "create" ELSE "open")
    /\ program' = [program EXCEPT ![p] = installed]
    /\ UNCHANGED <<worldVars, fileVars, updater, faults, bypassed>>

\* create_new; whoever finds the lock there looks whether it is stale.
CreateLock(p) ==
    \/ /\ lock = None
       /\ lock' = Empty /\ writer' = p
       /\ pc[p] \in {"create", "recreate"}
       /\ pc' = [pc EXCEPT ![p] = "write"]
       /\ UNCHANGED <<worldVars, installed, stamp, program, updater, faults, bypassed>>
    \/ /\ lock # None
       /\ Go(p, "create", "inspect") \/ Go(p, "recreate", "open")
       /\ UNCHANGED <<worldVars, fileVars, program, updater, faults, bypassed>>

\* remove_stale_auto_update_lock, as far as it reads: a lock without a time of
\* creation is never stale.
InspectLock(p) ==
    /\ Go(p, "inspect", IF lock = None THEN "recreate"
                        ELSE IF lock >= Stale THEN "remove" ELSE "open")
    /\ UNCHANGED <<worldVars, fileVars, program, updater, faults, bypassed>>

\* What the path names now is removed.
Unlink == lock' = None /\ writer' = NoCommand

RemoveLock(p) ==
    /\ Go(p, "remove", "recreate")
    /\ Unlink
    /\ bypassed' = TRUE
    /\ UNCHANGED <<worldVars, installed, stamp, program, updater, faults>>

\* The contents go to the file that was created, whatever its path is by now.
WriteLock(p) ==
    /\ Go(p, "write", "decide")
    /\ IF writer = p THEN lock' = 0 /\ writer' = NoCommand ELSE UNCHANGED lockVars
    /\ UNCHANGED <<worldVars, installed, stamp, program, updater, faults, bypassed>>

\* Mutant of MayCheck: the stamp is not read again under the lock.
MayCheckUnseen == setting = "on"

\* The stamp is read again, then config.json.
MayCheck == Due /\ setting = "on"

\* An early return drops the lock: its path is removed.
Decide(p) ==
    /\ IF MayCheck
       THEN Go(p, "decide", "stamp") /\ UNCHANGED lockVars
       ELSE Go(p, "decide", "open") /\ Unlink
    /\ UNCHANGED <<worldVars, installed, stamp, program, updater, faults, bypassed>>

WriteStamp(p) ==
    /\ Go(p, "stamp", "spawn")
    /\ stamp' = 0
    /\ UNCHANGED <<worldVars, installed, lockVars, program, updater, faults, bypassed>>

\* The child inherits the lock; a spawn that fails removes it.
KeptForChild(spawned) == spawned

Spawn(p) ==
    /\ Go(p, "spawn", "open")
    /\ LET free == {u \in Updaters : updater[u].at = "none"}
       IN  /\ IF KeptForChild(free # {}) THEN UNCHANGED lockVars ELSE Unlink
           /\ IF free = {}
              THEN UNCHANGED updater
              ELSE LET u == CHOOSE u \in free : TRUE
                   IN  updater' = [updater EXCEPT
                          ![u] = [NoUpdater EXCEPT !.at = "version", !.auto = TRUE]]
    /\ UNCHANGED <<worldVars, installed, stamp, program, faults, bypassed>>

\* maybe_spawn_auto_update: its errors are ignored and the command goes on.
CommandStep(p) ==
    \/ Start(p) \/ CreateLock(p) \/ InspectLock(p) \/ RemoveLock(p)
    \/ WriteLock(p) \/ Decide(p) \/ WriteStamp(p) \/ Spawn(p)

\* The lock file cannot be written: it is removed and the error ignored.
WriteLockFails(p) ==
    /\ faults < MaxFaults
    /\ Go(p, "write", "open")
    /\ Unlink
    /\ faults' = faults + 1
    /\ UNCHANGED <<worldVars, installed, stamp, program, updater, bypassed>>

CommandKilled(p) ==
    /\ pc[p] # "idle" /\ faults < MaxFaults
    /\ pc' = [pc EXCEPT ![p] = "idle"]
    /\ program' = [program EXCEPT ![p] = 0]
    /\ faults' = faults + 1
    /\ UNCHANGED <<worldVars, fileVars, updater, bypassed>>

------------------------------------------------------------------------------
(* run_update. *)

At(u, here, new) == updater[u].at = here /\ updater' = [updater EXCEPT ![u] = new]

Ending(u) == [NoUpdater EXCEPT !.at = "unlock", !.auto = updater[u].auto]

\* `jottrace update`
ManualUpdate(u) ==
    /\ faults < MaxFaults
    /\ At(u, "none", [NoUpdater EXCEPT !.at = "version"])
    /\ faults' = faults + 1
    /\ bypassed' = TRUE
    /\ UNCHANGED <<worldVars, fileVars, pc, program>>

\* binary_version of what is installed.
ReadInstalled(u) ==
    /\ At(u, "version", [updater[u] EXCEPT !.at = "download", !.current = installed])
    /\ UNCHANGED <<worldVars, fileVars, pc, program, faults, bypassed>>

\* "latest"; JOTTRACE_VERSION may name any release of an update in the
\* foreground, and commands are assumed to run without it.
Requested(u) == IF updater[u].auto THEN {released} ELSE 1 .. released

\* The archive is downloaded and asked for its version; a new one is copied
\* beside the installed binary.
Download(u) ==
    /\ \E v \in Requested(u) :
          At(u, "download",
             IF v = updater[u].current THEN Ending(u)
             ELSE [updater[u] EXCEPT !.candidate = v, !.at = "rename"])
    /\ UNCHANGED <<worldVars, fileVars, pc, program, faults, bypassed>>

\* replace_installed_binary: the staged copy is renamed over the binary.
Replace(u) ==
    /\ At(u, "rename", Ending(u))
    /\ installed' = updater[u].candidate
    /\ UNCHANGED <<worldVars, stamp, lockVars, pc, program, faults, bypassed>>

\* run_auto_update_silent ends by removing the lock's path, whoever owns it.
Unlock(u) ==
    /\ At(u, "unlock", NoUpdater)
    /\ IF updater[u].auto THEN Unlink ELSE UNCHANGED lockVars
    /\ UNCHANGED <<worldVars, installed, stamp, pc, program, faults, bypassed>>

UpdaterStep(u) == ReadInstalled(u) \/ Download(u) \/ Replace(u) \/ Unlock(u)

\* No network, no release for the platform, no space: the error is ignored.
UpdateFails(u) ==
    /\ faults < MaxFaults
    /\ updater[u].at \in {"version", "download", "rename"}
    /\ updater' = [updater EXCEPT ![u] = Ending(u)]
    /\ faults' = faults + 1
    /\ UNCHANGED <<worldVars, fileVars, pc, program, bypassed>>

UpdaterKilled(u) ==
    /\ faults < MaxFaults
    /\ updater[u].at # "none"
    /\ updater' = [updater EXCEPT ![u] = NoUpdater]
    /\ faults' = faults + 1
    /\ UNCHANGED <<worldVars, fileVars, pc, program, bypassed>>

------------------------------------------------------------------------------
(* Time and releases. *)

Older(age, limit) == IF age >= 0 /\ age < limit THEN age + 1 ELSE age

Tick ==
    /\ stamp' = Older(stamp, Interval)
    /\ lock' = Older(lock, Stale)
    /\ UNCHANGED <<worldVars, installed, writer, pc, program, updater, faults, bypassed>>

Release ==
    /\ released < MaxVersion
    /\ released' = released + 1
    /\ UNCHANGED <<setting, fileVars, pc, program, updater, faults, bypassed>>

------------------------------------------------------------------------------
\* A check is recorded within an interval of the one before it only after a
\* lock was taken over, or an update ran without it.
ChecksAreSpaced ==
    [][\A p \in Commands :
          pc[p] = "stamp" /\ pc'[p] = "spawn" => Due \/ bypassed]_updateVars
==============================================================================
