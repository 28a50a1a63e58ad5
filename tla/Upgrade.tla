------------------------------- MODULE Upgrade -------------------------------
(***************************************************************************)
(* A command as a whole: it may spawn an update, then it opens the journal *)
(* with the program it was started as.  Replacing the binary lets programs *)
(* of several schema versions meet at one journal.                         *)
(***************************************************************************)
EXTENDS AutoUpdate, Migrations

CONSTANT SchemaOf   \* the schema version of each release

ASSUME UpgradeAssumption ==
    /\ Openers = Commands
    /\ SchemaOf \in [1 .. MaxVersion -> 1 .. Latest]
    /\ \A v \in FirstSchemas : v <= SchemaOf[1]

vars == <<updateVars, migrationVars>>

Init == UpdateInit /\ MigrationInit

SchemaFor(p) == SchemaOf[program[p]]

Exit(p) ==
    /\ pc' = [pc EXCEPT ![p] = "idle"]
    /\ program' = [program EXCEPT ![p] = 0]

\* open_database of a command that has to migrate goes on with the transaction.
Open(p) ==
    /\ pc[p] = "open"
    /\ ReadVersion(p, SchemaFor(p))
    /\ IF db.version < SchemaFor(p)
       THEN pc' = [pc EXCEPT ![p] = "migrate"] /\ UNCHANGED program
       ELSE Exit(p)
    /\ UNCHANGED <<worldVars, fileVars, updater, faults, bypassed>>

RunMigrations(p) ==
    /\ pc[p] = "migrate"
    /\ Migrate(p, SchemaFor(p))
    /\ Exit(p)
    /\ UNCHANGED <<worldVars, fileVars, updater, faults, bypassed>>

\* Mutant of Prologue: a program that cannot open the journal ends before it
\* looks for an update.
PrologueAfterOpen(p) ==
    /\ pc[p] = "idle" => SchemaOf[installed] >= db.version
    /\ CommandStep(p)

\* run_resolved_command: the update check comes before the command's body.
Prologue(p) == CommandStep(p)

Command(p) == (Prologue(p) /\ UNCHANGED migrationVars) \/ Open(p) \/ RunMigrations(p)

Update(u) == UpdaterStep(u) /\ UNCHANGED migrationVars

Environment ==
    /\ \/ \E p \in Commands : WriteLockFails(p) \/ CommandKilled(p)
       \/ \E u \in Updaters : ManualUpdate(u) \/ UpdateFails(u) \/ UpdaterKilled(u)
       \/ Release
    /\ UNCHANGED migrationVars

TimePasses == Tick /\ UNCHANGED migrationVars

Next ==
    \/ \E p \in Commands : Command(p)
    \/ \E u \in Updaters : Update(u)
    \/ TimePasses \/ Environment

Spec == Init /\ [][Next]_vars

\* Commands are started again and again, live processes go on, time passes.
FairSpec ==
    /\ Spec
    /\ \A p \in Commands : WF_vars(Command(p))
    /\ \A u \in Updaters : WF_vars(Update(u))
    /\ WF_vars(TimePasses)

------------------------------------------------------------------------------
\* An installed program that is older than the journal is replaced, because the
\* check comes before the journal is opened, unless a killed command left the
\* lock file empty.
EventuallyUsable ==
    setting = "on" =>
        \/ []<>(SchemaOf[installed] >= db.version)
        \/ <>[](lock = Empty)
==============================================================================
