------------------------------- MODULE DataLock -------------------------------
(***************************************************************************)
(* The single-instance lock of the commands that change the database       *)
(* (acquire_data_lock and Drop for DataLock, on Unix).                     *)
(*                                                                         *)
(* An attempt is a thread of some process.  It passes an in-process set of *)
(* lock paths, makes sure the lock file exists and is private, opens it,   *)
(* takes flock on what it opened and writes its token into it; shutting    *)
(* down it removes the file if the token is still its own, closes it and   *)
(* leaves the set.  The lock file is a path that names an inode or         *)
(* nothing; flock belongs to the inode.  An inode that nothing refers to   *)
(* may be used again.  The mode bits of the file are left out.             *)
(***************************************************************************)
EXTENDS Integers, FiniteSets

CONSTANTS
    Threads, Processes,
    ProcessOf,    \* the process of a thread
    Inodes,
    NoFile, NoThread,
    MaxCrashes, MaxFailures   \* bounds on the environment

ASSUME ProcessAssumption == ProcessOf \in [Threads -> Processes]
ASSUME NothingAssumption == NoFile \notin Inodes /\ NoThread \notin Threads
ASSUME EnvironmentAssumption == MaxCrashes \in Nat /\ MaxFailures \in Nat

VARIABLES
    pc,       \* where each thread is
    guard,    \* DATA_LOCK_PROCESS_PATHS: the thread a process let through
    path,     \* the inode the lock path names
    fd,       \* the inode each thread has open
    flock,    \* the thread whose open file holds the lock of an inode
    token,    \* the thread whose token is in an inode
    crashes, failures   \* history: how often they happened

vars == <<pc, guard, path, fd, flock, token, crashes, failures>>
environment == <<crashes, failures>>

Init ==
    /\ pc = [t \in Threads |-> "idle"]
    /\ guard = [q \in Processes |-> NoThread]
    /\ path = NoFile
    /\ fd = [t \in Threads |-> NoFile]
    /\ flock = [i \in Inodes |-> NoThread]
    /\ token = [i \in Inodes |-> NoThread]
    /\ crashes = 0 /\ failures = 0

Goto(t, from, to) == pc[t] = from /\ pc' = [pc EXCEPT ![t] = to]

\* The path gets a new, empty file.
NewFile ==
    \E i \in Inodes :
        /\ i # path /\ \A t \in Threads : fd[t] # i
        /\ path' = i
        /\ token' = [token EXCEPT ![i] = NoThread]

------------------------------------------------------------------------------
(* Acquiring. *)

\* acquire_process_data_lock; a thread of a guarded process gets LockHeld.
Begin(t) ==
    /\ guard[ProcessOf[t]] = NoThread
    /\ Goto(t, "idle", "look")
    /\ guard' = [guard EXCEPT ![ProcessOf[t]] = t]
    /\ UNCHANGED <<path, fd, flock, token, environment>>

\* ensure_private_file: is there a file?
Look(t) ==
    /\ Goto(t, "look", IF path = NoFile THEN "create" ELSE "mode")
    /\ UNCHANGED <<guard, path, fd, flock, token, environment>>

\* ensure_file_mode stats the path a second time.
CheckMode(t) ==
    /\ Goto(t, "mode", IF path = NoFile THEN "unguard" ELSE "open")
    /\ UNCHANGED <<guard, path, fd, flock, token, environment>>

\* create_private_file, which fails if a file has appeared.
Create(t) ==
    /\ \/ /\ path = NoFile
          /\ Goto(t, "create", "chmod")
          /\ NewFile
       \/ /\ path # NoFile
          /\ Goto(t, "create", "unguard")
          /\ UNCHANGED <<path, token>>
    /\ UNCHANGED <<guard, fd, flock, environment>>

\* ... and goes on to set the mode of what the path names by then.
SetMode(t) ==
    /\ Goto(t, "chmod", IF path = NoFile THEN "discard" ELSE "open")
    /\ UNCHANGED <<guard, path, fd, flock, token, environment>>

\* set_mode failed: remove whatever the path names.
Discard(t) ==
    /\ Goto(t, "discard", "unguard")
    /\ path' = NoFile
    /\ UNCHANGED <<guard, fd, flock, token, environment>>

\* open(O_CREAT).
Open(t) ==
    /\ Goto(t, "open", "flock")
    /\ \/ path # NoFile /\ UNCHANGED <<path, token>>
       \/ path = NoFile /\ NewFile
    /\ fd' = [fd EXCEPT ![t] = path']
    /\ UNCHANGED <<guard, flock, environment>>

\* Mutant of Flock: metadata in the file counts as a lock.
FlockIfEmpty(t) ==
    LET i == fd[t] IN
    /\ \/ /\ Goto(t, "flock", "write")
          /\ token[i] = NoThread
          /\ flock' = [flock EXCEPT ![i] = t]
       \/ /\ Goto(t, "flock", "close")
          /\ token[i] # NoThread
          /\ UNCHANGED flock
    /\ UNCHANGED <<guard, path, fd, token, environment>>

\* flock(LOCK_EX | LOCK_NB): LockHeld if another open file has it.
Flock(t) ==
    LET i == fd[t] IN
    /\ \/ /\ Goto(t, "flock", "write")
          /\ flock[i] = NoThread
          /\ flock' = [flock EXCEPT ![i] = t]
       \/ /\ Goto(t, "flock", "close")
          /\ flock[i] # NoThread
          /\ UNCHANGED flock
    /\ UNCHANGED <<guard, path, fd, token, environment>>

\* write_data_lock_metadata.
WriteToken(t) ==
    /\ Goto(t, "write", "held")
    /\ token' = [token EXCEPT ![fd[t]] = t]
    /\ UNCHANGED <<guard, path, fd, flock, environment>>

\* A failed write removes whatever the path names.
WriteFails(t) ==
    /\ failures < MaxFailures
    /\ failures' = failures + 1
    /\ Goto(t, "write", "close")
    /\ path' = NoFile
    /\ UNCHANGED <<guard, fd, flock, token, crashes>>

------------------------------------------------------------------------------
(* Releasing: Drop for DataLock, then its fields in order. *)

\* Mutant of ReadToken: the newline after the token is compared too.
ReadTokenUntrimmed(t) ==
    /\ Goto(t, "held", "close")
    /\ UNCHANGED <<guard, path, fd, flock, token, environment>>

\* remove_data_lock_file_if_owned reads the token ...
ReadToken(t) ==
    LET owned == path # NoFile /\ token[path] = t IN
    /\ Goto(t, "held", IF owned THEN "unlink" ELSE "close")
    /\ UNCHANGED <<guard, path, fd, flock, token, environment>>

\* Mutant of Unlink: the process guard is dropped before the file.
UnlinkAndUnguard(t) ==
    /\ Goto(t, "unlink", "close")
    /\ path' = NoFile
    /\ guard' = [guard EXCEPT ![ProcessOf[t]] = NoThread]
    /\ UNCHANGED <<fd, flock, token, environment>>

\* ... and then removes what the path names.
Unlink(t) ==
    /\ Goto(t, "unlink", "close")
    /\ path' = NoFile
    /\ UNCHANGED <<guard, fd, flock, token, environment>>

\* _file is dropped: the descriptor closes and its lock is released.
Close(t) ==
    /\ Goto(t, "close", "unguard")
    /\ fd' = [fd EXCEPT ![t] = NoFile]
    /\ flock' = [i \in Inodes |-> IF flock[i] = t THEN NoThread ELSE flock[i]]
    /\ UNCHANGED <<guard, path, token, environment>>

\* _process_guard is dropped.
Unguard(t) ==
    /\ Goto(t, "unguard", "idle")
    /\ guard' = [guard EXCEPT ![ProcessOf[t]] = NoThread]
    /\ UNCHANGED <<path, fd, flock, token, environment>>

\* A process dies: the kernel closes its files, nothing removes the path.
Crash(q) ==
    LET dead == {t \in Threads : ProcessOf[t] = q} IN
    /\ crashes < MaxCrashes
    /\ \E t \in dead : pc[t] # "idle"
    /\ crashes' = crashes + 1
    /\ pc' = [t \in Threads |-> IF t \in dead THEN "idle" ELSE pc[t]]
    /\ guard' = [guard EXCEPT ![q] = NoThread]
    /\ fd' = [t \in Threads |-> IF t \in dead THEN NoFile ELSE fd[t]]
    /\ flock' = [i \in Inodes |-> IF flock[i] \in dead THEN NoThread ELSE flock[i]]
    /\ UNCHANGED <<path, token, failures>>

\* Everything a thread does by itself once it has begun.
Work(t) ==
    \/ Look(t) \/ CheckMode(t) \/ Create(t) \/ SetMode(t) \/ Discard(t)
    \/ Open(t) \/ Flock(t) \/ WriteToken(t) \/ WriteFails(t)
    \/ ReadToken(t) \/ Unlink(t) \/ Close(t) \/ Unguard(t)

Next ==
    \/ \E t \in Threads : Begin(t) \/ Work(t)
    \/ \E q \in Processes : Crash(q)

Spec == Init /\ [][Next]_vars

\* A command that has begun goes on to its end; nobody has to start one.
FairSpec == Spec /\ \A t \in Threads : WF_vars(Work(t))

------------------------------------------------------------------------------
(* Properties. *)

\* The type of every variable; a thread has a descriptor exactly from the open
\* to the close.
TypeOK ==
    /\ pc \in [Threads -> {"idle", "look", "mode", "create", "chmod", "discard",
                           "open", "flock", "write", "held", "unlink", "close",
                           "unguard"}]
    /\ guard \in [Processes -> Threads \cup {NoThread}]
    /\ path \in Inodes \cup {NoFile}
    /\ fd \in [Threads -> Inodes \cup {NoFile}]
    /\ \A t \in Threads :
          fd[t] # NoFile <=> pc[t] \in {"flock", "write", "held", "unlink", "close"}
    /\ flock \in [Inodes -> Threads \cup {NoThread}]
    /\ token \in [Inodes -> Threads \cup {NoThread}]
    /\ crashes \in Nat /\ failures \in Nat

\* "_file must drop before _process_guard": no two threads of one process
\* ever have a descriptor of a lock file open at the same time, whatever inodes
\* they opened, whichever step failed and wherever the process was killed.
OneDescriptorPerProcess ==
    \A t, u \in Threads :
        t # u /\ ProcessOf[t] = ProcessOf[u] => fd[t] = NoFile \/ fd[u] = NoFile

\* "removed on clean shutdown for tidiness": with no process killed, no lock
\* file is left once nobody uses the lock, whatever opens, refusals, failed
\* writes and removals overlapped.
TidyShutdown ==
    crashes = 0 /\ (\A t \in Threads : pc[t] = "idle") => path = NoFile

\* "its mere presence is not a Unix lock": once all others are done or dead, a
\* thread that keeps trying gets the lock, whatever they left behind.
AbandonedLockNeverBlocks ==
    \A t \in Threads :
        /\ <>[](\A u \in Threads \ {t} : pc[u] = "idle")
        /\ []<><<Begin(t)>>_vars
        => []<>(pc[t] = "held")

\* "Single-instance guard for commands that mutate the local database": at most
\* one command runs under the lock.  The code does not ensure it.
SingleInstance ==
    \A t, u \in Threads : pc[t] = "held" /\ pc[u] = "held" => t = u
==============================================================================
