---------------------------- MODULE DataLockProofs ----------------------------
(* Proofs about DataLock, for every set of threads, processes and inodes. *)
EXTENDS DataLock, TLAPS

\* The in-process set lets one thread of a process through, until it is idle.
GuardHeld ==
    \A t \in Threads : pc[t] # "idle" => guard[ProcessOf[t]] = t

IInv == TypeOK /\ GuardHeld

LEMMA InitInvariant == Init => IInv
  BY EnvironmentAssumption DEF Init, IInv, TypeOK, GuardHeld

\* A thread that begins finds no other thread of its process on the way.
LEMMA BeginStep ==
    ASSUME IInv, NEW t \in Threads, Begin(t)
    PROVE  IInv'
<1>1. ProcessOf[t] \in Processes
  BY ProcessAssumption
<1>2. TypeOK'
  BY <1>1 DEF Begin, Goto, environment, IInv, TypeOK
<1>3. GuardHeld'
  <2> SUFFICES ASSUME NEW u \in Threads, pc'[u] # "idle"
               PROVE  guard'[ProcessOf[u]] = u
    BY DEF GuardHeld
  <2>1. CASE u = t
    BY <1>1, <2>1 DEF Begin, IInv, TypeOK
  <2>2. CASE u # t
    <3>1. guard[ProcessOf[u]] = u /\ guard[ProcessOf[t]] = NoThread
      BY <2>2 DEF Begin, Goto, IInv, TypeOK, GuardHeld
    <3>2. ProcessOf[u] # ProcessOf[t]
      BY <3>1, NothingAssumption
    <3> QED
      BY <3>1, <3>2 DEF Begin, IInv, TypeOK
  <2> QED
    BY <2>1, <2>2
<1> QED
  BY <1>2, <1>3 DEF IInv

\* The steps before the file is open keep the descriptors as they are.
LEMMA PrepareStep ==
    ASSUME IInv, NEW t \in Threads,
           Look(t) \/ CheckMode(t) \/ Create(t) \/ SetMode(t) \/ Discard(t)
    PROVE  IInv'
<1>1. CASE Look(t)
  BY <1>1 DEF Look, Goto, environment, IInv, TypeOK, GuardHeld
<1>2. CASE CheckMode(t)
  BY <1>2 DEF CheckMode, Goto, environment, IInv, TypeOK, GuardHeld
<1>3. CASE Create(t)
  BY <1>3 DEF Create, NewFile, Goto, environment, IInv, TypeOK, GuardHeld
<1>4. CASE SetMode(t)
  BY <1>4 DEF SetMode, Goto, environment, IInv, TypeOK, GuardHeld
<1>5. CASE Discard(t)
  BY <1>5 DEF Discard, Goto, environment, IInv, TypeOK, GuardHeld
<1> QED
  BY <1>1, <1>2, <1>3, <1>4, <1>5

\* What the open returns is an inode, whether or not it had to create it.
LEMMA OpenStep ==
    ASSUME IInv, NEW t \in Threads, Open(t)
    PROVE  IInv'
<1>1. path' \in Inodes /\ token' \in [Inodes -> Threads \cup {NoThread}]
  BY DEF Open, NewFile, IInv, TypeOK
<1>2. path' # NoFile
  BY <1>1, NothingAssumption
<1> QED
  BY <1>1, <1>2 DEF Open, Goto, environment, IInv, TypeOK, GuardHeld

LEMMA HeldStep ==
    ASSUME IInv, NEW t \in Threads,
           Flock(t) \/ WriteToken(t) \/ WriteFails(t) \/ ReadToken(t) \/ Unlink(t)
    PROVE  IInv'
<1>1. CASE Flock(t)
  BY <1>1 DEF Flock, Goto, environment, IInv, TypeOK, GuardHeld
<1>2. CASE WriteToken(t)
  BY <1>2 DEF WriteToken, Goto, environment, IInv, TypeOK, GuardHeld
<1>3. CASE WriteFails(t)
  BY <1>3 DEF WriteFails, Goto, IInv, TypeOK, GuardHeld
<1>4. CASE ReadToken(t)
  BY <1>4 DEF ReadToken, Goto, environment, IInv, TypeOK, GuardHeld
<1>5. CASE Unlink(t)
  BY <1>5 DEF Unlink, Goto, environment, IInv, TypeOK, GuardHeld
<1> QED
  BY <1>1, <1>2, <1>3, <1>4, <1>5

LEMMA CloseStep ==
    ASSUME IInv, NEW t \in Threads, Close(t)
    PROVE  IInv'
  BY DEF Close, Goto, environment, IInv, TypeOK, GuardHeld

\* The guard a thread gives up is its own.
LEMMA UnguardStep ==
    ASSUME IInv, NEW t \in Threads, Unguard(t)
    PROVE  IInv'
<1>1. ProcessOf[t] \in Processes
  BY ProcessAssumption
<1>2. TypeOK'
  BY <1>1 DEF Unguard, Goto, environment, IInv, TypeOK
<1>3. GuardHeld'
  <2> SUFFICES ASSUME NEW u \in Threads, pc'[u] # "idle"
               PROVE  guard'[ProcessOf[u]] = u
    BY DEF GuardHeld
  <2>1. u # t /\ pc[u] # "idle" /\ pc[t] = "unguard"
    BY DEF Unguard, Goto, IInv, TypeOK
  <2>2. guard[ProcessOf[u]] = u /\ guard[ProcessOf[t]] = t
    BY <2>1 DEF IInv, GuardHeld
  <2> QED
    BY <2>1, <2>2 DEF Unguard, IInv, TypeOK
<1> QED
  BY <1>2, <1>3 DEF IInv

\* A killed process takes its guard and its descriptors with it.
LEMMA CrashStep ==
    ASSUME IInv, NEW q \in Processes, Crash(q)
    PROVE  IInv'
<1>1. TypeOK'
  <2>1. crashes' \in Nat /\ failures' \in Nat /\ path' = path /\ token' = token
    BY DEF Crash, IInv, TypeOK
  <2>2. guard' \in [Processes -> Threads \cup {NoThread}]
    BY DEF Crash, IInv, TypeOK
  <2>3. flock' \in [Inodes -> Threads \cup {NoThread}]
    BY DEF Crash, IInv, TypeOK
  <2>4. /\ fd' \in [Threads -> Inodes \cup {NoFile}]
        /\ pc' \in [Threads -> {"idle", "look", "mode", "create", "chmod", "discard",
                                "open", "flock", "write", "held", "unlink", "close",
                                "unguard"}]
        /\ \A t \in Threads :
              fd'[t] # NoFile <=> pc'[t] \in {"flock", "write", "held", "unlink", "close"}
    BY DEF Crash, IInv, TypeOK
  <2> QED
    BY <2>1, <2>2, <2>3, <2>4 DEF IInv, TypeOK
<1>2. GuardHeld'
  <2> SUFFICES ASSUME NEW u \in Threads, pc'[u] # "idle"
               PROVE  guard'[ProcessOf[u]] = u
    BY DEF GuardHeld
  <2>1. ProcessOf[u] # q /\ pc[u] # "idle"
    BY DEF Crash
  <2> QED
    BY <2>1, ProcessAssumption DEF Crash, IInv, TypeOK, GuardHeld
<1> QED
  BY <1>1, <1>2 DEF IInv

LEMMA NextInvariant == IInv /\ [Next]_vars => IInv'
<1> SUFFICES ASSUME IInv, [Next]_vars PROVE IInv'
  OBVIOUS
<1>1. ASSUME NEW t \in Threads, Begin(t) \/ Work(t)
      PROVE  IInv'
  BY <1>1, BeginStep, PrepareStep, OpenStep, HeldStep, CloseStep, UnguardStep DEF Work
<1>2. ASSUME NEW q \in Processes, Crash(q)
      PROVE  IInv'
  BY <1>2, CrashStep
<1>3. CASE UNCHANGED vars
  BY <1>3 DEF vars, environment, IInv, TypeOK, GuardHeld
<1> QED
  BY <1>1, <1>2, <1>3 DEF Next

\* The inductive invariant holds in every reachable state.
THEOREM Invariance == Spec => []IInv
<1>1. Init => IInv
  BY InitInvariant
<1>2. IInv /\ [Next]_vars => IInv'
  BY NextInvariant
<1> QED
  BY <1>1, <1>2, PTL DEF Spec

\* Every variable keeps its type, and descriptors are open exactly while they
\* should be: no error path or crash leaks one.
THEOREM TypeCorrect == Spec => []TypeOK
<1>1. IInv => TypeOK
  BY DEF IInv
<1> QED
  BY <1>1, Invariance, PTL

\* The process guard outlives the descriptor on every path: two threads of one
\* process never have the lock file open at the same time.
THEOREM ProcessExclusion == Spec => []OneDescriptorPerProcess
<1>1. IInv => OneDescriptorPerProcess
  BY DEF IInv, TypeOK, GuardHeld, OneDescriptorPerProcess
<1> QED
  BY <1>1, Invariance, PTL
------------------------------------------------------------------------------
(* Who will remove the lock file. *)

\* An inode is locked by the thread that has it open and has not closed it yet;
\* when that thread comes to the close, the path no longer names the inode.
LockOwner ==
    /\ \A i \in Inodes : flock[i] # NoThread =>
          /\ fd[flock[i]] = i
          /\ pc[flock[i]] \in {"write", "held", "unlink", "close"}
          /\ pc[flock[i]] = "close" => path # i
    /\ \A t \in Threads : pc[t] \in {"write", "held", "unlink"} => flock[fd[t]] = t
    /\ \A t \in Threads : pc[t] = "held" => token[fd[t]] = t

\* The thread will remove the file, or hand it over to the one that locked it.
Cleaner(t) ==
    \/ pc[t] \in {"chmod", "open", "unlink"}
    \/ pc[t] \in {"flock", "write", "held"} /\ fd[t] = path

Cleaned == crashes = 0 /\ path # NoFile => \E t \in Threads : Cleaner(t)

LInv == IInv /\ LockOwner

LEMMA InitLock == Init => LockOwner /\ Cleaned
  BY DEF Init, LockOwner, Cleaned

\* The steps that leave descriptors, locks and tokens alone and give the path no
\* new inode.
LEMMA LooksKeepLocks ==
    ASSUME LInv, NEW t \in Threads,
           \/ Begin(t) \/ Look(t) \/ CheckMode(t) \/ SetMode(t) \/ Discard(t)
           \/ Unguard(t) \/ Unlink(t) \/ WriteFails(t)
    PROVE  LockOwner'
<1> USE DEF LInv, LockOwner, IInv, TypeOK
<1>1. /\ UNCHANGED <<fd, flock, token>>
      /\ path' = path \/ path' = NoFile
      /\ \A u \in Threads : u # t => pc'[u] = pc[u]
  BY DEF Begin, Look, CheckMode, SetMode, Discard, Unguard, Unlink, WriteFails, Goto
<1>2. \/ pc[t] \notin {"write", "held", "unlink", "close"}
         /\ pc'[t] \notin {"write", "held", "unlink", "close"}
      \/ pc[t] \in {"write", "unlink"} /\ pc'[t] = "close" /\ path' = NoFile
  BY DEF Begin, Look, CheckMode, SetMode, Discard, Unguard, Unlink, WriteFails, Goto
<1>3. CASE pc[t] \notin {"write", "held", "unlink", "close"}
           /\ pc'[t] \notin {"write", "held", "unlink", "close"}
  BY <1>1, <1>3, NothingAssumption
<1>4. CASE pc[t] \in {"write", "unlink"} /\ pc'[t] = "close" /\ path' = NoFile
  BY <1>1, <1>4, NothingAssumption
<1> QED
  BY <1>2, <1>3, <1>4

\* A new inode is nobody's.
LEMMA NewFileIsFree ==
    ASSUME LInv, NewFile
    PROVE  /\ path' \in Inodes /\ \A u \in Threads : fd[u] # path'
           /\ \A i \in Inodes \ {path'} : token'[i] = token[i]
           /\ flock[path'] = NoThread
  BY DEF NewFile, LInv, LockOwner, IInv, TypeOK

LEMMA CreateKeepsLocks ==
    ASSUME LInv, NEW t \in Threads, Create(t)
    PROVE  LockOwner'
<1> USE DEF LInv, LockOwner, IInv, TypeOK
<1>1. /\ UNCHANGED <<fd, flock>> /\ pc[t] = "create" /\ pc'[t] \in {"chmod", "unguard"}
      /\ \A u \in Threads : u # t => pc'[u] = pc[u]
      /\ NewFile \/ UNCHANGED <<path, token>>
  BY DEF Create, Goto
<1>2. CASE UNCHANGED <<path, token>>
  BY <1>1, <1>2, NothingAssumption
<1>3. CASE NewFile
  BY <1>1, <1>3, NewFileIsFree, NothingAssumption
<1> QED
  BY <1>1, <1>2, <1>3

LEMMA OpenKeepsLocks ==
    ASSUME LInv, NEW t \in Threads, Open(t)
    PROVE  LockOwner'
<1> USE DEF LInv, LockOwner, IInv, TypeOK
<1>1. /\ UNCHANGED flock /\ pc[t] = "open" /\ pc'[t] = "flock"
      /\ \A u \in Threads : u # t => pc'[u] = pc[u] /\ fd'[u] = fd[u]
      /\ NewFile \/ UNCHANGED <<path, token>>
  BY DEF Open, Goto
<1>2. CASE UNCHANGED <<path, token>>
  BY <1>1, <1>2, NothingAssumption
<1>3. CASE NewFile
  BY <1>1, <1>3, NewFileIsFree, NothingAssumption
<1> QED
  BY <1>1, <1>2, <1>3

LEMMA FlockKeepsLocks ==
    ASSUME LInv, NEW t \in Threads, Flock(t)
    PROVE  LockOwner'
<1> USE DEF LInv, LockOwner, IInv, TypeOK
<1>1. /\ UNCHANGED <<path, fd, token>> /\ pc[t] = "flock" /\ fd[t] \in Inodes
      /\ \A u \in Threads : u # t => pc'[u] = pc[u]
  BY DEF Flock, Goto
<1>2. CASE pc'[t] = "write" /\ flock[fd[t]] = NoThread
           /\ flock' = [flock EXCEPT ![fd[t]] = t]
  BY <1>1, <1>2, NothingAssumption
<1>3. CASE pc'[t] = "close" /\ UNCHANGED flock
  BY <1>1, <1>3, NothingAssumption
<1> QED
  BY <1>2, <1>3 DEF Flock, Goto

\* Only the thread that has an inode locked writes a token into it.
LEMMA HoldersKeepLocks ==
    ASSUME LInv, NEW t \in Threads, WriteToken(t) \/ ReadToken(t)
    PROVE  LockOwner'
<1> USE DEF LInv, LockOwner, IInv, TypeOK
<1>1. /\ UNCHANGED <<path, fd, flock>> /\ fd[t] \in Inodes /\ flock[fd[t]] = t
      /\ \A u \in Threads : u # t => pc'[u] = pc[u]
  BY DEF WriteToken, ReadToken, Goto
<1>2. CASE pc'[t] = "held" /\ token' = [token EXCEPT ![fd[t]] = t]
  BY <1>1, <1>2, NothingAssumption
<1>3. CASE pc[t] = "held" /\ UNCHANGED token
           /\ pc'[t] = IF path # NoFile /\ token[path] = t THEN "unlink" ELSE "close"
  <2>1. pc'[t] = "close" => path # fd[t]
    BY <1>1, <1>3, NothingAssumption
  <2>2. pc'[t] \in {"unlink", "close"}
    BY <1>3
  <2> QED
    BY <1>1, <1>3, <2>1, <2>2, NothingAssumption
<1> QED
  BY <1>2, <1>3 DEF WriteToken, ReadToken, Goto

LEMMA EndsKeepLocks ==
    ASSUME LInv
    PROVE  /\ \A t \in Threads : Close(t) => LockOwner'
           /\ \A q \in Processes : Crash(q) => LockOwner'
<1> USE DEF LInv, LockOwner, IInv, TypeOK
<1>1. ASSUME NEW t \in Threads, Close(t)
      PROVE  LockOwner'
  BY <1>1, NothingAssumption DEF Close, Goto
<1>2. ASSUME NEW q \in Processes, Crash(q)
      PROVE  LockOwner'
  BY <1>2, NothingAssumption DEF Crash
<1> QED
  BY <1>1, <1>2

LEMMA NextLock == LInv /\ [Next]_vars => LInv'
<1> SUFFICES ASSUME LInv, [Next]_vars PROVE LInv'
  OBVIOUS
<1>1. IInv'
  BY NextInvariant DEF LInv
<1>2. ASSUME NEW t \in Threads, Begin(t) \/ Work(t)
      PROVE  LockOwner'
  BY <1>2, LooksKeepLocks, CreateKeepsLocks, OpenKeepsLocks, FlockKeepsLocks,
     HoldersKeepLocks, EndsKeepLocks DEF Work
<1>3. ASSUME NEW q \in Processes, Crash(q)
      PROVE  LockOwner'
  BY <1>3, EndsKeepLocks
<1>4. ASSUME UNCHANGED vars
      PROVE  LockOwner'
  BY <1>4 DEF vars, LInv, LockOwner
<1>5. LockOwner'
  BY <1>2, <1>3, <1>4 DEF Next
<1> QED
  BY <1>1, <1>5 DEF LInv

\* A thread that gives the path a new inode is there to remove it.
LEMMA NewFileIsCleaned ==
    ASSUME LInv, NEW t \in Threads, Create(t) \/ Open(t), path' # path
    PROVE  Cleaner(t)'
<1>1. CASE Create(t)
  BY <1>1 DEF Create, Goto, Cleaner, LInv, IInv, TypeOK
<1>2. CASE Open(t)
  BY <1>2 DEF Open, Goto, Cleaner, LInv, IInv, TypeOK
<1> QED
  BY <1>1, <1>2

\* A cleaner's own step leaves a cleaner while the file is there.
LEMMA CleanerStep ==
    ASSUME LInv, NEW t \in Threads, Begin(t) \/ Work(t), Cleaner(t),
           path # NoFile, path' = path
    PROVE  \E u \in Threads : Cleaner(u)'
<1> USE DEF LInv, IInv, TypeOK
<1>1. pc[t] \in {"chmod", "open", "flock", "write", "held", "unlink"}
  BY DEF Cleaner
<1>2. \/ SetMode(t) \/ Open(t) \/ Flock(t) \/ WriteToken(t) \/ WriteFails(t)
      \/ ReadToken(t) \/ Unlink(t)
  BY <1>1 DEF Begin, Work, Look, CheckMode, Create, Discard, Close, Unguard, Goto
<1>3. CASE SetMode(t)
  <2>1. pc'[t] = "open"
    BY <1>3 DEF SetMode, Goto
  <2> QED
    BY <2>1 DEF Cleaner
<1>4. CASE Open(t)
  <2>1. pc'[t] = "flock" /\ fd'[t] = path'
    BY <1>4 DEF Open, Goto
  <2> QED
    BY <2>1 DEF Cleaner
<1>5. CASE Flock(t)
  <2>1. fd[t] = path /\ pc[t] = "flock" /\ UNCHANGED fd
    BY <1>5 DEF Flock, Goto, Cleaner
  <2>2. CASE pc'[t] = "write"
    BY <2>1, <2>2 DEF Cleaner
  <2>3. CASE flock[path] # NoThread
    <3>1. PICK u \in Threads : u = flock[path]
      BY <2>3
    <3>2. fd[u] = path /\ pc[u] \in {"write", "held", "unlink"}
      BY <2>3, <3>1 DEF LockOwner
    <3>3. pc'[u] = pc[u]
      BY <1>5, <2>1, <3>2 DEF Flock, Goto
    <3> QED
      BY <2>1, <3>2, <3>3 DEF Cleaner
  <2> QED
    BY <1>5, <2>1, <2>2, <2>3 DEF Flock, Goto
<1>6. CASE WriteToken(t)
  <2>1. pc'[t] = "held" /\ fd'[t] = fd[t] /\ fd[t] = path
    BY <1>6 DEF WriteToken, Goto, Cleaner
  <2> QED
    BY <2>1 DEF Cleaner
<1>7. CASE ReadToken(t)
  <2>1. fd[t] = path /\ pc[t] = "held"
    BY <1>7 DEF ReadToken, Goto, Cleaner
  <2>2. token[path] = t
    BY <2>1 DEF LockOwner
  <2>3. pc'[t] = "unlink"
    BY <1>7, <2>2 DEF ReadToken, Goto
  <2> QED
    BY <2>3 DEF Cleaner
<1>8. CASE WriteFails(t) \/ Unlink(t)
  BY <1>8 DEF WriteFails, Unlink
<1> QED
  BY <1>2, <1>3, <1>4, <1>5, <1>6, <1>7, <1>8

LEMMA NextCleaned == LInv /\ Cleaned /\ [Next]_vars => Cleaned'
<1> SUFFICES ASSUME LInv, Cleaned, [Next]_vars, crashes' = 0, path' # NoFile
             PROVE  \E u \in Threads : Cleaner(u)'
  BY DEF Cleaned
<1>1. CASE UNCHANGED vars
  BY <1>1 DEF vars, Cleaned, Cleaner
<1>2. ASSUME NEW q \in Processes, Crash(q)
      PROVE  FALSE
  BY <1>2 DEF Crash, LInv, IInv, TypeOK
<1>3. ASSUME NEW t \in Threads, Begin(t) \/ Work(t)
      PROVE  \E u \in Threads : Cleaner(u)'
  <2>1. crashes = 0
    BY <1>3 DEF Begin, Work, Look, CheckMode, Create, SetMode, Discard, Open, Flock,
                WriteToken, WriteFails, ReadToken, Unlink, Close, Unguard, environment
  <2>2. CASE path' # path
    <3>1. Create(t) \/ Open(t)
      BY <1>3, <2>2 DEF Begin, Work, Look, CheckMode, SetMode, Discard, Flock,
                WriteToken, WriteFails, ReadToken, Unlink, Close, Unguard
    <3> QED
      BY <2>2, <3>1, NewFileIsCleaned
  <2>3. CASE path' = path
    <3>1. PICK u \in Threads : Cleaner(u)
      BY <2>1, <2>3 DEF Cleaned
    <3>2. CASE u = t
      BY <1>3, <2>3, <3>1, <3>2, CleanerStep
    <3>3. CASE u # t
      <4>1. pc'[u] = pc[u] /\ fd'[u] = fd[u]
        BY <1>3, <3>3 DEF Begin, Work, Look, CheckMode, Create, SetMode, Discard, Open,
                Flock, WriteToken, WriteFails, ReadToken, Unlink, Close, Unguard, Goto,
                LInv, IInv, TypeOK
      <4> QED
        BY <2>3, <3>1, <4>1 DEF Cleaner
    <3> QED
      BY <3>2, <3>3
  <2> QED
    BY <2>2, <2>3
<1> QED
  BY <1>1, <1>2, <1>3 DEF Next

\* While nobody is killed, some thread is on its way to remove the lock file as
\* long as there is one: none is left when all are done.
THEOREM LeavesNoFile == Spec => []TidyShutdown
<1>1. Init => LInv /\ Cleaned
  BY InitInvariant, InitLock DEF LInv
<1>2. Cleaned => TidyShutdown
  BY DEF Cleaned, Cleaner, TidyShutdown
<1> QED
  BY <1>1, <1>2, NextLock, NextCleaned, PTL DEF Spec
==============================================================================
