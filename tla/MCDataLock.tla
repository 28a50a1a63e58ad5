------------------------------ MODULE MCDataLock ------------------------------
(* Instances of DataLock for TLC. *)
EXTENDS DataLock, TLC

CONSTANTS t1, t2, t3, A, B

\* Two threads of one process and a second process.
TwoProcesses == (t1 :> A) @@ (t2 :> A) @@ (t3 :> B)

\* Two commands, each a process of its own.
TwoCommands == (t1 :> A) @@ (t3 :> B)

InodeSymmetry == Permutations(Inodes)
==============================================================================
