CONSTANTS
    t1 = t1  t2 = t2  t3 = t3  A = A  B = B
    Threads = {t1, t2, t3}
    Processes = {A, B}
    ProcessOf <- TwoProcesses
    Inodes = {i1, i2, i3}
    NoFile = NoFile  NoThread = NoThread
    MaxCrashes = 1  MaxFailures = 1
SPECIFICATION FairSpec
INVARIANTS OneDescriptorPerProcess TidyShutdown
PROPERTY AbandonedLockNeverBlocks
