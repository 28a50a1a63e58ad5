CONSTANTS
    t1 = t1  t2 = t2  t3 = t3  A = A  B = B
    Threads = {t1, t3}
    Processes = {A, B}
    ProcessOf <- TwoCommands
    Inodes = {i1, i2, i3}
    NoFile = NoFile  NoThread = NoThread
    MaxCrashes = 0  MaxFailures = 0
SPECIFICATION Spec
SYMMETRY InodeSymmetry
INVARIANT SingleInstance
