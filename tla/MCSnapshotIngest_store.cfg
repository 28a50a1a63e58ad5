CONSTANTS
    main = main  child = child  message = message  part = part
    Sessions = {main, child}
    Rows = {message, part}
    Project = Project
    SessionOf <- FamilySession
    RankOf <- FamilyRank
    CreatedAt <- FamilyCreated
    IdOrder <- FamilyOrder
    ParentOf <- FamilyParent
    StoreSession = StoreSession
    NoSession = NoSession
    MaxWrites = 4  MaxStamp = 1  MaxFaults = 1
SPECIFICATION FairSpec
INVARIANTS FingerprintIsStored OneGenerationPerChange
PROPERTIES GenerationsKept EventuallyCaptured EventuallyResolved BrokenIsSeen
