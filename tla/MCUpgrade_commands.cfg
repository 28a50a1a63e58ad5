CONSTANTS
    Commands = {p1, p2}
    Openers = {p1, p2}
    NoCommand = NoCommand
    Updaters = {u1, u2}
    Interval = 1  Stale = 1
    MaxVersion = 2  MaxFaults = 1
    FirstSchemas = {1}
    SchemaOf <- Schemas
SPECIFICATION FairSpec
INVARIANTS VersionIsHonest FailureIsExcused
PROPERTIES ChecksAreSpaced EventuallyUsable
