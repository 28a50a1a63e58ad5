SPECIFICATION FairSpec
CONSTANTS
    Readers = {r1, r2}
    None = None  Empty = Empty  Mixed = Mixed  Partial = Partial  Unread = Unread
    MaxVersion = 2  MaxOpens = 2  MaxDeaths = 2
    IoErrors = TRUE
INVARIANTS PackedIsComplete
PROPERTIES ChangedByProof ForcedOnly SettledIsTheArchive EventuallyRestored
