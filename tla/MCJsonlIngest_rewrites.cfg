CONSTANTS
    p1 = p1  p2 = p2  s1 = s1  s2 = s2
    Paths = {p1}
    Sessions = {s1}
    IdOf <- OneId
    ParentOf <- OneParent
    PathOrder <- OneOrder
    NoPath = NoPath  NoSession = NoSession  NoLine = NoLine
    Good = {a, b}
    Bad = Bad
    CoarseClock = TRUE
    MaxWrites = 4  MaxLines = 2  MaxCrashes = 1
SPECIFICATION Spec
SYMMETRY LineSymmetry
INVARIANTS PreservedPrefix GenuineGenerations BadLineVisible AppendOnlyNeverReindexed
PROPERTIES PreservedForever SameContentWritesNothing ImplementsJournal
