CONSTANTS
    p1 = p1  p2 = p2  s1 = s1  s2 = s2
    Paths = {p1, p2}
    Sessions = {s1, s2}
    IdOf <- FamilyId
    ParentOf <- FamilyParent
    PathOrder <- FamilyOrder
    NoPath = NoPath  NoSession = NoSession  NoLine = NoLine
    Good = {a}
    Bad = Bad
    CoarseClock = FALSE
    MaxWrites = 3  MaxLines = 1  MaxCrashes = 1
SPECIFICATION FairSpec
PROPERTY Convergence
