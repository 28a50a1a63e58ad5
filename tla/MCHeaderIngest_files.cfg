CONSTANTS
    p1 = p1  p2 = p2  x = x  y = y  n = n
    Paths = {p1, p2}
    PathOrder <- MCPathOrder
    Heads = {x, y}
    PathId <- MCPathId
    NoId = NoId
    Kinds = {"codex", "factory", "gemini"}
    MaxBody = 1  MaxWrites = 3  MaxCrashes = 1
SPECIFICATION FairSpec
INVARIANTS LinesAreItsOwn
PROPERTIES SessionsKept EventuallyCaptured EventuallyTold
