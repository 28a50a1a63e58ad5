SPECIFICATION Spec
CONSTANTS
    Readers = {r1}
    None = None  Empty = Empty  Mixed = Mixed  Partial = Partial  Unread = Unread
    MaxVersion = 2  MaxOpens = 2  MaxDeaths = 2
    IoErrors = FALSE
PROPERTY FailureKeepsJournal
