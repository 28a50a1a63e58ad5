SPECIFICATION Spec
CONSTANTS
    absent = absent  broken = broken  wd = wd  a = a  c = c
    x = x  y = y  z = z  blob = blob
    e1 = e1  w1 = w1  r1 = r1  b1 = b1  w2 = w2
    None = absent
    Unreadable = broken
    ContextLimit = 2
    Sessions = {1, 2, 3}
    ParentOf <- MCParentOf
    CwdOf <- MCCwdOf
    Transcripts <- MCTranscripts
    Sidecars = {blob}
    TextOf <- MCTextOf
    MaxRewrites <- MCMaxRewrites
    Version = v1
    OldVersion = v0
    v0 = v0  v1 = v1
INVARIANTS
    MergeKeepsStreams SkipIsSafe LabelsMatchTheFiles EachProposalOnce
PROPERTIES ContextIsStable
