CONSTANTS
    Files = {"f", "g"}
    Ids = {1, 2, 3, 4}
    MaxIntrusions = 2
    MaxFaults = 2
    Trees <- MCTrees
    Jobs <- MCJobs
    MaxFiles = 2
    MaxHunks = 2
    MaxBody = 4
    MaxLines = 5
    Path = {1, 2}
    Content = {"gone", "a", "big"}
    NoFile = "gone"
    Size <- MCSize
    MaxBytes = 1
    Payload = {0}
    Threshold = 1
    Call = {"c"}
    Ops = {"edit", "read", "run", "sync"}
    MaxBatch = 2
    Faults = {"fetch", "transient"}
    MaxGen = 2
    MaxForeign = 1
    None = "none"
SPECIFICATION MCSpec
INVARIANTS
    ProgressIsTrue
    PlacedRightly
    CleanMirrorsRemote
    BytesAccounted
PROPERTY NoStaleOverwrite
CHECK_DEADLOCK FALSE
