SPECIFICATION ScheduledSpec
CONSTANTS
    Server = {s1, s2, s3}
    Value = {1, 2, 3, 4}
    Nil = Nil
    MaxTerm = 4
    MaxIndex = 2
    MaxInFlight = 1
    Restartable = {}
    SnapshotAt = {}
    Candidates = {s1, s2}
    Successors = {}
    Readers = {}
    Followers = {s1, s2, s3}
    PerTerm = 1
SYMMETRY Symmetry
VIEW LiveState
INVARIANTS LeaderCompleteness LogMatching
CHECK_DEADLOCK FALSE
