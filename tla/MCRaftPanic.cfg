SPECIFICATION ScheduledSpec
CONSTANTS
    Server = {s1, s2, s3}
    Value = {1, 2}
    Nil = Nil
    MaxTerm = 2
    MaxIndex = 1
    MaxInFlight = 2
    Restartable = {}
    SnapshotAt = {1}
    Candidates = {s1}
    Successors = {s2}
    Readers = {s2}
    Followers = {s1, s2, s3}
    PerTerm = 1
SYMMETRY Symmetry
VIEW LiveState
INVARIANTS NoPanic
CHECK_DEADLOCK FALSE
