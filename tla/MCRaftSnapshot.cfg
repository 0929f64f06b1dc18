SPECIFICATION ScheduledSpec
CONSTANTS
    Server = {s1, s2, s3}
    Value = {1, 2}
    Nil = Nil
    MaxTerm = 2
    MaxIndex = 2
    MaxInFlight = 1
    Restartable = {s1}
    SnapshotAt = {1, 2}
    Candidates = {s1}
    Successors = {}
    Readers = {s1, s2}
    Followers = {s1, s2, s3}
    PerTerm = 1
SYMMETRY Symmetry
VIEW LiveState
INVARIANTS TypeOK AppliesInOrder NoPanic
PROPERTIES ImplementsReplicatedLog
CHECK_DEADLOCK FALSE
