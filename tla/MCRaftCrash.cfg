SPECIFICATION ScheduledSpec
CONSTANTS
    Server = {s1, s2, s3}
    Value = {1, 2}
    Nil = Nil
    MaxTerm = 2
    MaxIndex = 2
    MaxInFlight = 2
    Restartable = {s1, s2, s3}
    SnapshotAt = {}
    Candidates = {s1}
    Successors = {s2}
    Readers = {}
    Followers = {s1, s2}
    PerTerm = 2
VIEW LiveState
INVARIANTS ElectionSafety ElectionInv CommittedIsDecided
PROPERTIES VoteOncePerTerm CommitNeverRetreats
CHECK_DEADLOCK FALSE
