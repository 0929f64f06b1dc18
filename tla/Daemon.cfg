SPECIFICATION Spec
CHECK_DEADLOCK FALSE
CONSTANTS
    End = {e1}
    PerEnd = 1
    ServerEnd = {e1}
    Out = {o1, o2}
    MaxDaemon = 2
INVARIANTS AckSaved SentSaved
PROPERTIES EventuallyReturns EventuallyAnswered
