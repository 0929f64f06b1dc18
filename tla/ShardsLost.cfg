SPECIFICATION Spec
CHECK_DEADLOCK FALSE
CONSTANTS
    NShards = 2
    Gid = {1, 2}
    Value = {x}
    Nil = Nil
    Ctrler = {a, b}
    Caller = {a}
    MaxNum = 3
    MaxLate = 0
    LostReplies = FALSE
    Client = {c1}
    Key = {0}
    MaxVersion = 0
INVARIANT AcknowledgedKept
