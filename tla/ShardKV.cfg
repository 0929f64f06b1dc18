SPECIFICATION Spec
CHECK_DEADLOCK FALSE
CONSTRAINTS OnCourse VersionsKnown
CONSTANTS
    NShards = 2
    Gid = {1, 2}
    Value = {x}
    Nil = Nil
    Ctrler = {a}
    Caller = {a}
    MaxNum = 3
    MaxLate = 1
    LostReplies = FALSE
    Client = {c1}
    Key = {0}
    MaxVersion = 1
INVARIANTS TypeOK NothingLost
PROPERTY ImplementsKVModel
