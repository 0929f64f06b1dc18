SPECIFICATION Spec
CHECK_DEADLOCK FALSE
CONSTRAINT OnCourse
SYMMETRY Symmetry
CONSTANTS
    NShards = 2
    Gid = {1, 2}
    Value = {x}
    Nil = Nil
    Ctrler = {a, b}
    Caller = {a, b}
    MaxNum = 3
    MaxLate = 1
    LostReplies = TRUE
    Client = {}
    Key = {}
    MaxVersion = 0
INVARIANTS OneOwner ConfigMoved OneAhead RebalanceMinimal
