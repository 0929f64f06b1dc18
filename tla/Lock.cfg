SPECIFICATION Spec
CONSTANTS
    Client = {c1, c2}
    Key = {l1}
    lockname = l1
    Available = Available
    Value = {c1, c2, Available}
    Nil = Nil
    MaxVersion = 4
    MaxLate = 2
INVARIANTS LockTypeOK MutualExclusion ReleaseFrees
PROPERTY ImplementsKVModel
CHECK_DEADLOCK FALSE
