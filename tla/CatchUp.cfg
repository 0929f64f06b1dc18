SPECIFICATION Spec
CONSTANTS
    Value = {v1}
    Nil = Nil
    MaxTerm = 3
    MaxIndex = 4
PROPERTY EventuallyReconciled
CHECK_DEADLOCK FALSE
