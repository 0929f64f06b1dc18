SPECIFICATION Spec
CHECK_DEADLOCK FALSE
CONSTRAINTS OnCourse VersionsKnown
SYMMETRY Symmetry
CONSTANTS
    NServers = 2
    Client = {c1, c2}
    Key = {k}
    Value = {x}
    Nil = Nil
    MaxVersion = 0
    MaxLog = 2
    MaxId = 1
    MaxCrash = 1
INVARIANTS ReplicasAgree OwnAnswer
PROPERTY ImplementsKVModel
