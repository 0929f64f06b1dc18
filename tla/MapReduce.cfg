CHECK_DEADLOCK FALSE
SPECIFICATION Spec
CONSTANTS
    NMap = 2
    NReduce = 2
    Worker = {w1, w2}
    Mortal = {w2}
    Extra = 1
INVARIANTS TypeOK QueueHasRoom CountsExact OutputComplete
PROPERTY EventuallyDone
