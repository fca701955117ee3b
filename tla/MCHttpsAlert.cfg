\* Deadlock is not checked: every connection may have ended.
SPECIFICATION Spec
CONSTANTS
    Conns = {c1}
    Answers <- MCTwoRecords
    L = 2
    MaxSeg = 2
INVARIANT
    AlertIsReported
CHECK_DEADLOCK FALSE
