\* Deadlock is not checked: every connection may have ended.
SPECIFICATION Spec
CONSTANTS
    Conns = {c1, c2}
    Answers <- MCAnswers
    L = 2
    MaxSeg = 4
SYMMETRY Symmetric
INVARIANTS
    LibraryStaysUp
    AppSeesPrefix
    NothingIsLost
CHECK_DEADLOCK FALSE
