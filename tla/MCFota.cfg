\* Deadlock is not checked: a device that has used up its images may idle.
SPECIFICATION Spec
CONSTANTS
    SEC = 2
    FirstSec <- MCFirstSec
    PartSecs = 3
    FlashSecs = 9
    Factory = Factory
    Blank = Blank
    Junk = Junk
    None = None
    Images = {i1, i2}
    Sizes = {5, 7}
    HttpLen = 2
    MaxLen = 3
SYMMETRY Symmetric
INVARIANTS
    FinishedIsIntact
    RunningIsIntact
    OutsideIsUntouched
CHECK_DEADLOCK FALSE
