\* Deadlock is not checked: a device that has used up its invitations may idle.
SPECIFICATION FairSpec
CONSTANTS
    SEC = 2
    FirstSec <- MCFirstSec
    PartSecs = 3
    FlashSecs = 9
    Factory = Factory
    Blank = Blank
    Junk = Junk
    None = None
    Images = {i1, i2}
    Sizes = {5, 7}
    MaxLen = 2
    MaxPending = 2
INVARIANTS
    FinishedIsIntact
    RunningIsIntact
    OutsideIsUntouched
    WriterIsHeld
PROPERTY
    DeliveredIsStarted
CHECK_DEADLOCK FALSE
