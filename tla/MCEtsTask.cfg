\* Deadlock is not checked: the device idles when nothing is posted any more.
SPECIFICATION FairSpec
CONSTANTS
    TaskPrios = {1, 2}
    IsrPrios = {3}
    Mask = {2, 3}
    Size <- MCSize
    MaxPosts = 3
    MaxDepth = 3
INVARIANTS
    BitTellsCount
PROPERTY
    QueuesAreFifo
    AcceptedIsHandled
CHECK_DEADLOCK FALSE
