SPECIFICATION FairSpec
CONSTANTS
    Conns = {c1, c2}
    Cap = 2
    PageLines = 4
    RtcLines = 2
    Parts = {"/", "ssid", "reset", "rtc", "setup", "?a", "?b", "*"}
    Values = {1, 2}
    LateNodes <- MCLateNodes
    Requests <- MCRequests
    MaxReq = 2
INVARIANTS
    LongestPrefixWins
    ChunksInOrder
    HangsUpAfterLastChunk
PROPERTY
    SecondRunKeepsFile
    RequestsEnd
