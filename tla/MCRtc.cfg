SPECIFICATION RtcSpec
CONSTANTS
    Words <- MCWords
    Values = {Erased, a, b}
    Erased = Erased
    Garbage = Garbage
    MaxWords = 3
SYMMETRY Symmetric
INVARIANTS
    SettingsSurvive
    NoMixture
