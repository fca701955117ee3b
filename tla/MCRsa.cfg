SPECIFICATION Spec
CONSTANTS
    DIGIT_BIT = 2
    CHAR_BIT = 1
    Registers = {1, 2}
    Strings <- MCStrings
    MaxValue = 20
    KeyPairs <- MCKeyPairs
    Damages = {"none", "tag", "short", "long", "type", "version"}
    Shorts = {0, 1}
INVARIANTS ArithmeticIsExact RsaRoundTrips
