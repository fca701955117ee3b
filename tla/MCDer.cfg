\* Deadlock is not checked: the bytes have been read and MaxSteps is used up.
SPECIFICATION Spec
CONSTANTS
  NULL = NULL
  X509_MAX_NAME_ATTRIBUTES = 20
  Numbers = {0, 128, 255, 256, 65536}
  Oids <- MCOids
  BitSets <- MCBitSets
  Lengths = {0, 127, 128, 256}
  DamagedBytes = {0, 1, 4, 5, 31, 127, 128, 129, 130, 132, 133, 255}
  MaxItems = 2
  MaxSteps = 3
INVARIANTS ReadsBack CutIsNoticed OneEncoding
CHECK_DEADLOCK FALSE
