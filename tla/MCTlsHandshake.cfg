\* Deadlock is not checked: both ends may have failed, or have nothing left to send.
SPECIFICATION FairSpec
CONSTANTS
  NULL = NULL
  Scenarios <- AllScenarios
INVARIANTS ClientAgrees ServerAgrees NoDowngrade ServerIsAuthenticated ClientIsAuthenticated DataInOrder HonestNeverFails
PROPERTY HandshakeCompletes
CHECK_DEADLOCK FALSE
