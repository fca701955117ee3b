\* Deadlock is not checked: the chain has been judged and no response follows.
SPECIFICATION Spec
CONSTANTS
  NULL = NULL
  X509_MAX_NAME_ATTRIBUTES = 20
  World <- MCWorld
  Issuers <- MCIssuers
  ParamSets <- MCParamSets
  Responses <- MCResponses
  Times = {1999, 2026, 2049, 2055, 2100}
  GoodPaths <- MCGoodPaths
  Behind <- MCBehind
  Dedicated <- MCDedicated
  MaxSets = 2
  MaxChain = 3
  MaxStatus = 2
INVARIANTS AcceptedIsVouched AcceptedMeetsLimits GoodIsAccepted StatusIsVouched
CHECK_DEADLOCK FALSE
