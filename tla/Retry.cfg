SPECIFICATION FairSpec
CONSTANTS
  Errors <- mc_Errors
  Policies <- mc_Policies
  BackOffs <- mc_BackOffs
  MaxDuration = 7
  MaxTime = 5
  MaxOps = 4
INVARIANTS
  AttemptsExact
  SleepsInBounds
PROPERTIES
  NoAttemptAfterCancel
  ServerDelayRespected
  CancelReturns
