SPECIFICATION FairSpec
CONSTANTS
  Codes <- mc_Codes
  InfraCodes <- mc_InfraCodes
INVARIANTS
  ErrorsTold
  SuccessIsGenuine
  RetriesTransient
PROPERTIES
  CancelEnds
