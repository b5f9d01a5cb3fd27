SPECIFICATION Spec
CONSTANTS
  NumPages = 3
  Endpoints <- mc_Endpoints
  MaxFetches = 5
  MaxCalls = 5
INVARIANTS
  PagesExact
PROPERTIES
  DoneForGood
