SPECIFICATION Spec
CONSTANTS
  Msgs <- mc_Msgs
  Unmarshalable <- mc_Unmarshalable
  ZeroLength <- mc_ZeroLength
  MaxCalls = 1
  MaxBeats = 1
INVARIANTS
  NeverOutlivesRequest
