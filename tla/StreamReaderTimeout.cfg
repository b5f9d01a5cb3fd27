SPECIFICATION Spec
CONSTANTS
  Msgs <- mc_Msgs
  ZeroLength <- mc_ZeroLength
  Undecodable <- mc_Undecodable
  TooBig <- mc_TooBig
  MaxFrames = 2
  MaxRecvs = 2
INVARIANTS
  TimeoutMeansNoFrame
