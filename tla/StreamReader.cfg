SPECIFICATION FairSpec
CONSTANTS
  Msgs <- mc_Msgs
  ZeroLength <- mc_ZeroLength
  Undecodable <- mc_Undecodable
  TooBig <- mc_TooBig
  MaxFrames = 3
  MaxRecvs = 4
INVARIANTS
  DeliveredInOrder
  ResultsExact
PROPERTIES
  ImplementsChannel
  RecvReturns
