SPECIFICATION FairSpec
CONSTANTS
  Msgs <- mc_Msgs
  Unmarshalable <- mc_Unmarshalable
  ZeroLength <- mc_ZeroLength
  MaxCalls = 3
  MaxBeats = 2
INVARIANTS
  TypeOK
  FramesContiguous
  SilentAfterTerminal
  NothingAcceptedAfterClose
  WireMatchesCalls
PROPERTIES
  ImplementsFrameLog
  NoWriteAfterReturn
  CallsReturn
