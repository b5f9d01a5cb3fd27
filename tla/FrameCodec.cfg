SPECIFICATION CodecFairSpec
CONSTANTS
  Base = 2
  LenBytes = 2
  Payloads <- mc_Payloads
  PayloadLimits <- mc_Limits
  MaxFrames = 3
INVARIANTS
  RoundTrip
  ErrorsExact
PROPERTIES
  ReaderStops
