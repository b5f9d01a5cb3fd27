SPECIFICATION LogFairSpec
CONSTANTS
  Writers = {w1, w2}
  Messages <- mc_Messages
  NL = "nl"
  MaxToken = 3
  MaxWrites = 3
INVARIANTS
  NothingLost
  CloseFlushes
PROPERTIES
  NobodyStuck
