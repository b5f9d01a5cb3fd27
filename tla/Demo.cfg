SPECIFICATION FairSpec
CONSTANTS
  Present <- mc_Present
  YAMLs <- mc_YAMLs
  Uploads <- mc_Uploads
  Downloads <- mc_Downloads
INVARIANTS
  DownloadsAreUploads
  ExitZeroDrains
  CommandExact
PROPERTIES
  WaitReturns
  ProgramsEnd
