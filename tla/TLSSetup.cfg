SPECIFICATION Spec
CONSTANTS
  MaxFaults = 1
  MaxCalls = 2
INVARIANTS
  FilesDecide
  
  
PROPERTIES
  BuiltOnce
