SPECIFICATION Spec
CONSTANTS
  TenantIDs = {"acme", "globex"}
  DayLimit = 106752
  Editors = {"e1", "e2"}
  Runs = {"r1", "r2"}
  Foreign = Foreign
  Generations = 2

  
  
PROPERTIES
  
  EnsuredSetIsWhole
CHECK_DEADLOCK FALSE
