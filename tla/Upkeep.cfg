SPECIFICATION Spec
CONSTANTS
  b1 = b1  d1 = d1  h1 = h1  f1 = f1  f2 = f2
  Worker = {w1, w2}  Request = {q1}
  Row = {b1, d1, h1}  Tables <- MCTables
  File = {f1, f2}
  Keys <- MCKeys  FilesOf <- MCFilesOf  BuildingOf <- MCBuildingOf
  Start <- MCStart
  MaxQueue = 1  MaxFails = 1  MaxEdits = 1  MaxResets = 1
  Null = Null
CHECK_DEADLOCK FALSE
INVARIANTS SyncsKeep 
PROPERTIES PanoramasArrive MaintenanceEnds
