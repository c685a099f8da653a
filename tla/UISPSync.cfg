SPECIFICATION Spec
CONSTANTS
  h1 = h1  o1 = o1  x1 = x1  x2 = x2  d1 = d1  d2 = d2  l1 = l1  l2 = l2  l3 = l3  b1 = b1  b2 = b2
  Importer = {h1, o1}
  Target <- MCTarget
  NN = {x1, x2}
  UDev = {d1, d2}  ULink = {l1, l2, l3}
  Ends <- MCEnds  BuildingOf <- MCBuildingOf
  Start <- MCStart
  Grace = 1
  MaxDay = 2  MaxChanges = 1  MaxRuns = 2
  Null = Null
CHECK_DEADLOCK FALSE
INVARIANTS OneRow Mirrored SightsFollow ReportedOnce ActiveNotAbandoned
