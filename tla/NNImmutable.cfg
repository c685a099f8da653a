SPECIFICATION Spec
CONSTANTS
  f1 = f1  f2 = f2  a1 = a1  a2 = a2  e1 = e1
  n1 = n1  n2 = n2  n3 = n3  b1 = b1  b2 = b2
  Form = {}
  Admin = {a1}
  Editor = {}
  Node = {n1}
  Building = {b1, b2}
  Installs = {2, 5}
  BuildingOf <- MCBuildingOf
  NNMin = 1  NNAssignMin = 2  NNMax = 3
  Vanity = {Null, 2}
  Statuses = {"REQUEST_RECEIVED"}
  Start <- MCStart
  Null = Null  NoProc = NoProc
PROPERTY NumbersImmutable
