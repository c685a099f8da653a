SPECIFICATION Spec
CONSTANTS
  f1 = f1  f2 = f2  r1 = r1  s1 = s1  s2 = s2  s3 = s3  n1 = n1
  a1 = a1  a2 = a2  x1 = x1  e1 = e1  e2 = e2  u1 = u1
  Form = {f1, f2}
  Replay = {r1}
  Sub = {s1, s2}
  Email = {e1, e2}  Address = {a1, a2}  Unit = {u1}  BinOf <- MCBinOf
  Node = {n1}
  Start <- MCStart
  MaxFaults = 1  MaxRuns = 1
  Null = Null  NoProc = NoProc
SYMMETRY MCSymmetry
CHECK_DEADLOCK FALSE
INVARIANTS NothingTwice InstallsKeepTheirRows NodesShared Replayable AnswerTrue
