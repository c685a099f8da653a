SPECIFICATION AdminSpec
CONSTANTS
  n1 = n1  n2 = n2  n3 = n3  b1 = b1  b2 = b2  p = p  q = q
  a1 = a1  a2 = a2  s1 = s1  m1 = m1  k1 = k1  k2 = k2
  Node = {n1, n2, n3}
  Building = {b1, b2}
  Installs = {2, 3}
  BuildingOf <- MCBuildingOf
  NNMin = 2  NNAssignMin = 2  NNMax = 4
  Vanity = {Null}
  Beside <- MCBeside
  Link = {1, 2, 3}
  From <- MCFrom  To <- MCTo
  Los = {1, 2}
  LosFrom <- MCLosFrom  LosTo <- MCLosTo
  Ap = {a1, a2}  ActiveAp = {a1}  ApId <- MCApId
  ApFrom <- MCApFrom  ApTo <- MCApTo
  LiveSector = {s1}  SectorNode <- MCSectorNode
  PlaceOf <- MCPlaceOf  HeightOf <- MCHeightOf  SiteOf <- MCSiteOf
  NodeType <- MCNodeType  LinkType <- MCLinkType
  Day = 4  Offset = 1  Buckets = 3
  RequestedAt <- MCRequestedAt  InstalledOn <- MCInstalledOn
  Nows <- MCNows  Spans = {0, 1, 4}
  Member = {m1}  InstallsOf <- MCInstallsOf
  Selections <- MCSelections
  Ids = {k1, k2}
  MaxChanges = 1  MaxActs = 2
  Start <- MCStart
  Null = Null
SYMMETRY MCSymmetry
CHECK_DEADLOCK FALSE
INVARIANTS EveryNumberShown EntriesApart EndsOnTheMap OneLinkPerPair EveryPlaceMarked OneLinePerPair SearchLeadsHome OneMeaning GraphSound ClickStaysOnMap PanelAndMapAgree
PROPERTY RecycledWithNode
