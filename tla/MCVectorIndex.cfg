SPECIFICATION Spec
CONSTANTS
  c1 = c1
  c2 = c2
  Clients = {c1, c2}
  Ids = {1, 2, 3}
  Points <- MCPoints
  Misfit = Misfit
  Weights = {0}
  Configs <- MCConfigs
  MaxLayer = 1
  Capacity = 2
  MaxCluster = 1
  Ks = {2}
  MaxInserts = 3
  MaxRemoves = 1
  MaxStops = 1
  MaxOverlapping = 2
INVARIANT TypeOK
INVARIANT GraphSound
INVARIANT MerkleSound
INVARIANT SearchSound
INVARIANT SmallGraphComplete
INVARIANT IndexMatchesLog
PROPERTY MergeConserves
PROPERTY ReopenAnswers
CHECK_DEADLOCK FALSE
SYMMETRY MCSymmetry
