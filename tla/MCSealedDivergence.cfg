SPECIFICATION Spec
CONSTANTS
  a1 = a1
  a2 = a2
  B1 = B1
  B2 = B2
  p1 = p1
  p2 = p2
  k1 = k1
  NoKey = NoKey
  System = System
  Authors = {a1, a2}
  Batches = {B1, B2}
  Payloads = {p1, p2}
  Keys = {k1}
  Configs <- MCConfigs
  MaxTime = 1
SYMMETRY MCSymmetry
INVARIANTS OneContributionPerAuthor RevealListsBatch RevealJustified
PROPERTIES ExposureSealsBatch
CHECK_DEADLOCK FALSE
