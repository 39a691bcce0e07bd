SPECIFICATION RunSpec
CONSTANTS
  a1 = a1
  g1 = g1
  g2 = g2
  m1 = m1
  c1 = c1
  c2 = c2
  n1 = n1
  o1 = o1
  k1 = k1
  w1 = w1
  NoKey = NoKey
  System = System
  Divergence = Divergence
  Initial = Initial
  Another = Another
  Authors = {a1}
  Generators = {g1, g2}
  Drafts <- MCDrafts
  Extracted <- RunDrafts
  Repaired <- RunRepairs
  Processes = {w1}
  Keys = {k1}
  Starts <- MCStarts
  MaxEvents = 6
INVARIANTS ConclusionsGrounded OutcomeCoversFrontier RepeatedCallReplays  SilentOnlyWhenDone RoundsKeepTheirMaterial
SYMMETRY Symmetric
CHECK_DEADLOCK FALSE
