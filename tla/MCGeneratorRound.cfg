SPECIFICATION RoundSpec
CONSTANTS
  g1 = g1
  g2 = g2
  c1 = c1
  c2 = c2
  n1 = n1
  n2 = n2
  o1 = o1
  m1 = m1
  a = a
  h = h
  e1 = e1
  e2 = e2
  NoKey = NoKey
  System = System
  NoExec = NoExec
  NoSource = NoSource
  Authors = {g1, g2, a, h}
  Drafts <- MCDrafts
  Processes = {}
  Keys = {}
  MaxEvents = 1
  Generators = {g1, g2}
  Author = a
  Execs = {e1, e2}
  Scenarios <- MCScenarios
  DraftOf <- MCDraftOf
  MaxCrashes = 1
  StoreMayFail = TRUE
  ClaimsExpire = TRUE
SYMMETRY MCSymmetry
INVARIANTS RecordMatchesLedger NoDuplicateWork SameAnswerReplays
PROPERTIES AppendedByOwner AcceptanceAfterReview
CHECK_DEADLOCK FALSE
