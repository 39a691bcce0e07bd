SPECIFICATION RoundSpec
CONSTANTS
  p1 = p1
  p2 = p2
  B1 = B1
  B2 = B2
  x = x
  y = y
  e1 = e1
  e2 = e2
  r1 = r1
  NoKey = NoKey
  System = System
  NoRound = NoRound
  NoBatch = NoBatch
  NoExec = NoExec
  Authors = {p1, p2}
  Participants = {p1, p2}
  Batches = {B1, B2}
  Payloads = {x, y}
  Execs = {e1, e2}
  Rounds = {r1}
  Configs <- AllPlans
  Runs <- ReclaimRuns
  Keys <- MCKeys
  MaxTime = 0
  MaxCrashes = 1
  ClaimsExpire = TRUE
SYMMETRY MCSymmetry
INVARIANTS AnsweredRoundReveals
CHECK_DEADLOCK FALSE
