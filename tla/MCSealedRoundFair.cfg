SPECIFICATION FairRoundSpec
CONSTANTS
  p1 = p1
  p2 = p2
  B1 = B1
  x = x
  e1 = e1
  e2 = e2
  r1 = r1
  NoKey = NoKey
  System = System
  NoRound = NoRound
  NoBatch = NoBatch
  NoExec = NoExec
  Authors = {p1, p2}
  Participants = {p1, p2}
  Batches = {B1}
  Payloads = {x}
  Execs = {e1, e2}
  Rounds = {r1}
  Configs <- AllPlans
  Runs <- FairRuns
  Keys <- MCKeys
  MaxTime = 1
  MaxCrashes = 0
  ClaimsExpire = TRUE
PROPERTIES ClaimReleased ExecutionEnds
CHECK_DEADLOCK FALSE
