SPECIFICATION Spec
CONSTANTS
  a1 = a1
  a2 = a2
  b1 = b1
  b2 = b2
  p1 = p1
  k1 = k1
  d1 = d1
  NoKey = NoKey
  NoStream = NoStream
  Never = Never
  Streams = {a1, a2}
  Requests = {b1, b2}
  Participants = {p1}
  MaxStages = 1
  MaxEvents = 4
  Accesses = {a1, a2}
  DeliveryKeys = {k1}
  Ttl = 1
  MaxClock = 3
  MaxServes = 1
  MaxRecords = 7
  Tokens = {b1, b2}
  Data = {d1}
  MaxChunks = 2
  Runs = {a1, a2}
  MaxUpdates = 2
  Scenarios = {"follow", "resources", "submit", "runs"}
  MaxRestarts = 1
SYMMETRY MCSymmetry
CHECK_DEADLOCK FALSE
INVARIANTS PublishedWhenQuiet RedactedUntilReveal NoGapBehindStream ListenersKept RevocationRepairable CommittedIsRecorded RunsSurvive
PROPERTIES AccessAudited
