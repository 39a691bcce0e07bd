SPECIFICATION HostSpec
CONSTANTS
  Parts = {"setup"}
  d1 = d1
  d2 = d2
  d3 = d3
  NoDaemon = NoDaemon
  Daemons = {d1, d2, d3}
  TtlMs = 3
  HeartbeatMs = 1
  Slack = 1
  MaxDelay = 3
  MaxTime = 10
  s1 = s1
  s2 = s2
  e1 = e1
  e2 = e2
  e3 = e3
  k1 = k1
  b1 = b1
  b2 = b2
  c1 = c1
  c2 = c2
  NoKey = NoKey
  NoEvent = NoEvent
  NoConnection = NoConnection
  NoInput = NoInput
  Sessions = {s1, s2}
  Ids = {e1, e2, e3}
  Keys = {k1}
  Bodies = {b1, b2}
  Connections = {c1, c2}
  PersistMayFail = TRUE
  q1 = q1
  q2 = q2
  v1 = v1
  v2 = v2
  None = None
  Cut = Cut
  Calls = {q1, q2}
  Values = {v1, v2}
  Logs = {"memory", "json", "sqlite"}
  AuditIds = {1, 2, 3, 4}
  LastTime = 1
  MaxEntries = 2
  MaxFiles = 3
SYMMETRY MCSymmetry
INVARIANTS SetupInUse
