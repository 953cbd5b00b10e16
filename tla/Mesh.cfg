SPECIFICATION MeshSpec
CONSTANTS
  w1 = w1
  w2 = w2
  a = a
  b = b
  c = c
  Tasks = {"t1"}
  Workers = {w1, w2}
  Outputs = {"x", "y"}
  Redundancy = 2
  BrowserJobs = {"j1", "j2"}
  Deliveries = {"x", "y", "empty"}
  PickupLimit = 1
  Notices = {"n1"}
  Delays = 2
  NumChunks = 2
  Peers = {a, b, c}
  Home <- OwnHome
  Stale = 1
  Fanout = 1
  Seeded = {a, c}
  Mortal = {c}
INVARIANTS MeshTypeOK OneAnswer AssembledIsSent AcceptedInTime
PROPERTIES CallersAnswered  GhostsFade
CHECK_DEADLOCK FALSE
