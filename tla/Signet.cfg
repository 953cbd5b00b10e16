SPECIFICATION Spec
CONSTANTS
  s1 = s1
  s2 = s2
  p1 = p1
  p2 = p2
  Calls = {s1, p1, p2}
  Streams = {s1}
  Genesis = Genesis
  Est = 3
  Cheap = 1
  Actual = 2
  Cap = 8
  CleanStops = FALSE
SYMMETRY TwoPlain
INVARIANT
  TypeOK
  BreaksAreHistory
  ChargeHasReceipt
PROPERTY
  BreakStays
