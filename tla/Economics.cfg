SPECIFICATION Spec
CONSTANTS
  p1 = p1
  p2 = p2
  p3 = p3
  j1 = j1
  j2 = j2
  Jobs = {j1, j2}
  Providers = {p1, p2, p3}
  Funds <- OnePays
  RequireStake = FALSE
  Prices = {0, 1}
  BaseStake = 1
  Delay = 1
  Quarantine = 2
  MinDissents = 1
  Rate = 50
  Window = 2
  MaxTime = 3
SYMMETRY Symmetric
INVARIANT
  TypeOK
  MoneyStays
  BondStays
PROPERTY
  QuarantineLasts
