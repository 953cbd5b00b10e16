SPECIFICATION Spec
CONSTANTS
  w1 = w1
  w2 = w2
  d1 = d1
  d2 = d2
  c1 = c1
  c2 = c2
  Wallets = {w1, w2}
  Opening <- Rich
  Requests <- Keyed
  Withdrawn = {1}
  Wids = {d1}
  Callers = {c1}
  AutoPayout = FALSE
  GapCrashes = {"deposit", "request", "cancel"}
  MaxCharges = 1
  MaxTorn = 1
INVARIANT
  NothingTwiceNothingLost
