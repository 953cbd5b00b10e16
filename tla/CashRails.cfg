SPECIFICATION Spec
CONSTANTS
  w1 = w1
  w2 = w2
  d1 = d1
  d2 = d2
  c1 = c1
  c2 = c2
  Wallets = {w1, w2}
  Opening <- Rich
  Requests <- KeyedAndNot
  Withdrawn = {1}
  Wids = {d1, d2}
  Callers = {c1, c2}
  AutoPayout = TRUE
  GapCrashes = {"deposit", "request", "cancel"}
  MaxCharges = 2
  MaxTorn = 1
SYMMETRY TwoCallers
INVARIANT
  TypeOK
  BooksBalance
  
PROPERTY
  WithdrawalsMoveOn
