SPECIFICATION Spec
CONSTANTS
  buyer = buyer
  p1 = p1
  p2 = p2
  treasury = treasury
  j1 = j1
  j2 = j2
  NoBuyer = NoBuyer
  Jobs = {j1, j2}
  Wallets = {buyer, p1, p2, treasury}
  Treasury = treasury
  Providers = {p1, p2}
  Buyers = {buyer, NoBuyer}
  Bid <- EvenBids
  Rounding <- Exact
  Commission <- Half
  Cash = {1, 4}
  MaxFunds = 4
INVARIANT
  FailedIsRefunded
