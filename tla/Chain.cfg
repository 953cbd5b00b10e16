SPECIFICATION DAOSpec
CONSTANTS
  n1 = n1
  n2 = n2
  w1 = w1
  w2 = w2
  alice = alice
  bob = bob
  Nodes = {n1, n2}
  Threads = {w1}
  Accounts = {alice, bob}
  Txs <- AllKinds
  Offered <- Split
  Wallet <- OneWallet
  Difficulties <- Mixed
  MaxBlocks = 3
  MaxPool = 1
  MaxRestarts = 1
  Host = n1
  Quorum = 20
  MaxExecuted = 1
INVARIANTS
  DAOTypeOK
  
  
  ApprovedByMajority
 
CHECK_DEADLOCK FALSE
