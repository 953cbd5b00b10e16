SPECIFICATION Spec
CONSTANTS
  v1 = v1
  v2 = v2
  v3 = v3
  a = a
  b = b
  Validators = {v1, v2, v3}
  Faulty = {v3}
  Stake <- MCStake
  Blocks = {a, b}
  NoBlock = NoBlock
  Proposer <- MCProposer
  Forged <- MCForged
  Loopback = FALSE
  MaxHeight = 2
  MaxRound = 1
SYMMETRY Symmetry
INVARIANTS
  TypeOK
  
  
 
CHECK_DEADLOCK FALSE
