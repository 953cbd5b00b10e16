--------------------------- MODULE MCGovernanceDAO ---------------------------
(***************************************************************************)
(* An instance of GovernanceDAO, and of the ledger under it, for TLC: two  *)
(* nodes, a mint, two transfers of one sender and a payment that only the  *)
(* node that signed it accepts.                                            *)
(***************************************************************************)
EXTENDS GovernanceDAO

CONSTANTS n1, n2, alice, bob, w1, w2

Tx(k, s, r, amt, f, nc) ==
  [kind |-> k, sender |-> s, recipient |-> r, amount |-> amt, fee |-> f,
   nonce |-> nc]

Mint == Tx("mint", "COINBASE", alice, 3, 0, 0)
Transfer(nc) == Tx("transfer", alice, bob, 1, 1, nc)
Payment == Tx("payment", alice, bob, 1, 0, 0)

AllKinds == {Mint, Transfer(0), Transfer(1), Payment}

\* The transfer reaches both nodes; the second node pays a peer of its own.
Split == [n \in Nodes |-> IF n = n1 THEN {Mint, Transfer(0)}
                           ELSE {Transfer(0), Transfer(1), Payment}]

\* The second node mines the harder blocks.
Mixed == [n \in Nodes |-> IF n = n1 THEN {1} ELSE {1, 2}]
Easy == [n \in Nodes |-> {1}]

OneWallet == [n \in Nodes |-> bob]
=============================================================================
