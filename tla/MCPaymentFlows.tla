--------------------------- MODULE MCPaymentFlows ---------------------------
(* Instances of PaymentFlows for TLC. *)
EXTENDS PaymentFlows, TLC

CONSTANTS w1, w2, d1, d2, c1, c2

TwoCallers == Permutations({c1, c2}) \cup Permutations({d1, d2})

Rich == [w \in Wallets |-> IF w = w1 THEN 2 ELSE 0]

\* A keyed deposit that is retried, and one without a key.
Keyed    == {[key |-> "k1", wallet |-> w1, amount |-> 1]}
KeyedAndNot == Keyed \cup {[key |-> NoKey, wallet |-> w2, amount |-> 2]}
=============================================================================
