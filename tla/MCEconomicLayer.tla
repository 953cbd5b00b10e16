--------------------------- MODULE MCEconomicLayer ---------------------------
(* Instances of EconomicLayer for TLC. *)
EXTENDS EconomicLayer, TLC

CONSTANTS p1, p2, p3, j1, j2

\* One provider brings money, the others have what they are awarded.
OnePays == [p \in {p1, p2, p3} |-> IF p = p1 THEN 2 ELSE 0]

Symmetric == Permutations({p2, p3}) \cup Permutations({j1, j2})
=============================================================================
