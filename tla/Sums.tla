-------------------------------- MODULE Sums --------------------------------
(***************************************************************************)
(* Finite sums of natural-valued functions, as the cardinality of a set of *)
(* units: an index x contributes the units <<x, 1>> .. <<x, f[x]>>.  Stated *)
(* this way a sum has the laws of cardinality, and the ledgers built on it *)
(* can be proved about without induction over the summands.                *)
(***************************************************************************)
EXTENDS Naturals, FiniteSets

Units(f, S) == UNION {{x} \X (1 .. f[x]) : x \in S}

\* What the Python code writes sum(f(x) for x in S).
SumOver(f, S) == Cardinality(Units(f, S))
=============================================================================
