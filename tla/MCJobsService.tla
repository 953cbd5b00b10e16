---------------------------- MODULE MCJobsService ----------------------------
(* Instances of JobsService for TLC. *)
EXTENDS JobsService, TLC

CONSTANTS buyer, p1, p2, treasury, j1, j2

Symmetric == Permutations({p1, p2}) \cup Permutations({j1, j2})

\* A commission of one half is exact on even prices, and on the rest of an
\* odd lock it is never asked for.
Half == [a \in 0 .. MaxFunds |-> a \div 2]

EvenBids == [p \in Providers |-> 2]

Exact == {0}
Drift == {-1, 0}
=============================================================================
