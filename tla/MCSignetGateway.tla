--------------------------- MODULE MCSignetGateway ---------------------------
(* Instances of SignetGateway for TLC. *)
EXTENDS SignetGateway, TLC

CONSTANTS s1, s2, p1, p2   \* two streams and two plain calls

TwoPlain == Permutations({p1, p2})
=============================================================================
