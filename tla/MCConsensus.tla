----------------------------- MODULE MCConsensus -----------------------------
(***************************************************************************)
(* Instances of Consensus for TLC: two correct validators and one faulty   *)
(* one, with stakes 3, 3 and 2 (the faulty stake is under a third).       *)
(***************************************************************************)
EXTENDS Consensus, TLC

CONSTANTS v1, v2, v3, a, b

MCStake == [v \in Validators |-> IF v = v3 THEN 2 ELSE 3]
EqualStake == [v \in Validators |-> 1]

\* Height 0 starts with the faulty validator, every other slot rotates over
\* those the view still counts.
MCProposer ==
  [slot \in Heights \X Rounds \X SUBSET Validators |->
     LET turn == (slot[1] + slot[2]) % 3 IN
     IF turn = 0 /\ v3 \notin slot[3] THEN v3 ELSE IF turn = 2 THEN v2 ELSE v1]

\* The faulty validator proposes either block in any round and votes for both;
\* its votes carry round 0, the round being only a key of the detector.
MCForged ==
  {m \in Messages : m.from \in Faulty /\ m.height = 0
                      /\ (m.kind = "PROPOSE" \/ m.round = 0)}

Symmetry == Permutations(Blocks)
=============================================================================
