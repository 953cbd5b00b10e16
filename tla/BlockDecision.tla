---------------------------- MODULE BlockDecision ----------------------------
(***************************************************************************)
(* What the consensus protocol promises its callers: every validator hands *)
(* over one block per height, in height order, never takes one back, and   *)
(* never hands over a block another validator contradicts.                *)
(***************************************************************************)
EXTENDS Naturals

CONSTANTS Members, Blocks, NoBlock, Heights

VARIABLE log      \* the block each member handed over at each height

Init == log = [v \in Members |-> [h \in Heights |-> NoBlock]]

Decide(v, h, b) ==
  /\ log[v][h] = NoBlock
  /\ \A g \in Heights : g < h => log[v][g] # NoBlock
  /\ \A w \in Members : log[w][h] \in {NoBlock, b}
  /\ log' = [log EXCEPT ![v][h] = b]

Next == \E v \in Members, h \in Heights, b \in Blocks : Decide(v, h, b)

Spec == Init /\ [][Next]_log
=============================================================================
