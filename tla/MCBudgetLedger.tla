--------------------------- MODULE MCBudgetLedger ---------------------------
(* Small instances of the budget ledger: an organisation, one team in it,  *)
(* daily windows of two ticks and a "total" period that never rolls over.  *)
EXTENDS BudgetLedger, TLC

Org  == <<"acme">>
Team == <<"acme", "ml">>
OrgAndTeam == {Org, Team}
OrgOnly == {Org}

DailySpan == [p \in {"day"} |-> 2]
NoSpan    == [p \in {} |-> 1]

JobSymmetry == Permutations(Jobs)
=============================================================================
