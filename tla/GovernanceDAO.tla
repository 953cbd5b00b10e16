---------------------------- MODULE GovernanceDAO ----------------------------
(***************************************************************************)
(* core/governance.py over the ledger of the node that hosts it: a         *)
(* proposal fixes a snapshot height, votes weigh what the ledger says of   *)
(* that height, and an approved action is handed to execute_callback.  Its *)
(* file is rewritten after every change, so a restart loses nothing of it. *)
(***************************************************************************)
EXTENDS ChainLedger

CONSTANTS
  Host,           \* the node the DAO runs on
  Quorum,         \* one over QUORUM_FRACTION
  MaxExecuted     \* bound on calls of execute_callback

ASSUME GovernanceAssumption ==
  Host \in Nodes /\ Quorum \in Nat \ {0} /\ MaxExecuted \in Nat

VARIABLES
  proposal,   \* the proposals: the model has room for one
  closed,     \* whether its end_time is past
  executed    \* calls of execute_callback that went through

daoVars == <<proposal, closed, executed>>

NoProposal == [status |-> "NONE"]
Statuses == {"ACTIVE", "PASSED", "REJECTED", "NO_QUORUM", "EXECUTED"}

DAOInit ==
  Init /\ proposal = NoProposal /\ closed = FALSE /\ executed = 0

\* create_proposal: get_height() is the length of the chain, so the snapshot
\* is the height of the block that comes next.
CreateProposal ==
  /\ proposal = NoProposal
  /\ proposal' = [snapshot |-> Len(chain[Host]), yes |-> 0, no |-> 0,
                  voters |-> {}, status |-> "ACTIVE"]
  /\ UNCHANGED <<vars, closed, executed>>

\* The voting window ends.
Close ==
  /\ proposal # NoProposal /\ ~closed /\ closed' = TRUE
  /\ UNCHANGED <<vars, proposal, executed>>

\* _finalize, from the votes counted and the supply at the snapshot as the
\* chain has it now; the status it had does not matter.
Outcome ==
  LET supply == SupplyAt(chain[Host], proposal.snapshot)
      participation == proposal.yes + proposal.no
      quorum == IF supply <= 0 THEN participation > 0
                ELSE participation * Quorum >= supply
  IN IF ~quorum THEN "NO_QUORUM"
     ELSE IF proposal.yes > proposal.no THEN "PASSED" ELSE "REJECTED"

FinalizeProposal == proposal' = [proposal EXCEPT !.status = Outcome]

Weight(a) == BalanceAt(chain[Host], a, proposal.snapshot)

CountVote(a, choice) ==
  /\ a \notin proposal.voters /\ Weight(a) > 0
  /\ proposal' = [proposal EXCEPT !.voters = @ \cup {a},
                    !.yes = @ + (IF choice THEN Weight(a) ELSE 0),
                    !.no = @ + (IF choice THEN 0 ELSE Weight(a))]

\* A fault: the end of the voting window is not looked at.
VoteAnyTime(a, choice) ==
  /\ proposal # NoProposal
  /\ CountVote(a, choice)
  /\ UNCHANGED <<vars, closed, executed>>

\* vote: a late vote is not counted, but it has the proposal finalized again.
Vote(a, choice) ==
  /\ proposal # NoProposal
  /\ \/ closed /\ FinalizeProposal
     \/ ~closed /\ CountVote(a, choice)
  /\ UNCHANGED <<vars, closed, executed>>

GetResult ==
  /\ proposal # NoProposal /\ proposal.status = "ACTIVE" /\ closed
  /\ FinalizeProposal
  /\ UNCHANGED <<vars, closed, executed>>

\* execute: a callback that refuses changes nothing.
Execute ==
  /\ proposal # NoProposal /\ proposal.status = "PASSED"
  /\ executed < MaxExecuted /\ executed' = executed + 1
  /\ proposal' = [proposal EXCEPT !.status = "EXECUTED"]
  /\ UNCHANGED <<vars, closed>>

\* The process stops after the callback and before the status is saved.
ExecuteAndCrash ==
  /\ proposal # NoProposal /\ proposal.status = "PASSED"
  /\ executed < MaxExecuted /\ executed' = executed + 1
  /\ Restart(Host)
  /\ UNCHANGED <<proposal, closed>>

DAOStep ==
  \/ CreateProposal \/ Close \/ GetResult \/ Execute \/ ExecuteAndCrash
  \/ \E a \in Accounts, choice \in BOOLEAN : Vote(a, choice)

DAONext == (Next /\ UNCHANGED daoVars) \/ DAOStep

DAOSpec == DAOInit /\ [][DAONext]_<<vars, daoVars>>

(***************************************************************************)
(* Properties                                                              *)
(***************************************************************************)
\* The ledger's types, and the proposal's.
DAOTypeOK ==
  /\ TypeOK
  /\ proposal = NoProposal \/
       proposal \in [snapshot : Nat, yes : Nat, no : Nat,
                     voters : SUBSET Accounts, status : Statuses]
  /\ closed \in BOOLEAN /\ executed \in 0 .. MaxExecuted

\* "Approved by stake-weighted majority": whatever forks, restarts and late
\* calls do, an action once executed still has the majority it was executed on.
ApprovedByMajority == executed > 0 => proposal.yes > proposal.no

\* "Voters can't pump their balance after voting and re-vote, because the weight
\* is fixed to a specific past height": no more coins vote than there are.
CoinsVoteOnce ==
  proposal # NoProposal =>
    proposal.yes + proposal.no <= SupplyAt(chain[Host], proposal.snapshot)
=============================================================================
