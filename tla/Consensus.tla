------------------------------ MODULE Consensus ------------------------------
(***************************************************************************)
(* The stake-weighted Prevote/Precommit protocol of core/bft_consensus.py: *)
(* one BFTConsensus object per validator, each with its own copy of the    *)
(* validator set (and so its own opinion of who is slashed).  A broadcast  *)
(* reaches every validator any number of times, in any order, or never.   *)
(* A faulty validator signs whatever it likes in its own name; a validator *)
(* that restarts forgets its votes (nothing is persisted) and counts as    *)
(* faulty.  A timeout may fire whenever no proposal is held.               *)
(***************************************************************************)
EXTENDS Sums

CONSTANTS
  Validators,
  Faulty,       \* the validators that need not follow the code
  Stake,        \* Validator.stake
  Blocks,       \* block hashes
  NoBlock,      \* the hash field before it is set
  Proposer,     \* <<height, round, slashed>> to the validator proposer_for names
  Forged,       \* the envelopes the faulty validators sign
  Loopback,     \* whether broadcast_callback also reaches the sender
  MaxHeight,    \* bound on heights decided
  MaxRound      \* bound on the round a validator bumps to

Heights == 0 .. MaxHeight
Rounds == 0 .. MaxRound
Correct == Validators \ Faulty

ASSUME ConsensusAssumption ==
  /\ IsFiniteSet(Validators) /\ Faulty \subseteq Validators
  /\ Stake \in [Validators -> Nat]
  /\ NoBlock \notin Blocks
  /\ MaxHeight \in Nat /\ MaxRound \in Nat
  /\ Proposer \in [Heights \X Rounds \X SUBSET Validators -> Validators]

VoteKinds == {"PREVOTE", "PRECOMMIT"}
Messages == [kind : VoteKinds \cup {"PROPOSE"}, height : Heights,
             round : Rounds, block : Blocks, from : Validators]

ASSUME ForgedAssumption ==
  /\ Forged \in SUBSET {m \in Messages : m.from \in Faulty}
  /\ Loopback \in BOOLEAN

VARIABLES
  height,      \* _state.height of each validator
  round,       \* _state.round
  proposal,    \* _state.proposed_block_hash
  prevotes,    \* _state.prevotes: the hash each voter prevoted, as received
  precommits,  \* _state.precommits
  seen,        \* _seen_votes: the first vote received under each key
  slashed,     \* the validators its own vset marks slashed
  committed,   \* the blocks handed to on_commit, per height
  sent         \* every envelope a correct validator broadcast

vars == <<height, round, proposal, prevotes, precommits, seen, slashed,
          committed, sent>>

Envelope(k, h, r, b, v) ==
  [kind |-> k, height |-> h, round |-> r, block |-> b, from |-> v]

\* What the network may hand to v: signed envelopes, none of them consumed.
Arriving(v) ==
  {m \in sent \cup Forged : m.from # v \/ Loopback}

(***************************************************************************)
(* Stake counting                                                          *)
(***************************************************************************)
PowerOf == [S \in SUBSET Validators |-> SumOver(Stake, S)]
Power(S) == PowerOf[S]

\* A fault: the votes of slashed validators still count.
QuorumOfAll(voters, out) == 3 * Power(voters) >= 2 * Power(Validators \ out)

\* quorum_threshold: two thirds of the stake this view still counts.
HasQuorum(voters, out) == 3 * Power(voters \ out) >= 2 * Power(Validators \ out)

\* _stake_for_hash keeps the voters whose recorded vote is for the hash.
VotersFor(votes, b) == {u \in Validators : votes[u] = b}

NoVotes == [u \in Validators |-> NoBlock]

\* A fresh _RoundState: no proposal, no votes.
ResetVotes(v) ==
  /\ proposal' = [proposal EXCEPT ![v] = NoBlock]
  /\ prevotes' = [prevotes EXCEPT ![v] = NoVotes]
  /\ precommits' = [precommits EXCEPT ![v] = NoVotes]

Expected(v, r) == Proposer[height[v], r, slashed[v]]

Init ==
  /\ height = [v \in Correct |-> 0] /\ round = [v \in Correct |-> 0]
  /\ proposal = [v \in Correct |-> NoBlock]
  /\ prevotes = [v \in Correct |-> NoVotes]
  /\ precommits = [v \in Correct |-> NoVotes]
  /\ seen = [v \in Correct |-> {}] /\ slashed = [v \in Correct |-> {}]
  /\ committed = [v \in Correct |-> [h \in Heights |-> NoBlock]]
  /\ sent = {}

(***************************************************************************)
(* The timer loop                                                          *)
(***************************************************************************)
\* A fault: the timer bumps the round although a proposal is held.
BumpAnyRound(v) ==
  /\ round[v] < MaxRound
  /\ round' = [round EXCEPT ![v] = @ + 1]
  /\ ResetVotes(v)
  /\ UNCHANGED <<height, seen, slashed, committed, sent>>

\* _advance_round, by a validator whose proposer stayed silent or that had
\* nothing to propose: the votes received so far are dropped with the round.
BumpRound(v) ==
  /\ proposal[v] = NoBlock /\ round[v] < MaxRound
  /\ round' = [round EXCEPT ![v] = @ + 1]
  /\ ResetVotes(v)
  /\ UNCHANGED <<height, seen, slashed, committed, sent>>

\* _do_propose, which waits for the same timeout, then _cast_prevote.
Propose(v, b) ==
  /\ proposal[v] = NoBlock
  /\ Expected(v, round[v]) = v
  /\ proposal' = [proposal EXCEPT ![v] = b]
  /\ prevotes' = [prevotes EXCEPT ![v][v] = b]
  /\ sent' = sent \cup {Envelope("PROPOSE", height[v], round[v], b, v),
                        Envelope("PREVOTE", height[v], round[v], b, v)}
  /\ UNCHANGED <<height, round, precommits, seen, slashed, committed>>

(***************************************************************************)
(* handle_message                                                          *)
(***************************************************************************)
\* A proposal counts if its round is the receiver's own, none is held yet and
\* its signer is the one this view expects.  The prevotes already received
\* are not looked at again.
ReceiveProposal(v, m) ==
  /\ m.kind = "PROPOSE" /\ m.height = height[v]
  /\ Expected(v, m.round) = m.from
  /\ proposal[v] = NoBlock /\ m.round = round[v]
  /\ proposal' = [proposal EXCEPT ![v] = m.block]
  /\ prevotes' = [prevotes EXCEPT ![v][v] = m.block]
  /\ sent' = sent \cup {Envelope("PREVOTE", height[v], round[v], m.block, v)}
  /\ UNCHANGED <<height, round, precommits, seen, slashed, committed>>

\* A fault: the key of a vote leaves the height out.
SameSlot(m, n) == m.round = n.round /\ m.kind = n.kind /\ m.from = n.from

SameKey(m, n) ==
  m.height = n.height /\ m.round = n.round /\ m.kind = n.kind /\ m.from = n.from
Conflicts(v, m) == \E n \in seen[v] : SameKey(m, n) /\ n.block # m.block

\* A fault: the hash is convicted instead of its voter.
RecordHash(v, m) ==
  \/ /\ Conflicts(v, m)
     /\ slashed' = [slashed EXCEPT ![v] = @ \cup {m.block}]
     /\ UNCHANGED seen
  \/ /\ ~Conflicts(v, m)
     /\ seen' = [seen EXCEPT ![v] = @ \cup {m}]
     /\ UNCHANGED slashed

\* _record_vote: a second hash under one (height, round, kind, voter) slashes
\* the voter; the first stays on record.
RecordVote(v, m) ==
  \/ /\ Conflicts(v, m)
     /\ slashed' = [slashed EXCEPT ![v] = @ \cup {m.from}]
     /\ UNCHANGED seen
  \/ /\ ~Conflicts(v, m)
     /\ seen' = [seen EXCEPT ![v] = @ \cup {m}]
     /\ UNCHANGED slashed

\* _maybe_precommit, after the vote is recorded: once per round state.
ReadyToPrecommit(v, votes, out) ==
  /\ proposal[v] # NoBlock
  /\ HasQuorum(VotersFor(votes, proposal[v]), out)
  /\ precommits[v][v] = NoBlock

\* A prevote is filed under its voter whatever its round.
ReceivePrevote(v, m) ==
  /\ m.kind = "PREVOTE" /\ m.height = height[v]
  /\ RecordVote(v, m)
  /\ prevotes' = [prevotes EXCEPT ![v][m.from] = m.block]
  /\ \/ /\ ReadyToPrecommit(v, prevotes'[v], slashed'[v])
        /\ precommits' = [precommits EXCEPT ![v][v] = proposal[v]]
        /\ sent' = sent \cup
             {Envelope("PRECOMMIT", height[v], round[v], proposal[v], v)}
     \/ /\ ~ReadyToPrecommit(v, prevotes'[v], slashed'[v])
        /\ UNCHANGED <<precommits, sent>>
  /\ UNCHANGED <<height, round, proposal, committed>>

ReadyToCommit(v, votes, out) ==
  /\ proposal[v] # NoBlock
  /\ HasQuorum(VotersFor(votes, proposal[v]), out)

\* _maybe_commit, then _advance_height with a fresh round 0.
Commit(v) ==
  /\ committed' = [committed EXCEPT ![v][height[v]] = proposal[v]]
  /\ height' = [height EXCEPT ![v] = @ + 1]
  /\ round' = [round EXCEPT ![v] = 0]
  /\ ResetVotes(v)

ReceivePrecommit(v, m) ==
  /\ m.kind = "PRECOMMIT" /\ m.height = height[v]
  /\ RecordVote(v, m)
  /\ LET votes == [precommits[v] EXCEPT ![m.from] = m.block] IN
     \/ /\ ReadyToCommit(v, votes, slashed'[v])
        /\ Commit(v)
     \/ /\ ~ReadyToCommit(v, votes, slashed'[v])
        /\ precommits' = [precommits EXCEPT ![v] = votes]
        /\ UNCHANGED <<height, round, proposal, prevotes, committed>>
  /\ UNCHANGED sent

Step(v) ==
  \/ BumpRound(v)
  \/ \E b \in Blocks : Propose(v, b)
  \/ \E m \in Arriving(v) :
       ReceiveProposal(v, m) \/ ReceivePrevote(v, m) \/ ReceivePrecommit(v, m)

Next == \E v \in Correct : height[v] < MaxHeight /\ Step(v)

Spec == Init /\ [][Next]_vars

(***************************************************************************)
(* Properties                                                              *)
(***************************************************************************)
\* Fewer than a third of the stake is faulty: the premise of the protocol.
FaultyMinority == 3 * Power(Faulty) < Power(Validators)

VoteTable == [Validators -> Blocks \cup {NoBlock}]

\* Every field of every validator's state has its type.
TypeOK ==
  /\ height \in [Correct -> Heights] /\ round \in [Correct -> Rounds]
  /\ proposal \in [Correct -> Blocks \cup {NoBlock}]
  /\ prevotes \in [Correct -> VoteTable] /\ precommits \in [Correct -> VoteTable]
  /\ seen \in [Correct -> SUBSET Messages]
  /\ slashed \in [Correct -> SUBSET Validators]
  /\ committed \in [Correct -> [Heights -> Blocks \cup {NoBlock}]]
  /\ sent \subseteq Messages

\* The promise of the module docstring: no two correct validators hand
\* different blocks of one height to commit_callback.
Agreement ==
  \A v, w \in Correct, h \in Heights :
    committed[v][h] # NoBlock /\ committed[w][h] # NoBlock
      => committed[v][h] = committed[w][h]

\* The same promise as a specification of its own: what on_commit sees is a
\* behaviour of BlockDecision, which also forbids a gap or a retraction.
Decision == INSTANCE BlockDecision WITH Members <- Correct, log <- committed
DecidesOnce == Decision!Spec

\* What the prevote phase is for: all precommits that correct validators ever
\* broadcast for a height name one block, although each counts the quorum
\* against its own opinion of who is slashed and files votes of any round.
PrecommitsAgree ==
  \A m, n \in sent :
    m.kind = "PRECOMMIT" /\ n.kind = "PRECOMMIT" /\ m.height = n.height
      => m.block = n.block

\* The equivocation detector convicts no validator that follows the protocol,
\* however its votes are repeated and reordered.
CorrectNotSlashed == \A v \in Correct : slashed[v] \cap Correct = {}

\* "commit_callback ... called when 2/3+ precommit collected for this block":
\* no validator sits on a proposal its recorded precommits already decide.
QuorumIsCommitted ==
  \A v \in Correct : ~ReadyToCommit(v, precommits[v], slashed[v])
=============================================================================
