--------------------------- MODULE ConsensusProofs ---------------------------
(***************************************************************************)
(* Agreement of the consensus protocol for any validators, stakes, leader  *)
(* rotation and behaviour of a faulty minority.  The argument: a correct   *)
(* validator votes once per kind and height (a validator that holds a      *)
(* proposal never bumps its round), each precommit and each commit had a   *)
(* two-thirds quorum in some view that slashes faulty validators only, and *)
(* two such quorums, even of different views, share a correct validator.   *)
(***************************************************************************)
EXTENDS Consensus, SumLemmas

(***************************************************************************)
(* The inductive invariant                                                 *)
(***************************************************************************)
IsVote(m) == m.kind \in VoteKinds

\* A correct validator broadcasts one vote of a kind per height.
OneVote ==
  \A m, n \in sent :
    IsVote(m) /\ m.kind = n.kind /\ m.from = n.from /\ m.height = n.height
      => m.block = n.block /\ m.round = n.round

\* Envelopes are sent by correct validators, none ahead of its sender.
SentBehind ==
  \A m \in sent : m.from \in Correct /\ m.height <= height[m.from]

\* A vote at its sender's current height is for the proposal it still holds.
VoteIsHeld ==
  \A m \in sent :
    IsVote(m) /\ m.height = height[m.from]
      => /\ m.block = proposal[m.from]
         /\ m.kind = "PRECOMMIT" => precommits[m.from][m.from] # NoBlock

Voted(S, k, h, b, u) ==
  \E m \in S : m.kind = k /\ m.height = h /\ m.block = b /\ m.from = u

\* A recorded vote of a correct validator was broadcast by it.
RecordsAreSent ==
  \A v \in Correct : \A u \in Correct :
    /\ prevotes[v][u] # NoBlock => Voted(sent, "PREVOTE", height[v], prevotes[v][u], u)
    /\ precommits[v][u] # NoBlock
         => Voted(sent, "PRECOMMIT", height[v], precommits[v][u], u)

SeenAreSent ==
  \A v \in Correct : \A m \in seen[v] :
    IsVote(m) /\ (m.from \in Correct => m \in sent)

\* Some view that slashed faulty validators only counted a quorum of k votes.
Certified(S, k, h, b) ==
  \E Q \in SUBSET Validators : \E Z \in SUBSET Faulty :
    /\ 3 * Power(Q \ Z) >= 2 * Power(Validators \ Z)
    /\ \A u \in Q \cap Correct : Voted(S, k, h, b, u)

PrecommitsCertified ==
  \A m \in sent : m.kind = "PRECOMMIT" => Certified(sent, "PREVOTE", m.height, m.block)

CommitsCertified ==
  \A v \in Correct : \A h \in Heights :
    /\ committed[v][h] # NoBlock <=> h < height[v]
    /\ committed[v][h] # NoBlock => Certified(sent, "PRECOMMIT", h, committed[v][h])

IInv ==
  /\ TypeOK
  /\ OneVote /\ SentBehind /\ VoteIsHeld
  /\ RecordsAreSent /\ SeenAreSent /\ CorrectNotSlashed
  /\ PrecommitsCertified /\ CommitsCertified

(***************************************************************************)
(* Quorums                                                                 *)
(***************************************************************************)
\* Power is a sum: natural, monotone, additive over disjoint sets.
LEMMA PowerLaws ==
  /\ \A S \in SUBSET Validators : Power(S) \in Nat
  /\ \A S, T \in SUBSET Validators : S \subseteq T => Power(S) <= Power(T)
  /\ \A S, T \in SUBSET Validators :
       S \cap T = {} => Power(S \cup T) = Power(S) + Power(T)
<1> USE ConsensusAssumption
<1>1. ASSUME NEW S \in SUBSET Validators
      PROVE  IsFiniteSet(S) /\ Power(S) = SumOver(Stake, S)
             /\ \A x \in S : Stake[x] \in Nat
  BY FS_Subset DEF Power, PowerOf
<1>2. ASSUME NEW S \in SUBSET Validators PROVE Power(S) \in Nat
  BY <1>1, SumNat
<1>3. ASSUME NEW S \in SUBSET Validators, NEW T \in SUBSET Validators, S \subseteq T
      PROVE  Power(S) <= Power(T)
  <2>1. S \in SUBSET T
    BY <1>3
  <2>2. SumOver(Stake, S) <= SumOver(Stake, T)
    BY <1>1, <2>1, SumSubset
  <2> QED
    BY <1>1, <2>2
<1>4. ASSUME NEW S \in SUBSET Validators, NEW T \in SUBSET Validators, S \cap T = {}
      PROVE  Power(S \cup T) = Power(S) + Power(T)
  <2>1. SumOver(Stake, S \cup T) = SumOver(Stake, S) + SumOver(Stake, T)
    BY <1>1, <1>4, SumUnion
  <2>2. S \cup T \in SUBSET Validators
    OBVIOUS
  <2> QED
    BY <1>1, <2>1, <2>2
<1> QED
  BY <1>2, <1>3, <1>4

\* The correct voters of a quorum: they carry two thirds of the stake less
\* what unslashed faulty voters can add.
LEMMA CorrectShare ==
  ASSUME NEW Q \in SUBSET Validators, NEW Z \in SUBSET Faulty,
         3 * Power(Q \ Z) >= 2 * Power(Validators \ Z)
  PROVE  3 * Power(Q \cap Correct) + 3 * Power(Faulty) >= 2 * Power(Validators)
<1> DEFINE good == Q \cap Correct
           bad == (Q \cap Faulty) \ Z
           rest == Validators \ Z
<1>1. /\ good \in SUBSET Validators /\ bad \in SUBSET Validators
      /\ rest \in SUBSET Validators /\ Z \in SUBSET Validators
      /\ Faulty \in SUBSET Validators /\ Q \ Z \in SUBSET Validators
      /\ bad \cup Z \in SUBSET Validators
  BY ConsensusAssumption DEF Correct
<1>2. Q \ Z = good \cup bad /\ good \cap bad = {}
  BY ConsensusAssumption DEF Correct
<1>3. Power(Q \ Z) = Power(good) + Power(bad)
  <2>1. Power(good \cup bad) = Power(good) + Power(bad)
    BY <1>1, <1>2, PowerLaws
  <2> QED
    BY <1>2, <2>1
<1>4. Power(Validators) = Power(rest) + Power(Z)
  <2>1. Validators = rest \cup Z /\ rest \cap Z = {}
    BY <1>1
  <2>2. Power(rest \cup Z) = Power(rest) + Power(Z)
    BY <1>1, <2>1, PowerLaws
  <2> QED
    BY <2>1, <2>2
<1>5. Power(bad) + Power(Z) <= Power(Faulty)
  <2>1. bad \cap Z = {} /\ bad \cup Z \subseteq Faulty
    OBVIOUS
  <2>2. Power(bad \cup Z) = Power(bad) + Power(Z)
    BY <1>1, <2>1, PowerLaws
  <2>3. Power(bad \cup Z) <= Power(Faulty)
    BY <1>1, <2>1, PowerLaws
  <2> QED
    BY <2>2, <2>3
<1>6. /\ Power(good) \in Nat /\ Power(bad) \in Nat /\ Power(Z) \in Nat
      /\ Power(rest) \in Nat /\ Power(Faulty) \in Nat /\ Power(Validators) \in Nat
  BY <1>1, PowerLaws
<1> HIDE DEF good, bad, rest
<1>7. 3 * Power(good) + 3 * Power(Faulty) >= 2 * Power(Validators)
  <2>1. 3 * (Power(good) + Power(bad)) >= 2 * Power(rest)
    BY <1>3 DEF rest
  <2> QED
    BY <2>1, <1>4, <1>5, <1>6
<1> QED
  BY <1>7 DEF good

\* Two certificates of one kind and height are for one block.
LEMMA CertificatesAgree ==
  ASSUME FaultyMinority, OneVote, NEW k \in VoteKinds, NEW h, NEW b, NEW c,
         Certified(sent, k, h, b), Certified(sent, k, h, c)
  PROVE  b = c
<1> SUFFICES ASSUME b # c PROVE FALSE
  OBVIOUS
<1>1. PICK P \in SUBSET Validators, Y \in SUBSET Faulty :
        /\ 3 * Power(P \ Y) >= 2 * Power(Validators \ Y)
        /\ \A u \in P \cap Correct : Voted(sent, k, h, b, u)
  BY DEF Certified
<1>2. PICK Q \in SUBSET Validators, Z \in SUBSET Faulty :
        /\ 3 * Power(Q \ Z) >= 2 * Power(Validators \ Z)
        /\ \A u \in Q \cap Correct : Voted(sent, k, h, c, u)
  BY DEF Certified
<1> DEFINE p == P \cap Correct
           q == Q \cap Correct
<1>3. p \cap q = {}
  <2> SUFFICES ASSUME NEW u \in p \cap q PROVE FALSE
    OBVIOUS
  <2>1. Voted(sent, k, h, b, u) /\ Voted(sent, k, h, c, u)
    BY <1>1, <1>2
  <2> QED
    BY <2>1 DEF Voted, OneVote, IsVote
<1>4. /\ p \in SUBSET Validators /\ q \in SUBSET Validators
      /\ Correct \in SUBSET Validators /\ Faulty \in SUBSET Validators
      /\ p \cup q \in SUBSET Validators
      /\ Correct \cup Faulty = Validators /\ Correct \cap Faulty = {}
      /\ p \cup q \subseteq Correct
  BY ConsensusAssumption DEF Correct
<1>5. Power(p) + Power(q) <= Power(Correct)
  <2>1. Power(p \cup q) = Power(p) + Power(q)
    BY <1>3, <1>4, PowerLaws
  <2>2. Power(p \cup q) <= Power(Correct)
    BY <1>4, PowerLaws
  <2> QED
    BY <2>1, <2>2
<1>6. Power(Validators) = Power(Correct) + Power(Faulty)
  <2>1. Power(Correct \cup Faulty) = Power(Correct) + Power(Faulty)
    BY <1>4, PowerLaws
  <2> QED
    BY <2>1, <1>4
<1>7. /\ 3 * Power(p) + 3 * Power(Faulty) >= 2 * Power(Validators)
      /\ 3 * Power(q) + 3 * Power(Faulty) >= 2 * Power(Validators)
  BY <1>1, <1>2, CorrectShare
<1>8. /\ Power(p) \in Nat /\ Power(q) \in Nat /\ Power(Correct) \in Nat
      /\ Power(Faulty) \in Nat /\ Power(Validators) \in Nat
  BY <1>4, PowerLaws
<1>9. 3 * Power(Faulty) < Power(Validators)
  BY DEF FaultyMinority
<1> HIDE DEF p, q
<1> QED
  BY <1>5, <1>6, <1>7, <1>8, <1>9

(***************************************************************************)
(* One lemma per kind of step                                              *)
(***************************************************************************)
\* Votes once broadcast stay broadcast, so certificates last.
LEMMA CertificatesLast ==
  ASSUME NEW S, NEW T, S \subseteq T, NEW k, NEW h, NEW b
  PROVE  /\ \A u : Voted(S, k, h, b, u) => Voted(T, k, h, b, u)
         /\ Certified(S, k, h, b) => Certified(T, k, h, b)
<1>1. \A u : Voted(S, k, h, b, u) => Voted(T, k, h, b, u)
  BY DEF Voted
<1>2. ASSUME Certified(S, k, h, b) PROVE Certified(T, k, h, b)
  <2>1. PICK Q \in SUBSET Validators, Z \in SUBSET Faulty :
          /\ 3 * Power(Q \ Z) >= 2 * Power(Validators \ Z)
          /\ \A u \in Q \cap Correct : Voted(S, k, h, b, u)
    BY <1>2 DEF Certified
  <2>2. \A u \in Q \cap Correct : Voted(T, k, h, b, u)
    BY <2>1, <1>1
  <2> QED
    BY <2>1, <2>2 DEF Certified
<1> QED
  BY <1>1, <1>2

LEMMA InitIInv == Init => IInv
<1> SUFFICES ASSUME Init PROVE IInv
  OBVIOUS
<1> USE ConsensusAssumption
<1>1. TypeOK
  BY DEF Init, TypeOK, VoteTable, NoVotes, Heights, Rounds, Messages, Correct
<1>2. OneVote /\ SentBehind /\ VoteIsHeld /\ PrecommitsCertified
  BY DEF Init, OneVote, SentBehind, VoteIsHeld, PrecommitsCertified
<1>3. RecordsAreSent /\ SeenAreSent /\ CorrectNotSlashed
  BY DEF Init, RecordsAreSent, SeenAreSent, CorrectNotSlashed, NoVotes, Correct
<1>4. CommitsCertified
  BY DEF Init, CommitsCertified, Heights
<1> QED
  BY <1>1, <1>2, <1>3, <1>4 DEF IInv

\* A validator without a proposal has not voted at its height, so dropping
\* its round state loses no promise.
LEMMA BumpStep ==
  ASSUME IInv, NEW v \in Correct, height[v] < MaxHeight, BumpRound(v)
  PROVE  IInv'
<1> USE ConsensusAssumption DEF IInv, BumpRound, ResetVotes
<1>1. TypeOK'
  BY DEF TypeOK, VoteTable, NoVotes, Rounds, Correct
<1>2. OneVote' /\ SentBehind'
  BY DEF OneVote, SentBehind
<1>3. VoteIsHeld'
  <2> SUFFICES ASSUME NEW m \in sent, IsVote(m), m.height = height[m.from]
               PROVE  /\ m.block = proposal'[m.from]
                      /\ m.kind = "PRECOMMIT" => precommits'[m.from][m.from] # NoBlock
    BY DEF VoteIsHeld, IsVote
  <2>1. m.block \in Blocks /\ m.from \in Correct
    BY DEF TypeOK, Messages, SentBehind
  <2>2. m.from # v
    BY <2>1 DEF VoteIsHeld
  <2> QED
    BY <2>1, <2>2 DEF VoteIsHeld, TypeOK
<1>4. RecordsAreSent'
  <2> SUFFICES ASSUME NEW w \in Correct, NEW u \in Correct
               PROVE  /\ prevotes'[w][u] # NoBlock
                           => Voted(sent, "PREVOTE", height[w], prevotes'[w][u], u)
                      /\ precommits'[w][u] # NoBlock
                           => Voted(sent, "PRECOMMIT", height[w], precommits'[w][u], u)
    BY DEF RecordsAreSent
  <2>1. CASE w = v
    BY <2>1 DEF NoVotes, TypeOK, Correct
  <2>2. CASE w # v
    BY <2>2 DEF RecordsAreSent, TypeOK
  <2> QED
    BY <2>1, <2>2
<1>5. SeenAreSent' /\ CorrectNotSlashed'
  BY DEF SeenAreSent, CorrectNotSlashed
<1>6. PrecommitsCertified' /\ CommitsCertified'
  BY DEF PrecommitsCertified, CommitsCertified
<1> QED
  BY <1>1, <1>2, <1>3, <1>4, <1>5, <1>6

\* Taking a proposal and prevoting it, as its author or as a receiver.
LEMMA HoldStep ==
  ASSUME IInv, NEW v \in Correct, height[v] < MaxHeight, proposal[v] = NoBlock,
         NEW b \in Blocks,
         proposal' = [proposal EXCEPT ![v] = b],
         prevotes' = [prevotes EXCEPT ![v][v] = b],
         NEW extra \in SUBSET {Envelope("PROPOSE", height[v], round[v], b, v)},
         sent' = sent \cup extra \cup {Envelope("PREVOTE", height[v], round[v], b, v)},
         UNCHANGED <<height, round, precommits, seen, slashed, committed>>
  PROVE  IInv'
<1> USE ConsensusAssumption DEF IInv
<1> DEFINE vote == Envelope("PREVOTE", height[v], round[v], b, v)
<1>1. /\ vote.kind = "PREVOTE" /\ vote.height = height[v] /\ vote.round = round[v]
      /\ vote.block = b /\ vote.from = v /\ vote \in Messages
      /\ \A m \in extra : m \in Messages /\ m.kind = "PROPOSE" /\ m.from = v
                          /\ m.height = height[v]
      /\ sent \subseteq sent'
      /\ \A m \in sent' : IsVote(m) => m \in sent \/ m = vote
  BY DEF Envelope, Messages, VoteKinds, IsVote, TypeOK, Correct
<1>2. \A m \in sent : IsVote(m) /\ m.from = v => m.height # height[v]
  BY DEF VoteIsHeld, TypeOK, Messages
<1> HIDE DEF vote
<1>3. TypeOK'
  <2>1. sent' \subseteq Messages
    BY <1>1 DEF TypeOK, vote
  <2>2. prevotes' \in [Correct -> VoteTable]
    BY DEF TypeOK, VoteTable, Correct
  <2> QED
    BY <2>1, <2>2 DEF TypeOK
<1>4. OneVote'
  BY <1>1, <1>2 DEF OneVote, IsVote
<1>5. SentBehind'
  <2>1. height[v] <= height[v]
    BY DEF TypeOK, Heights
  <2> QED
    BY <1>1, <2>1 DEF SentBehind, vote
<1>6. VoteIsHeld'
  <2> SUFFICES ASSUME NEW m \in sent', IsVote(m), m.height = height[m.from]
               PROVE  /\ m.block = proposal'[m.from]
                      /\ m.kind = "PRECOMMIT" => precommits[m.from][m.from] # NoBlock
    BY DEF VoteIsHeld, IsVote
  <2>1. CASE m = vote
    BY <1>1, <2>1 DEF TypeOK
  <2>2. CASE m \in sent
    BY <1>2, <2>2 DEF VoteIsHeld, TypeOK, SentBehind
  <2> QED
    BY <1>1, <2>1, <2>2
<1>7. RecordsAreSent'
  <2> SUFFICES ASSUME NEW w \in Correct, NEW u \in Correct
               PROVE  /\ prevotes'[w][u] # NoBlock
                           => Voted(sent', "PREVOTE", height[w], prevotes'[w][u], u)
                      /\ precommits[w][u] # NoBlock
                           => Voted(sent', "PRECOMMIT", height[w], precommits[w][u], u)
    BY DEF RecordsAreSent
  <2>1. precommits[w][u] # NoBlock
          => Voted(sent', "PRECOMMIT", height[w], precommits[w][u], u)
    BY <1>1, CertificatesLast DEF RecordsAreSent
  <2>2. CASE w = v /\ u = v
    <3>1. prevotes'[w][u] = b
      BY <2>2 DEF TypeOK, VoteTable, Correct
    <3>2. Voted(sent', "PREVOTE", height[v], b, v)
      BY <1>1 DEF Voted, vote
    <3> QED
      BY <2>1, <2>2, <3>1, <3>2
  <2>3. CASE ~(w = v /\ u = v)
    <3>1. prevotes'[w][u] = prevotes[w][u]
      BY <2>3 DEF TypeOK, VoteTable, Correct
    <3>2. prevotes[w][u] # NoBlock
            => Voted(sent', "PREVOTE", height[w], prevotes[w][u], u)
      BY <1>1, CertificatesLast DEF RecordsAreSent
    <3> QED
      BY <2>1, <3>1, <3>2
  <2> QED
    BY <2>2, <2>3
<1>8. SeenAreSent' /\ CorrectNotSlashed'
  BY <1>1 DEF SeenAreSent, CorrectNotSlashed
<1>9. ASSUME NEW k, NEW h, NEW c, Certified(sent, k, h, c)
      PROVE  Certified(sent', k, h, c)
  <2>1. sent \subseteq sent'
    BY <1>1
  <2> QED
    BY ONLY <2>1, <1>9, CertificatesLast
<1>10. PrecommitsCertified'
  <2> SUFFICES ASSUME NEW m \in sent', m.kind = "PRECOMMIT"
               PROVE  Certified(sent', "PREVOTE", m.height, m.block)
    BY DEF PrecommitsCertified
  <2>1. m \in sent
    BY <1>1 DEF IsVote, VoteKinds
  <2>2. Certified(sent, "PREVOTE", m.height, m.block)
    BY <2>1 DEF PrecommitsCertified
  <2> QED
    BY <2>2, <1>9
<1>11. CommitsCertified'
  <2> SUFFICES ASSUME NEW w \in Correct, NEW h \in Heights
               PROVE  /\ committed[w][h] # NoBlock <=> h < height[w]
                      /\ committed[w][h] # NoBlock
                           => Certified(sent', "PRECOMMIT", h, committed[w][h])
    BY DEF CommitsCertified
  <2>1. /\ committed[w][h] # NoBlock <=> h < height[w]
        /\ committed[w][h] # NoBlock
             => Certified(sent, "PRECOMMIT", h, committed[w][h])
    BY DEF CommitsCertified
  <2> QED
    BY <2>1, <1>9
<1> QED
  BY <1>3, <1>4, <1>5, <1>6, <1>7, <1>8, <1>10, <1>11

\* What the detector learns from a vote that may arrive: a voter it slashes
\* signed two hashes under one key, which no correct validator does.
LEMMA RecordStep ==
  ASSUME IInv, NEW v \in Correct, NEW m \in sent \cup Forged, IsVote(m),
         RecordVote(v, m)
  PROVE  /\ seen' \in [Correct -> SUBSET Messages]
         /\ slashed' \in [Correct -> SUBSET Validators]
         /\ CorrectNotSlashed'
         /\ \A w \in Correct : \A n \in seen'[w] :
              IsVote(n) /\ (n.from \in Correct => n \in sent)
<1> USE ConsensusAssumption, ForgedAssumption DEF IInv
<1>1. /\ m \in Messages /\ m.from \in Validators /\ m.kind \in VoteKinds
      /\ m.from \in Correct => m \in sent
  BY DEF TypeOK, Messages, Correct, IsVote
<1>2. CASE Conflicts(v, m) /\ slashed' = [slashed EXCEPT ![v] = @ \cup {m.from}]
           /\ UNCHANGED seen
  <2>1. PICK n \in seen[v] : SameKey(m, n) /\ n.block # m.block
    BY <1>2 DEF Conflicts
  <2>2. m.from \notin Correct
    <3> SUFFICES ASSUME m.from \in Correct PROVE FALSE
      OBVIOUS
    <3>1. n.from \in Correct /\ n \in sent /\ m \in sent /\ IsVote(n)
      BY <1>1, <2>1 DEF SameKey, SeenAreSent
    <3> QED
      BY <3>1, <2>1 DEF SameKey, OneVote
  <2>3. slashed' \in [Correct -> SUBSET Validators]
    BY <1>1, <1>2 DEF TypeOK
  <2>4. CorrectNotSlashed'
    BY <1>2, <2>2 DEF CorrectNotSlashed, TypeOK
  <2> QED
    BY <1>2, <2>3, <2>4 DEF TypeOK, SeenAreSent
<1>3. CASE seen' = [seen EXCEPT ![v] = @ \cup {m}] /\ UNCHANGED slashed
  <2>1. seen' \in [Correct -> SUBSET Messages]
    BY <1>1, <1>3 DEF TypeOK
  <2>2. \A w \in Correct : \A n \in seen'[w] :
          IsVote(n) /\ (n.from \in Correct => n \in sent)
    <3> SUFFICES ASSUME NEW w \in Correct, NEW n \in seen'[w]
                 PROVE  IsVote(n) /\ (n.from \in Correct => n \in sent)
      OBVIOUS
    <3>1. n \in seen[w] \/ n = m
      BY <1>3 DEF TypeOK
    <3> QED
      BY <3>1, <1>1 DEF SeenAreSent
  <2> QED
    BY <1>3, <2>1, <2>2 DEF TypeOK, CorrectNotSlashed
<1> QED
  BY <1>2, <1>3 DEF RecordVote

\* A view with a quorum of recorded votes holds a certificate.
LEMMA QuorumCertifies ==
  ASSUME NEW S, NEW k, NEW h, NEW b, NEW votes, NEW out \in SUBSET Validators,
         out \cap Correct = {}, HasQuorum(VotersFor(votes, b), out),
         \A u \in Correct : votes[u] = b => Voted(S, k, h, b, u)
  PROVE  Certified(S, k, h, b)
<1> DEFINE Q == VotersFor(votes, b)
<1>1. Q \in SUBSET Validators /\ out \in SUBSET Faulty
  BY DEF VotersFor, Correct
<1>2. 3 * Power(Q \ out) >= 2 * Power(Validators \ out)
  BY DEF HasQuorum
<1>3. \A u \in Q \cap Correct : Voted(S, k, h, b, u)
  BY DEF VotersFor
<1> HIDE DEF Q
<1> QED
  BY <1>1, <1>2, <1>3 DEF Certified

\* Filing a vote under its voter keeps every record a vote that was sent.
LEMMA FileStep ==
  ASSUME NEW k, NEW h, NEW b \in Blocks, NEW votes \in VoteTable, NEW m \in Messages,
         m.kind = k, m.height = h, m.from \in Correct => m \in sent,
         \A u \in Correct : votes[u] # NoBlock => Voted(sent, k, h, votes[u], u),
         NEW filed, filed = [votes EXCEPT ![m.from] = m.block]
  PROVE  /\ filed \in VoteTable
         /\ \A u \in Correct : filed[u] # NoBlock => Voted(sent, k, h, filed[u], u)
<1>1. m.from \in Validators /\ m.block \in Blocks
  BY DEF Messages
<1>2. filed \in VoteTable
  BY <1>1 DEF VoteTable
<1>3. ASSUME NEW u \in Correct, filed[u] # NoBlock
      PROVE  Voted(sent, k, h, filed[u], u)
  <2>1. CASE u = m.from
    <3>1. filed[u] = m.block /\ m \in sent
      BY <1>1, <2>1 DEF VoteTable
    <3> QED
      BY <2>1, <3>1 DEF Voted
  <2>2. CASE u # m.from
    <3>1. filed[u] = votes[u]
      BY <2>2, <1>1 DEF VoteTable, Correct
    <3> QED
      BY <1>3, <3>1
  <2> QED
    BY <2>1, <2>2
<1> QED
  BY <1>2, <1>3

LEMMA PrevoteStep ==
  ASSUME IInv, NEW v \in Correct, height[v] < MaxHeight,
         NEW m \in sent \cup Forged, ReceivePrevote(v, m)
  PROVE  IInv'
<1> USE ConsensusAssumption DEF IInv
<1> DEFINE filed == [prevotes[v] EXCEPT ![m.from] = m.block]
           vote == Envelope("PRECOMMIT", height[v], round[v], proposal[v], v)
<1>1. /\ m \in Messages /\ m.kind = "PREVOTE" /\ m.height = height[v]
      /\ m.from \in Correct => m \in sent
      /\ IsVote(m)
  BY ForgedAssumption DEF ReceivePrevote, TypeOK, Correct, IsVote, VoteKinds
<1>2. /\ seen' \in [Correct -> SUBSET Messages]
      /\ slashed' \in [Correct -> SUBSET Validators]
      /\ CorrectNotSlashed'
      /\ \A w \in Correct : \A n \in seen'[w] :
           IsVote(n) /\ (n.from \in Correct => n \in sent)
  <2>1. RecordVote(v, m)
    BY DEF ReceivePrevote
  <2> QED
    BY <2>1, <1>1, RecordStep
<1>3. /\ prevotes' = [prevotes EXCEPT ![v] = filed]
      /\ UNCHANGED <<height, round, proposal, committed>>
  BY DEF ReceivePrevote, TypeOK
<1>4. /\ filed \in VoteTable
      /\ \A u \in Correct :
           filed[u] # NoBlock => Voted(sent, "PREVOTE", height[v], filed[u], u)
  <2>1. prevotes[v] \in VoteTable /\ m.block \in Blocks
    BY <1>1 DEF TypeOK, Messages
  <2>2. \A u \in Correct : prevotes[v][u] # NoBlock
          => Voted(sent, "PREVOTE", height[v], prevotes[v][u], u)
    BY DEF RecordsAreSent
  <2> HIDE DEF IInv
  <2> QED
    BY <1>1, <2>1, <2>2, FileStep
<1> HIDE DEF filed
<1>5. prevotes' \in [Correct -> VoteTable]
  BY <1>3, <1>4 DEF TypeOK
<1>6. \A w \in Correct : \A u \in Correct : prevotes'[w][u] # NoBlock
        => Voted(sent, "PREVOTE", height[w], prevotes'[w][u], u)
  <2> SUFFICES ASSUME NEW w \in Correct, NEW u \in Correct, prevotes'[w][u] # NoBlock
               PROVE  Voted(sent, "PREVOTE", height[w], prevotes'[w][u], u)
    OBVIOUS
  <2>1. CASE w = v
    BY <2>1, <1>3, <1>4 DEF TypeOK
  <2>2. CASE w # v
    <3>1. prevotes'[w] = prevotes[w]
      BY <2>2, <1>3 DEF TypeOK
    <3> QED
      BY <3>1 DEF RecordsAreSent
  <2> QED
    BY <2>1, <2>2
<1>7. CASE UNCHANGED <<precommits, sent>>
  <2>1. TypeOK'
    BY <1>2, <1>3, <1>5, <1>7 DEF TypeOK
  <2>2. OneVote' /\ SentBehind' /\ VoteIsHeld'
    BY <1>3, <1>7 DEF OneVote, SentBehind, VoteIsHeld
  <2>3. RecordsAreSent'
    BY <1>3, <1>6, <1>7 DEF RecordsAreSent
  <2>4. SeenAreSent' /\ CorrectNotSlashed'
    BY <1>2, <1>7 DEF SeenAreSent
  <2>5. PrecommitsCertified' /\ CommitsCertified'
    BY <1>3, <1>7 DEF PrecommitsCertified, CommitsCertified
  <2> QED
    BY <2>1, <2>2, <2>3, <2>4, <2>5
<1>8. CASE /\ ReadyToPrecommit(v, prevotes'[v], slashed'[v])
           /\ precommits' = [precommits EXCEPT ![v][v] = proposal[v]]
           /\ sent' = sent \cup {vote}
  <2>1. /\ proposal[v] # NoBlock /\ proposal[v] \in Blocks
        /\ precommits[v][v] = NoBlock /\ prevotes'[v] = filed
        /\ HasQuorum(VotersFor(filed, proposal[v]), slashed'[v])
    BY <1>3, <1>8 DEF ReadyToPrecommit, TypeOK
  <2>2. /\ vote.kind = "PRECOMMIT" /\ vote.height = height[v]
        /\ vote.round = round[v] /\ vote.block = proposal[v] /\ vote.from = v
        /\ vote \in Messages
    BY <2>1 DEF Envelope, Messages, VoteKinds, TypeOK, Correct
  <2>3. \A n \in sent : n.kind = "PRECOMMIT" /\ n.from = v => n.height # height[v]
    BY <2>1 DEF VoteIsHeld, IsVote, VoteKinds
  <2>4. sent \subseteq sent'
    BY <1>8
  <2> HIDE DEF vote
  <2>5. ASSUME NEW k, NEW h, NEW c, NEW u
        PROVE  /\ Voted(sent, k, h, c, u) => Voted(sent', k, h, c, u)
               /\ Certified(sent, k, h, c) => Certified(sent', k, h, c)
    BY ONLY <2>4, CertificatesLast
  <2>6. TypeOK'
    <3>1. sent' \subseteq Messages
      BY <1>8, <2>2 DEF TypeOK
    <3>2. precommits' \in [Correct -> VoteTable]
      BY <1>8, <2>1 DEF TypeOK, VoteTable, Correct
    <3> QED
      BY <1>2, <1>3, <1>5, <3>1, <3>2 DEF TypeOK
  <2>7. OneVote'
    BY <1>8, <2>2, <2>3 DEF OneVote, IsVote
  <2>8. SentBehind'
    <3>1. height[v] <= height[v]
      BY DEF TypeOK, Heights
    <3> QED
      BY <1>3, <1>8, <2>2, <3>1 DEF SentBehind
  <2>9. VoteIsHeld'
    <3> SUFFICES ASSUME NEW n \in sent', IsVote(n), n.height = height[n.from]
                 PROVE  /\ n.block = proposal[n.from]
                        /\ n.kind = "PRECOMMIT"
                             => precommits'[n.from][n.from] # NoBlock
      BY <1>3 DEF VoteIsHeld, IsVote
    <3>1. \A w \in Correct :
            precommits'[w][w] = IF w = v THEN proposal[v] ELSE precommits[w][w]
      BY <1>8 DEF TypeOK, VoteTable, Correct
    <3>2. CASE n = vote
      BY <2>1, <2>2, <3>1, <3>2
    <3>3. CASE n \in sent
      BY <2>1, <3>1, <3>3 DEF VoteIsHeld, SentBehind
    <3> QED
      BY <1>8, <3>2, <3>3
  <2>10. RecordsAreSent'
    <3> SUFFICES ASSUME NEW w \in Correct, NEW u \in Correct
                 PROVE  /\ prevotes'[w][u] # NoBlock
                             => Voted(sent', "PREVOTE", height[w], prevotes'[w][u], u)
                        /\ precommits'[w][u] # NoBlock
                             => Voted(sent', "PRECOMMIT", height[w], precommits'[w][u], u)
      BY <1>3 DEF RecordsAreSent
    <3>1. prevotes'[w][u] # NoBlock
            => Voted(sent', "PREVOTE", height[w], prevotes'[w][u], u)
      BY <1>6, <2>5
    <3>2. CASE w = v /\ u = v
      <4>1. precommits'[w][u] = proposal[v]
        BY <1>8, <3>2 DEF TypeOK, VoteTable, Correct
      <4>2. Voted(sent', "PRECOMMIT", height[v], proposal[v], v)
        BY <1>8, <2>2 DEF Voted
      <4> QED
        BY <3>1, <3>2, <4>1, <4>2
    <3>3. CASE ~(w = v /\ u = v)
      <4>1. precommits'[w][u] = precommits[w][u]
        BY <1>8, <3>3 DEF TypeOK, VoteTable, Correct
      <4>2. precommits[w][u] # NoBlock
              => Voted(sent, "PRECOMMIT", height[w], precommits[w][u], u)
        BY DEF RecordsAreSent
      <4> QED
        BY <3>1, <4>1, <4>2, <2>5
    <3> QED
      BY <3>2, <3>3
  <2>11. SeenAreSent' /\ CorrectNotSlashed'
    BY <1>2, <2>4 DEF SeenAreSent
  <2>12. PrecommitsCertified'
    <3> SUFFICES ASSUME NEW n \in sent', n.kind = "PRECOMMIT"
                 PROVE  Certified(sent', "PREVOTE", n.height, n.block)
      BY DEF PrecommitsCertified
    <3>1. CASE n \in sent
      <4>1. Certified(sent, "PREVOTE", n.height, n.block)
        BY <3>1 DEF PrecommitsCertified
      <4> QED
        BY <4>1, <2>5
    <3>2. CASE n = vote
      <4>1. \A u \in Correct : filed[u] = proposal[v]
              => Voted(sent', "PREVOTE", height[v], proposal[v], u)
        BY <1>4, <2>1, <2>5
      <4>2. slashed'[v] \in SUBSET Validators /\ slashed'[v] \cap Correct = {}
        BY <1>2 DEF CorrectNotSlashed
      <4>3. HasQuorum(VotersFor(filed, proposal[v]), slashed'[v])
        BY <2>1
      <4>4. Certified(sent', "PREVOTE", height[v], proposal[v])
        BY ONLY <4>1, <4>2, <4>3, QuorumCertifies
      <4> QED
        BY <2>2, <3>2, <4>4
    <3> QED
      BY <1>8, <3>1, <3>2
  <2>13. CommitsCertified'
    <3> SUFFICES ASSUME NEW w \in Correct, NEW h \in Heights
                 PROVE  /\ committed[w][h] # NoBlock <=> h < height[w]
                        /\ committed[w][h] # NoBlock
                             => Certified(sent', "PRECOMMIT", h, committed[w][h])
      BY <1>3 DEF CommitsCertified
    <3>1. /\ committed[w][h] # NoBlock <=> h < height[w]
          /\ committed[w][h] # NoBlock
               => Certified(sent, "PRECOMMIT", h, committed[w][h])
      BY DEF CommitsCertified
    <3> QED
      BY <3>1, <2>5
  <2> QED
    BY <2>6, <2>7, <2>8, <2>9, <2>10, <2>11, <2>12, <2>13
<1> QED
  BY <1>7, <1>8 DEF ReceivePrevote

LEMMA PrecommitStep ==
  ASSUME IInv, NEW v \in Correct, height[v] < MaxHeight,
         NEW m \in sent \cup Forged, ReceivePrecommit(v, m)
  PROVE  IInv'
<1> USE ConsensusAssumption DEF IInv
<1> DEFINE filed == [precommits[v] EXCEPT ![m.from] = m.block]
<1>1. /\ m \in Messages /\ m.kind = "PRECOMMIT" /\ m.height = height[v]
      /\ m.from \in Correct => m \in sent
      /\ IsVote(m)
  BY ForgedAssumption DEF ReceivePrecommit, TypeOK, Correct, IsVote, VoteKinds
<1>2. /\ seen' \in [Correct -> SUBSET Messages]
      /\ slashed' \in [Correct -> SUBSET Validators]
      /\ CorrectNotSlashed'
      /\ \A w \in Correct : \A n \in seen'[w] :
           IsVote(n) /\ (n.from \in Correct => n \in sent)
  <2>1. RecordVote(v, m)
    BY DEF ReceivePrecommit
  <2> QED
    BY <2>1, <1>1, RecordStep
<1>3. sent' = sent
  BY DEF ReceivePrecommit
<1>4. /\ filed \in VoteTable
      /\ \A u \in Correct :
           filed[u] # NoBlock => Voted(sent, "PRECOMMIT", height[v], filed[u], u)
  <2>1. precommits[v] \in VoteTable /\ m.block \in Blocks
    BY <1>1 DEF TypeOK, Messages
  <2>2. \A u \in Correct : precommits[v][u] # NoBlock
          => Voted(sent, "PRECOMMIT", height[v], precommits[v][u], u)
    BY DEF RecordsAreSent
  <2> HIDE DEF IInv
  <2> QED
    BY <1>1, <2>1, <2>2, FileStep
<1>5. OneVote' /\ SeenAreSent' /\ CorrectNotSlashed' /\ PrecommitsCertified'
  BY <1>2, <1>3 DEF OneVote, SeenAreSent, PrecommitsCertified
<1>6. filed[v] # NoBlock \/ precommits[v][v] = NoBlock
  BY <1>1 DEF TypeOK, VoteTable, Messages, Correct
<1> HIDE DEF filed
<1>7. CASE /\ precommits' = [precommits EXCEPT ![v] = filed]
           /\ UNCHANGED <<height, round, proposal, prevotes, committed>>
  <2>1. TypeOK'
    BY <1>2, <1>3, <1>4, <1>7 DEF TypeOK
  <2>2. SentBehind' /\ CommitsCertified'
    BY <1>3, <1>7 DEF SentBehind, CommitsCertified
  <2>3. VoteIsHeld'
    BY <1>3, <1>6, <1>7 DEF VoteIsHeld, SentBehind, TypeOK
  <2>4. RecordsAreSent'
    <3> SUFFICES ASSUME NEW w \in Correct, NEW u \in Correct
                 PROVE  precommits'[w][u] # NoBlock
                          => Voted(sent, "PRECOMMIT", height[w], precommits'[w][u], u)
      BY <1>3, <1>7 DEF RecordsAreSent
    <3>1. CASE w = v
      BY <3>1, <1>4, <1>7 DEF TypeOK
    <3>2. CASE w # v
      <4>1. precommits'[w] = precommits[w]
        BY <3>2, <1>7 DEF TypeOK
      <4> QED
        BY <4>1 DEF RecordsAreSent
    <3> QED
      BY <3>1, <3>2
  <2> QED
    BY <1>5, <2>1, <2>2, <2>3, <2>4
<1>8. CASE ReadyToCommit(v, filed, slashed'[v]) /\ Commit(v)
  <2> USE <1>8 DEF Commit, ResetVotes
  <2>1. /\ proposal[v] # NoBlock /\ proposal[v] \in Blocks
        /\ HasQuorum(VotersFor(filed, proposal[v]), slashed'[v])
        /\ height[v] \in Heights /\ height[v] + 1 \in Heights
    BY DEF ReadyToCommit, TypeOK, Heights
  <2>2. TypeOK'
    <3>1. committed' \in [Correct -> [Heights -> Blocks \cup {NoBlock}]]
      BY <2>1 DEF TypeOK
    <3>2. height' \in [Correct -> Heights] /\ round' \in [Correct -> Rounds]
      BY <2>1 DEF TypeOK, Rounds
    <3>3. /\ proposal' \in [Correct -> Blocks \cup {NoBlock}]
          /\ prevotes' \in [Correct -> VoteTable]
          /\ precommits' \in [Correct -> VoteTable]
      BY DEF TypeOK, VoteTable, NoVotes
    <3> QED
      BY <1>2, <1>3, <3>1, <3>2, <3>3 DEF TypeOK
  <2>3. \A w \in Correct : height'[w] = IF w = v THEN height[v] + 1 ELSE height[w]
    BY DEF TypeOK
  <2>4. SentBehind'
    <3> SUFFICES ASSUME NEW n \in sent
                 PROVE  n.from \in Correct /\ n.height <= height'[n.from]
      BY <1>3 DEF SentBehind
    <3>1. n.from \in Correct /\ n.height <= height[n.from] /\ n.height \in Nat
      BY DEF SentBehind, TypeOK, Messages, Heights
    <3> QED
      BY <2>1, <2>3, <3>1 DEF Heights
  <2>5. VoteIsHeld'
    <3> SUFFICES ASSUME NEW n \in sent, IsVote(n), n.height = height'[n.from]
                 PROVE  /\ n.block = proposal'[n.from]
                        /\ n.kind = "PRECOMMIT"
                             => precommits'[n.from][n.from] # NoBlock
      BY <1>3 DEF VoteIsHeld, IsVote
    <3>1. n.from \in Correct /\ n.height <= height[n.from]
      BY DEF SentBehind
    <3>2. n.from # v
      BY <2>1, <2>3, <3>1 DEF Heights
    <3> QED
      BY <2>3, <3>1, <3>2 DEF VoteIsHeld, TypeOK
  <2>6. RecordsAreSent'
    <3> SUFFICES ASSUME NEW w \in Correct, NEW u \in Correct
                 PROVE  /\ prevotes'[w][u] # NoBlock
                             => Voted(sent, "PREVOTE", height'[w], prevotes'[w][u], u)
                        /\ precommits'[w][u] # NoBlock
                             => Voted(sent, "PRECOMMIT", height'[w], precommits'[w][u], u)
      BY <1>3 DEF RecordsAreSent
    <3>1. CASE w = v
      BY <3>1 DEF NoVotes, TypeOK, Correct
    <3>2. CASE w # v
      BY <3>2, <2>3 DEF RecordsAreSent, TypeOK
    <3> QED
      BY <3>1, <3>2
  <2>7. CommitsCertified'
    <3> SUFFICES ASSUME NEW w \in Correct, NEW h \in Heights
                 PROVE  /\ committed'[w][h] # NoBlock <=> h < height'[w]
                        /\ committed'[w][h] # NoBlock
                             => Certified(sent, "PRECOMMIT", h, committed'[w][h])
      BY <1>3 DEF CommitsCertified
    <3>1. /\ committed[w][h] # NoBlock <=> h < height[w]
          /\ committed[w][h] # NoBlock
               => Certified(sent, "PRECOMMIT", h, committed[w][h])
      BY DEF CommitsCertified
    <3>2. CASE w = v /\ h = height[v]
      <4>1. committed'[w][h] = proposal[v]
        BY <3>2, <2>1 DEF TypeOK
      <4>2. \A u \in Correct : filed[u] = proposal[v]
              => Voted(sent, "PRECOMMIT", height[v], proposal[v], u)
        BY <1>4, <2>1
      <4>3. slashed'[v] \in SUBSET Validators /\ slashed'[v] \cap Correct = {}
        BY <1>2 DEF CorrectNotSlashed
      <4>4. HasQuorum(VotersFor(filed, proposal[v]), slashed'[v])
        BY <2>1
      <4>5. Certified(sent, "PRECOMMIT", height[v], proposal[v])
        BY ONLY <4>2, <4>3, <4>4, QuorumCertifies
      <4>6. h < height'[w]
        BY <3>2, <2>1, <2>3 DEF Heights
      <4> QED
        BY <3>2, <2>1, <4>1, <4>5, <4>6
    <3>3. CASE ~(w = v /\ h = height[v])
      <4>1. committed'[w][h] = committed[w][h]
        BY <3>3 DEF TypeOK
      <4>2. h < height'[w] <=> h < height[w]
        <5>1. CASE w = v
          <6>1. h \in Int /\ height[v] \in Int /\ h # height[v]
            BY <3>3, <5>1, <2>1, ConsensusAssumption DEF Heights
          <6>2. height'[w] = height[v] + 1
            BY <5>1, <2>3
          <6> QED
            BY <6>1, <6>2, <5>1
        <5>2. CASE w # v
          BY <5>2, <2>3
        <5> QED
          BY <5>1, <5>2
      <4> QED
        BY <3>1, <4>1, <4>2
    <3> QED
      BY <3>2, <3>3
  <2> QED
    BY <1>5, <2>2, <2>4, <2>5, <2>6, <2>7
<1> QED
  BY <1>7, <1>8 DEF ReceivePrecommit, filed

LEMMA NextIInv == IInv /\ [Next]_vars => IInv'
<1> SUFFICES ASSUME IInv, [Next]_vars PROVE IInv'
  OBVIOUS
<1>1. ASSUME NEW v \in Correct, height[v] < MaxHeight, Step(v) PROVE IInv'
  <2>1. CASE BumpRound(v)
    BY <1>1, <2>1, BumpStep
  <2>2. ASSUME NEW b \in Blocks, Propose(v, b) PROVE IInv'
    <3> DEFINE extra == {Envelope("PROPOSE", height[v], round[v], b, v)}
    <3>1. /\ proposal[v] = NoBlock
          /\ proposal' = [proposal EXCEPT ![v] = b]
          /\ prevotes' = [prevotes EXCEPT ![v][v] = b]
          /\ UNCHANGED <<height, round, precommits, seen, slashed, committed>>
      BY <2>2 DEF Propose
    <3>2. sent' = sent \cup extra \cup {Envelope("PREVOTE", height[v], round[v], b, v)}
      BY <2>2 DEF Propose
    <3>3. extra \in SUBSET {Envelope("PROPOSE", height[v], round[v], b, v)}
      OBVIOUS
    <3> HIDE DEF extra
    <3> QED
      BY <1>1, <3>1, <3>2, <3>3, HoldStep
  <2>3. ASSUME NEW m \in Arriving(v), ReceiveProposal(v, m) PROVE IInv'
    <3> DEFINE extra == {}
    <3>1. m.block \in Blocks
      BY ForgedAssumption DEF IInv, TypeOK, Arriving, Messages
    <3>2. /\ proposal[v] = NoBlock
          /\ proposal' = [proposal EXCEPT ![v] = m.block]
          /\ prevotes' = [prevotes EXCEPT ![v][v] = m.block]
          /\ UNCHANGED <<height, round, precommits, seen, slashed, committed>>
      BY <2>3 DEF ReceiveProposal
    <3>3. sent' = sent \cup extra
                    \cup {Envelope("PREVOTE", height[v], round[v], m.block, v)}
      BY <2>3 DEF ReceiveProposal
    <3>4. extra \in SUBSET {Envelope("PROPOSE", height[v], round[v], m.block, v)}
      OBVIOUS
    <3> HIDE DEF extra
    <3> QED
      BY <1>1, <3>1, <3>2, <3>3, <3>4, HoldStep
  <2>4. ASSUME NEW m \in Arriving(v), ReceivePrevote(v, m) PROVE IInv'
    BY <1>1, <2>4, PrevoteStep DEF Arriving
  <2>5. ASSUME NEW m \in Arriving(v), ReceivePrecommit(v, m) PROVE IInv'
    BY <1>1, <2>5, PrecommitStep DEF Arriving
  <2> QED
    BY <1>1, <2>1, <2>2, <2>3, <2>4, <2>5 DEF Step
<1>2. CASE UNCHANGED vars
  BY <1>2 DEF vars, IInv, TypeOK, OneVote, SentBehind, VoteIsHeld, RecordsAreSent,
     SeenAreSent, CorrectNotSlashed, PrecommitsCertified, CommitsCertified
<1> QED
  BY <1>1, <1>2 DEF Next

(***************************************************************************)
(* The theorems                                                            *)
(***************************************************************************)
LEMMA Invariance == Spec => []IInv
BY InitIInv, NextIInv, PTL DEF Spec

\* Types, for any validators and blocks.
THEOREM ConsensusTypeOK == Spec => []TypeOK
<1>1. IInv => TypeOK
  BY DEF IInv
<1> QED
  BY <1>1, Invariance, PTL

\* No repetition or reordering of votes gets a correct validator slashed,
\* whatever share of the stake is faulty.
THEOREM DetectorIsSound == Spec => []CorrectNotSlashed
<1>1. IInv => CorrectNotSlashed
  BY DEF IInv
<1> QED
  BY <1>1, Invariance, PTL

\* Certificates of a faulty minority agree, so IInv implies the agreements.
LEMMA IInvAgreements ==
  ASSUME FaultyMinority, IInv
  PROVE  Agreement /\ PrecommitsAgree
<1> USE DEF IInv
<1>1. Agreement
  <2> SUFFICES ASSUME NEW v \in Correct, NEW w \in Correct, NEW h \in Heights,
                      committed[v][h] # NoBlock, committed[w][h] # NoBlock
               PROVE  committed[v][h] = committed[w][h]
    BY DEF Agreement
  <2>1. /\ Certified(sent, "PRECOMMIT", h, committed[v][h])
        /\ Certified(sent, "PRECOMMIT", h, committed[w][h])
    BY DEF CommitsCertified
  <2>2. "PRECOMMIT" \in VoteKinds /\ OneVote /\ FaultyMinority
    BY DEF VoteKinds
  <2> QED
    BY ONLY <2>1, <2>2, CertificatesAgree
<1>2. PrecommitsAgree
  <2> SUFFICES ASSUME NEW m \in sent, NEW n \in sent, m.kind = "PRECOMMIT",
                      n.kind = "PRECOMMIT", m.height = n.height
               PROVE  m.block = n.block
    BY DEF PrecommitsAgree
  <2>1. /\ Certified(sent, "PREVOTE", m.height, m.block)
        /\ Certified(sent, "PREVOTE", m.height, n.block)
    BY DEF PrecommitsCertified
  <2>2. "PREVOTE" \in VoteKinds /\ OneVote /\ FaultyMinority
    BY DEF VoteKinds
  <2> QED
    BY ONLY <2>1, <2>2, CertificatesAgree
<1> QED
  BY <1>1, <1>2

\* With less than a third of the stake faulty, no two correct validators
\* commit different blocks at a height.
THEOREM ConsensusAgreement ==
  ASSUME FaultyMinority
  PROVE  Spec => []Agreement
<1>1. IInv => Agreement
  BY IInvAgreements
<1> QED
  BY <1>1, Invariance, PTL

\* Nor do they even precommit different blocks at a height.
THEOREM PrecommitAgreement ==
  ASSUME FaultyMinority
  PROVE  Spec => []PrecommitsAgree
<1>1. IInv => PrecommitsAgree
  BY IInvAgreements
<1> QED
  BY <1>1, Invariance, PTL

\* What commit_callback sees of the protocol is a behaviour of BlockDecision:
\* heights in order, no block taken back, none contradicted.
THEOREM ConsensusDecides ==
  ASSUME FaultyMinority
  PROVE  Spec => DecidesOnce
<1> USE ConsensusAssumption
<1>1. Init => Decision!Init
  BY DEF Init, Decision!Init
<1>2. ASSUME IInv, IInv', [Next]_vars PROVE [Decision!Next]_committed
  <2>1. CASE committed' = committed
    BY <2>1
  <2>2. ASSUME NEW v \in Correct, NEW m \in Arriving(v),
               height[v] < MaxHeight, Commit(v), proposal[v] # NoBlock
        PROVE  Decision!Next
    <3> DEFINE h == height[v]
               b == proposal[v]
    <3>1. h \in Heights /\ b \in Blocks
      BY <1>2, <2>2 DEF IInv, TypeOK
    <3>2. committed' = [committed EXCEPT ![v][h] = b]
      BY <2>2 DEF Commit
    <3>3. committed[v][h] = NoBlock
      BY <1>2, <3>1 DEF IInv, CommitsCertified, Heights
    <3>4. \A g \in Heights : g < h => committed[v][g] # NoBlock
      BY <1>2 DEF IInv, CommitsCertified
    <3>5. ASSUME NEW w \in Correct PROVE committed[w][h] \in {NoBlock, b}
      <4> SUFFICES ASSUME w # v, committed[w][h] # NoBlock PROVE committed[w][h] = b
        BY <3>3
      <4>1. committed'[v][h] = b /\ committed'[w][h] = committed[w][h]
        BY <1>2, <3>1, <3>2 DEF IInv, TypeOK
      <4>2. b # NoBlock
        BY <3>1
      <4>3. Agreement'
        <5>1. IInv' => Agreement'
          BY IInvAgreements, PTL
        <5> QED
          BY <5>1, <1>2
      <4> QED
        BY <3>1, <4>1, <4>2, <4>3 DEF Agreement
    <3> HIDE DEF h, b
    <3>6. Decision!Decide(v, h, b)
      BY <3>2, <3>3, <3>4, <3>5 DEF Decision!Decide
    <3> QED
      BY <3>1, <3>6 DEF Decision!Next
  <2>3. ASSUME NEW v \in Correct, height[v] < MaxHeight, Step(v)
        PROVE  [Decision!Next]_committed
    <3>1. CASE BumpRound(v) \/ \E b \in Blocks : Propose(v, b)
      BY <2>1, <3>1 DEF BumpRound, Propose
    <3>2. ASSUME NEW m \in Arriving(v),
                 ReceiveProposal(v, m) \/ ReceivePrevote(v, m)
          PROVE  committed' = committed
      BY <3>2 DEF ReceiveProposal, ReceivePrevote
    <3>3. ASSUME NEW m \in Arriving(v), ReceivePrecommit(v, m)
          PROVE  committed' = committed \/ (Commit(v) /\ proposal[v] # NoBlock)
      BY <3>3 DEF ReceivePrecommit, ReadyToCommit
    <3> QED
      BY <2>1, <2>2, <2>3, <3>1, <3>2, <3>3 DEF Step
  <2>4. CASE UNCHANGED vars
    BY <2>1, <2>4 DEF vars
  <2> QED
    BY <1>2, <2>3, <2>4 DEF Next
<1> QED
  BY <1>1, <1>2, Invariance, PTL DEF Spec, DecidesOnce, Decision!Spec
=============================================================================
