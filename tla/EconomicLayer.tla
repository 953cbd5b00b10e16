--------------------------- MODULE EconomicLayer ---------------------------
(***************************************************************************)
(* core/economic_layer.py over the stakes of core/buyer_ledger.py, with    *)
(* the gate that api/jobs_service.py and tools/auto_mesh.py put before the *)
(* auction.  Providers bond money, serve quorum jobs, lose bond when an    *)
(* accepted majority contradicts them, and get it back after a delay.      *)
(*                                                                         *)
(* Stakes are in the ledger's file and unbonding and records in another,   *)
(* so the process may stop between the two.  The methods run under one     *)
(* lock; only the time from an auction to its verdict is open.  Money is   *)
(* counted in the ledger's quantum; a price stands for what is slashed     *)
(* for it, the multiplier included.                                        *)
(***************************************************************************)
EXTENDS Integers, Sequences, FiniteSets, Sums

CONSTANTS
  Jobs,         \* quorum jobs
  Providers,    \* providers, named by their wallets
  Funds,        \* what each provider has at first
  RequireStake, \* PLUGINFER_REQUIRE_STAKE
  Prices,       \* mean bids of a consortium
  BaseStake,    \* PLUGINFER_BASE_STAKE_USD
  Delay,        \* PLUGINFER_UNBONDING_S
  Quarantine,   \* PLUGINFER_QUARANTINE_S
  MinDissents,  \* PLUGINFER_QUARANTINE_MIN_DISSENTS
  Rate,         \* PLUGINFER_QUARANTINE_RATE, in percent
  Window,       \* outcomes a record remembers
  MaxTime       \* bound: the clock

ASSUME EconomyAssumption ==
  /\ IsFiniteSet(Jobs) /\ IsFiniteSet(Providers)
  /\ {BaseStake, Delay, Quarantine, MinDissents, Rate, MaxTime} \subseteq Nat
  /\ Funds \in [Providers -> Nat]
  /\ RequireStake \in BOOLEAN
  /\ Window \in Nat \ {0}
  /\ Prices \subseteq Nat

VARIABLES
  available,  \* available_usd of each provider
  staked,     \* staked_usd
  unbonding,  \* _unbonding, the entries of each provider in order
  record,     \* _providers: whether each outcome was a dissent, quarantined_until
  file,       \* economic_layer.json
  serving,    \* quorum jobs between their auction and their verdict; bond is a
              \* history, what each member had staked and not asked for
  now,
  burnt       \* history: bonds slashed and, by a crash, given to nobody

ledger == <<available, staked>>
memory == <<unbonding, record>>
vars   == <<available, staked, unbonding, record, file, serving, now, burnt>>

Entry  == [amount : Nat \ {0}, mature : Nat]
Record == [outcomes : {o \in Seq(BOOLEAN) : Len(o) <= Window}, until : Nat]
NoJob  == [state |-> "new", members |-> {}, at |-> 0, bond |-> [p \in Providers |-> 0]]
JobDone == [NoJob EXCEPT !.state = "done"]

TypeOK ==
  /\ available \in [Providers -> Nat] /\ staked \in [Providers -> Nat]
  /\ unbonding \in [Providers -> Seq(Entry)]
  /\ record \in [Providers -> Record]
  /\ file \in [unbonding : [Providers -> Seq(Entry)], record : [Providers -> Record]]
  /\ serving \in [Jobs -> [state : {"new", "running", "done"}, members : SUBSET Providers,
                           at : Nat, bond : [Providers -> Nat]]]
  /\ now \in Nat /\ burnt \in Int

-----------------------------------------------------------------------------
(* Helpers. *)

Least(a, b) == IF a < b THEN a ELSE b
Minus(a, b) == IF a > b THEN a - b ELSE 0

\* The sum of the entries of a sequence at these places.
Amount(entries, places) == SumOver([i \in DOMAIN entries |-> entries[i].amount], places)

Pending(p) == Amount(unbonding[p], DOMAIN unbonding[p])

\* A fault: an entry may be claimed as soon as it is asked for.
AnyEntry(p) == DOMAIN unbonding[p]

\* The entries that may be claimed: the first ones, since all wait as long.
Matured(p) == {i \in DOMAIN unbonding[p] : unbonding[p][i].mature <= now}

Dissents(outcomes) == Cardinality({i \in DOMAIN outcomes : outcomes[i]})

RequiredStake(p) == BaseStake * (1 + Dissents(record[p].outcomes))

\* The quarantine always bars; the bond only where the operator asks for it.
Eligible(p) ==
  /\ record[p].until <= now
  /\ RequireStake => staked[p] >= RequiredStake(p)

\* deque(maxlen): the oldest outcome makes room.
Remember(outcomes, dissent) ==
  LET all == Append(outcomes, dissent)
  IN  IF Len(all) > Window THEN Tail(all) ELSE all

\* The record of a provider a majority contradicts.
Dissented(r) ==
  LET out == Remember(r.outcomes, TRUE)
      d   == Dissents(out)
  IN  [outcomes |-> out,
       until    |-> IF d >= MinDissents /\ 100 * d > Rate * Len(out) THEN now + Quarantine
                    ELSE r.until]

Agreed(r) == [r EXCEPT !.outcomes = Remember(@, FALSE)]

\* quantize: to the nearest, and a half to the even.
Quantized(a, n) ==
  LET q == a \div n
      r == a % n
  IN  IF 2 * r > n \/ (2 * r = n /\ q % 2 = 1) THEN q + 1 ELSE q

\* A fault: the remainder is not given to anybody.
EqualShares(pot, majority, last) ==
  [p \in Providers |-> IF p \in majority THEN Quantized(pot, Cardinality(majority)) ELSE 0]

\* The pot split equally, the last of the majority taking what is left.
Shares(pot, majority, last) ==
  LET share == Quantized(pot, Cardinality(majority))
  IN  [p \in Providers |->
         IF p \notin majority THEN 0
         ELSE IF p = last THEN Minus(pot, share * (Cardinality(majority) - 1))
         ELSE share]

\* A fault: the file keeps the quarantines it had.
SaveButQuarantine ==
  file' = [unbonding |-> unbonding',
           record    |-> [p \in Providers |-> [record'[p] EXCEPT !.until = file.record[p].until]]]

Save == file' = [unbonding |-> unbonding', record |-> record']

-----------------------------------------------------------------------------
(* The bond. *)

Stake(p, a) ==
  /\ a > 0 /\ available[p] >= a
  /\ available' = [available EXCEPT ![p] = @ - a]
  /\ staked' = [staked EXCEPT ![p] = @ + a]
  /\ UNCHANGED <<memory, serving, now, burnt>>
  /\ Save

RequestUnstake(p, a) ==
  /\ a > 0 /\ staked[p] >= Pending(p) + a
  /\ unbonding' = [unbonding EXCEPT ![p] = Append(@, [amount |-> a, mature |-> now + Delay])]
  /\ UNCHANGED <<ledger, record, serving, now, burnt>>
  /\ Save

\* A fault: the entries are given back in full.
GiveWhole(p, places) ==
  LET take == Amount(unbonding[p], places)
  IN  /\ staked' = [staked EXCEPT ![p] = @ - take]
      /\ available' = [available EXCEPT ![p] = @ + take]

\* The ledger's part of a claim of these entries, shrunk to what is staked.
Give(p, places) ==
  LET take == Least(staked[p], Amount(unbonding[p], places))
  IN  /\ staked' = [staked EXCEPT ![p] = @ - take]
      /\ available' = [available EXCEPT ![p] = @ + take]

\* A claim of nothing saves all the same.
ClaimUnstaked(p) ==
  /\ Give(p, Matured(p))
  /\ unbonding' = [unbonding EXCEPT ![p] = SubSeq(@, Cardinality(Matured(p)) + 1, Len(@))]
  /\ UNCHANGED <<record, serving, now, burnt>>
  /\ Save

-----------------------------------------------------------------------------
(* Quorum jobs. *)

\* The auction asks the gate and takes a consortium of two or more.
Admit(j) ==
  /\ serving[j].state = "new"
  /\ \E members \in SUBSET {p \in Providers : Eligible(p)} :
       /\ Cardinality(members) >= 2
       /\ serving' = [serving EXCEPT ![j] =
            [state |-> "running", members |-> members, at |-> now,
             bond |-> [p \in Providers |->
                         IF p \in members THEN Minus(staked[p], Pending(p)) ELSE 0]]]
  /\ UNCHANGED <<ledger, memory, file, now, burnt>>

\* evaluate_quorum: who returned the accepted result and who another one.
Verdict(members, majority, dissenters) ==
  /\ majority \subseteq members
  /\ dissenters \subseteq members \ majority
  /\ Cardinality(majority) >= Cardinality(members) \div 2 + 1

\* The bonds an open job counts on, less what was slashed of them.
Done(j, taken) ==
  serving' = [k \in Jobs |->
                IF k = j THEN JobDone
                ELSE [serving[k] EXCEPT !.bond = [p \in Providers |-> Minus(@[p], taken[p])]]]

Taken(dissenters, price) ==
  [p \in Providers |-> IF p \in dissenters THEN Least(staked[p], price) ELSE 0]

Judged(majority, dissenters) ==
  [p \in Providers |-> IF p \in majority THEN Agreed(record[p])
                       ELSE IF p \in dissenters THEN Dissented(record[p]) ELSE record[p]]

\* No quorum, no result, or a failed execution: nobody was proved wrong.
Dispute(j) ==
  /\ serving[j].state = "running"
  /\ serving' = [serving EXCEPT ![j] = JobDone]
  /\ UNCHANGED <<ledger, memory, file, now, burnt>>

\* record_quorum_outcome of an accepted verdict.
RecordOutcome(j, majority, dissenters, price) ==
  LET taken == Taken(dissenters, price)
      pot   == SumOver(taken, Providers)
  IN  /\ serving[j].state = "running"
      /\ Verdict(serving[j].members, majority, dissenters)
      /\ dissenters # {} => price > 0
      /\ \E last \in majority :
           available' = [p \in Providers |-> available[p] + Shares(pot, majority, last)[p]]
      /\ staked' = [p \in Providers |-> staked[p] - taken[p]]
      /\ record' = Judged(majority, dissenters)
      /\ Done(j, taken)
      /\ UNCHANGED <<unbonding, now, burnt>>
      /\ Save

\* What is recorded of a verdict that raises at its first dissenter.
HalfJudged(majority, first) ==
  [p \in Providers |-> IF p \in majority THEN Agreed(record[p])
                       ELSE IF p = first THEN [record[p] EXCEPT !.outcomes = Remember(@, TRUE)]
                       ELSE record[p]]

\* A price of zero: slash_stake raises for the first dissenter, the service
\* goes on, and what was recorded so far is in memory only.
RecordRaises(j, majority, dissenters) ==
  /\ serving[j].state = "running"
  /\ 0 \in Prices
  /\ Verdict(serving[j].members, majority, dissenters)
  /\ \E first \in dissenters : record' = HalfJudged(majority, first)
  /\ serving' = [serving EXCEPT ![j] = JobDone]
  /\ UNCHANGED <<ledger, unbonding, file, now, burnt>>

-----------------------------------------------------------------------------
(* Time, and the process stopping. *)

Tick ==
  /\ now < MaxTime
  /\ now' = now + 1
  /\ UNCHANGED <<ledger, memory, file, serving, burnt>>

\* _load, and the jobs that were open are interrupted.
Boot ==
  /\ unbonding' = file.unbonding
  /\ record' = file.record
  /\ serving' = [j \in Jobs |-> IF serving[j].state = "running"
                                THEN JobDone ELSE serving[j]]
  /\ UNCHANGED <<file, now>>

Restart == Boot /\ UNCHANGED <<ledger, burnt>>

\* Entries are released in the ledger's file and still in the other.
CrashInClaim(p) ==
  /\ \E k \in 1 .. Cardinality(Matured(p)) : Give(p, 1 .. k)
  /\ UNCHANGED burnt
  /\ Boot

\* Some are slashed, some of the pot may be paid, and nothing is recorded.
CrashInRecord(j, majority, dissenters, price) ==
  /\ serving[j].state = "running"
  /\ price > 0
  /\ Verdict(serving[j].members, majority, dissenters)
  /\ \E slashed \in (SUBSET dissenters) \ {{}} :
       LET taken == Taken(slashed, price)
           pot   == SumOver(taken, Providers)
       IN  \E paid \in IF slashed = dissenters THEN SUBSET majority ELSE {{}}, last \in majority :
             /\ last \in paid => paid = majority
             /\ LET awards == [p \in Providers |-> IF p \in paid THEN Shares(pot, majority, last)[p]
                                                   ELSE 0]
                IN  /\ staked' = [p \in Providers |-> staked[p] - taken[p]]
                    /\ available' = [p \in Providers |-> available[p] + awards[p]]
                    /\ burnt' = burnt + pot - SumOver(awards, Providers)
  /\ Boot

-----------------------------------------------------------------------------

Init ==
  /\ available = Funds
  /\ staked = [p \in Providers |-> 0]
  /\ unbonding = [p \in Providers |-> <<>>]
  /\ record = [p \in Providers |-> [outcomes |-> <<>>, until |-> 0]]
  /\ file = [unbonding |-> unbonding, record |-> record]
  /\ serving = [j \in Jobs |-> NoJob]
  /\ now = 0 /\ burnt = 0

Next ==
  \/ \E p \in Providers :
       \/ \E a \in 1 .. available[p] : Stake(p, a)
       \/ \E a \in 1 .. staked[p] : RequestUnstake(p, a)
       \/ ClaimUnstaked(p) \/ CrashInClaim(p)
  \/ \E j \in Jobs :
       \/ Admit(j) \/ Dispute(j)
       \/ \E majority, dissenters \in SUBSET serving[j].members :
            \/ RecordRaises(j, majority, dissenters)
            \/ \E price \in Prices : \/ RecordOutcome(j, majority, dissenters, price)
                                     \/ CrashInRecord(j, majority, dissenters, price)
  \/ Tick
  \/ Restart

Spec == Init /\ [][Next]_vars

-----------------------------------------------------------------------------
(* Properties. *)

\* Slashing moves money and neither makes nor destroys any: all bonds and
\* balances together are what they were, but for the pots a crash left
\* between slash_stake and slash_award.
MoneyStays ==
  SumOver(available, Providers) + SumOver(staked, Providers) + burnt
    = SumOver(Funds, Providers)

\* Nobody cheats and then withdraws the bond (economic_layer.py, lines 19 to
\* 22): what a member of an open job had staked and not asked for when the
\* auction took it stays slashable until a whole delay has passed, through
\* other slashes, claims and the crash of a claim.
BondStays ==
  \A j \in Jobs, p \in Providers :
    serving[j].state = "running" /\ now < serving[j].at + Delay => staked[p] >= serving[j].bond[p]

\* A quarantine ends when its time has come and no sooner: no verdict and no
\* restart, however it falls, shortens one.
QuarantineLasts ==
  [][\A p \in Providers : record[p].until > now => record'[p].until >= record[p].until]_vars
=============================================================================
