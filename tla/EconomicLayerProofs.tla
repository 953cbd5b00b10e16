------------------------ MODULE EconomicLayerProofs ------------------------
(***************************************************************************)
(* Proofs about EconomicLayer, for any providers, jobs, prices and delays: *)
(* its types, that a quarantine lasts, and that a bond an open job counts  *)
(* on stays slashable for a whole delay.                                   *)
(***************************************************************************)
EXTENDS EconomicLayer, SumLemmas, SequenceTheorems

-----------------------------------------------------------------------------
(* Helpers return what their names say. *)

LEMMA PlacesFinite ==
  ASSUME NEW u \in Seq(Entry), NEW P \in SUBSET DOMAIN u
  PROVE  /\ IsFiniteSet(P)
         /\ \A i \in P : [k \in DOMAIN u |-> u[k].amount][i] \in Nat
<1>1. DOMAIN u = 1 .. Len(u) /\ Len(u) \in Nat
  OBVIOUS
<1>2. IsFiniteSet(1 .. Len(u))
  BY <1>1, FS_Interval
<1>3. \A i \in P : u[i] \in Entry
  BY <1>1
<1> QED
  BY <1>1, <1>2, <1>3, FS_Subset DEF Entry

LEMMA AmountNat ==
  ASSUME NEW u \in Seq(Entry), NEW P \in SUBSET DOMAIN u
  PROVE  Amount(u, P) \in Nat
BY PlacesFinite, SumNat DEF Amount

\* A slash takes no more than is staked.
LEMMA TakenType ==
  ASSUME TypeOK, NEW dissenters, NEW price \in Nat
  PROVE  /\ Taken(dissenters, price) \in [Providers -> Nat]
         /\ \A p \in Providers : Taken(dissenters, price)[p] <= staked[p]
         /\ SumOver(Taken(dissenters, price), Providers) \in Nat
<1>1. /\ Taken(dissenters, price) \in [Providers -> Nat]
      /\ \A p \in Providers : Taken(dissenters, price)[p] <= staked[p]
  BY DEF TypeOK, Taken, Least
<1>2. IsFiniteSet(Providers)
  BY EconomyAssumption
<1> QED
  BY <1>1, <1>2, SumNat

LEMMA QuantizedNat ==
  ASSUME NEW a \in Nat, NEW n \in Nat \ {0}
  PROVE  Quantized(a, n) \in Nat
<1>1. a \div n \in Nat
  OBVIOUS
<1> QED
  BY <1>1 DEF Quantized

LEMMA SharesType ==
  ASSUME NEW pot \in Nat, NEW majority \in SUBSET Providers, majority # {}, NEW last
  PROVE  Shares(pot, majority, last) \in [Providers -> Nat]
<1> DEFINE n == Cardinality(majority)
           share == Quantized(pot, n)
<1>1. IsFiniteSet(majority)
  BY EconomyAssumption, FS_Subset
<1>2. n \in Nat \ {0}
  BY <1>1, FS_CardinalityType, FS_EmptySet
<1>3. share \in Nat
  BY <1>2, QuantizedNat
<1>4. share * (n - 1) \in Nat
  <2>1. n - 1 \in Nat
    BY <1>2
  <2> HIDE DEF share, n
  <2> QED
    BY <1>3, <2>1
<1>5. Minus(pot, share * (n - 1)) \in Nat
  <2> HIDE DEF share, n
  <2> QED
    BY <1>4 DEF Minus
<1> QED
  BY <1>3, <1>5 DEF Shares

\* An accepted verdict has a majority.
LEMMA MajorityOfMembers ==
  ASSUME TypeOK, NEW j \in Jobs, NEW majority, NEW dissenters,
         Verdict(serving[j].members, majority, dissenters)
  PROVE  majority \in SUBSET Providers /\ majority # {}
<1>1. serving[j].members \in SUBSET Providers
  BY DEF TypeOK
<1>2. IsFiniteSet(serving[j].members)
  BY <1>1, EconomyAssumption, FS_Subset
<1>3. Cardinality(serving[j].members) \div 2 \in Nat
  BY <1>2, FS_CardinalityType
<1>4. majority \in SUBSET serving[j].members
  BY DEF Verdict
<1>5. Cardinality(majority) \in Nat
  BY <1>2, <1>4, FS_Subset, FS_CardinalityType
<1>6. Cardinality(majority) # 0
  BY <1>3, <1>5 DEF Verdict
<1>7. majority # {}
  BY <1>6, FS_EmptySet
<1> QED
  BY <1>1, <1>4, <1>7

\* A record remembers one window, and a verdict ends no quarantine sooner.
LEMMA RememberType ==
  ASSUME NEW o \in Seq(BOOLEAN), Len(o) <= Window, NEW b \in BOOLEAN
  PROVE  Remember(o, b) \in Seq(BOOLEAN) /\ Len(Remember(o, b)) <= Window
<1> DEFINE all == Append(o, b)
<1>1. all \in Seq(BOOLEAN) /\ Len(all) = Len(o) + 1
  OBVIOUS
<1>2. Window \in Nat /\ Len(o) \in Nat
  BY EconomyAssumption
<1> HIDE DEF all
<1>3. Remember(o, b) = IF Len(all) > Window THEN Tail(all) ELSE all
  BY DEF Remember, all
<1>4. all # <<>>
  BY <1>1, <1>2
<1>5. Tail(all) \in Seq(BOOLEAN) /\ Len(Tail(all)) = Len(all) - 1
  BY <1>1, <1>4, HeadTailProperties
<1>6. CASE Len(all) > Window
  <2>1. Len(Tail(all)) <= Window
    BY <1>1, <1>2, <1>5
  <2>2. Remember(o, b) = Tail(all)
    BY <1>3, <1>6, Zenon
  <2> QED
    BY <1>5, <2>1, <2>2, Zenon
<1>7. CASE ~(Len(all) > Window)
  <2>1. Len(all) <= Window
    BY <1>1, <1>2, <1>7
  <2>2. Remember(o, b) = all
    BY <1>3, <1>7, Zenon
  <2> QED
    BY <1>1, <2>1, <2>2, Zenon
<1> QED
  BY <1>6, <1>7

LEMMA JudgedType ==
  ASSUME TypeOK, NEW majority, NEW dissenters
  PROVE  /\ Judged(majority, dissenters) \in [Providers -> Record]
         /\ \A p \in Providers :
              Judged(majority, dissenters)[p].until \in {record[p].until, now + Quarantine}
<1>1. now + Quarantine \in Nat
  BY EconomyAssumption DEF TypeOK
<1>2. ASSUME NEW p \in Providers
      PROVE  /\ record[p] \in Record
             /\ Agreed(record[p]) \in Record
             /\ Agreed(record[p]).until = record[p].until
             /\ Dissented(record[p]) \in Record
             /\ Dissented(record[p]).until \in {record[p].until, now + Quarantine}
  <2> DEFINE r == record[p]
             kept == Remember(r.outcomes, FALSE)
             out == Remember(r.outcomes, TRUE)
  <2>1. r \in Record
    BY DEF TypeOK
  <2>2. r.outcomes \in Seq(BOOLEAN) /\ Len(r.outcomes) <= Window /\ r.until \in Nat
    BY <2>1 DEF Record
  <2>3. /\ kept \in Seq(BOOLEAN) /\ Len(kept) <= Window
        /\ out \in Seq(BOOLEAN) /\ Len(out) <= Window
    BY <2>1, <2>2, RememberType
  <2>4. Agreed(r) = [r EXCEPT !.outcomes = kept]
    BY DEF Agreed
  <2>5. PICK u \in {r.until, now + Quarantine} : Dissented(r) = [outcomes |-> out, until |-> u]
    BY DEF Dissented
  <2> HIDE DEF kept, out, r
  <2>6. Agreed(r) \in Record /\ Agreed(r).until = r.until
    BY <2>1, <2>2, <2>3, <2>4 DEF Record
  <2>7. Dissented(r) \in Record /\ Dissented(r).until = u
    BY <1>1, <2>2, <2>3, <2>5 DEF Record
  <2> QED
    BY <2>1, <2>6, <2>7 DEF r
<1> QED
  BY <1>2 DEF Judged

\* What is left in memory of a verdict that raises.
LEMMA HalfJudgedType ==
  ASSUME TypeOK, NEW majority, NEW first
  PROVE  /\ HalfJudged(majority, first) \in [Providers -> Record]
         /\ \A p \in Providers : HalfJudged(majority, first)[p].until = record[p].until
<1>1. ASSUME NEW p \in Providers
      PROVE  /\ record[p] \in Record
             /\ Agreed(record[p]) \in Record /\ Agreed(record[p]).until = record[p].until
             /\ [record[p] EXCEPT !.outcomes = Remember(@, TRUE)] \in Record
             /\ [record[p] EXCEPT !.outcomes = Remember(@, TRUE)].until = record[p].until
  <2> DEFINE r == record[p]
             kept == Remember(r.outcomes, FALSE)
             out == Remember(r.outcomes, TRUE)
  <2>1. r \in Record
    BY DEF TypeOK
  <2>2. r.outcomes \in Seq(BOOLEAN) /\ Len(r.outcomes) <= Window /\ r.until \in Nat
    BY <2>1 DEF Record
  <2>3. /\ kept \in Seq(BOOLEAN) /\ Len(kept) <= Window
        /\ out \in Seq(BOOLEAN) /\ Len(out) <= Window
    BY <2>2, RememberType
  <2>4. Agreed(r) = [r EXCEPT !.outcomes = kept]
    BY DEF Agreed
  <2>5. [r EXCEPT !.outcomes = Remember(@, TRUE)] = [r EXCEPT !.outcomes = out]
    OBVIOUS
  <2> HIDE DEF kept, out, r
  <2>6. Agreed(r) \in Record /\ Agreed(r).until = r.until
    BY <2>1, <2>2, <2>3, <2>4 DEF Record
  <2>7. [r EXCEPT !.outcomes = out] \in Record /\ [r EXCEPT !.outcomes = out].until = r.until
    BY <2>1, <2>2, <2>3 DEF Record
  <2> QED
    BY <2>1, <2>5, <2>6, <2>7 DEF r
<1> QED
  BY <1>1 DEF HalfJudged

-----------------------------------------------------------------------------
(* Types. *)

\* A new process starts from what the file holds.
LEMMA BootType ==
  ASSUME TypeOK, Boot
  PROVE  /\ unbonding' \in [Providers -> Seq(Entry)] /\ record' \in [Providers -> Record]
         /\ file' = file /\ now' = now
         /\ serving' \in [Jobs -> [state : {"new", "running", "done"}, members : SUBSET Providers,
                                   at : Nat, bond : [Providers -> Nat]]]
<1>1. JobDone \in [state : {"new", "running", "done"}, members : SUBSET Providers,
                   at : Nat, bond : [Providers -> Nat]]
  BY DEF JobDone, NoJob
<1> QED
  BY <1>1 DEF Boot, TypeOK

\* The ledger's part of a claim, whole or cut short.
LEMMA GiveType ==
  ASSUME TypeOK, NEW p \in Providers, NEW places \in SUBSET DOMAIN unbonding[p],
         Give(p, places)
  PROVE  available' \in [Providers -> Nat] /\ staked' \in [Providers -> Nat]
<1> DEFINE take == Least(staked[p], Amount(unbonding[p], places))
<1>1. Amount(unbonding[p], places) \in Nat
  BY AmountNat DEF TypeOK
<1>2. take \in Nat /\ take <= staked[p]
  BY <1>1 DEF TypeOK, Least
<1> HIDE DEF take
<1>3. /\ staked' = [staked EXCEPT ![p] = @ - take]
      /\ available' = [available EXCEPT ![p] = @ + take]
  BY DEF Give, take
<1> QED
  BY <1>2, <1>3 DEF TypeOK

\* The first of the entries that may be claimed are entries.
LEMMA FirstPlaces ==
  ASSUME TypeOK, NEW p \in Providers, NEW k \in 1 .. Cardinality(Matured(p))
  PROVE  1 .. k \in SUBSET DOMAIN unbonding[p]
<1>1. unbonding[p] \in Seq(Entry) /\ Matured(p) \in SUBSET DOMAIN unbonding[p]
  BY DEF TypeOK, Matured
<1>2. DOMAIN unbonding[p] = 1 .. Len(unbonding[p]) /\ Len(unbonding[p]) \in Nat
  BY <1>1
<1>3. IsFiniteSet(1 .. Len(unbonding[p])) /\ Cardinality(1 .. Len(unbonding[p])) = Len(unbonding[p])
  BY <1>2, FS_Interval
<1>4. Cardinality(Matured(p)) \in Nat /\ Cardinality(Matured(p)) <= Len(unbonding[p])
  BY <1>1, <1>2, <1>3, FS_Subset, FS_CardinalityType
<1> QED
  BY <1>2, <1>4

LEMMA TypeStep == TypeOK /\ [Next]_vars => TypeOK'
<1> SUFFICES ASSUME TypeOK, [Next]_vars PROVE TypeOK'
  OBVIOUS
<1> DEFINE Job == [state : {"new", "running", "done"}, members : SUBSET Providers,
                   at : Nat, bond : [Providers -> Nat]]
<1>1. /\ JobDone \in Job /\ JobDone.bond = [p \in Providers |-> 0]
      /\ now + Delay \in Nat
  <2>1. /\ NoJob \in Job
        /\ JobDone = [state |-> "done", members |-> {}, at |-> 0, bond |-> [p \in Providers |-> 0]]
    BY DEF NoJob, JobDone
  <2>2. [p \in Providers |-> 0] \in [Providers -> Nat]
    OBVIOUS
  <2>3. now + Delay \in Nat
    BY EconomyAssumption DEF TypeOK
  <2> QED
    BY <2>1, <2>2, <2>3
<1>2. ASSUME NEW p \in Providers, NEW a \in 1 .. available[p], Stake(p, a) PROVE TypeOK'
  BY <1>2 DEF TypeOK, Stake, Save, memory
<1>3. ASSUME NEW p \in Providers, NEW a \in 1 .. staked[p], RequestUnstake(p, a)
      PROVE  TypeOK'
  <2>1. [amount |-> a, mature |-> now + Delay] \in Entry
    BY <1>1, <1>3 DEF Entry, TypeOK
  <2>2. Append(unbonding[p], [amount |-> a, mature |-> now + Delay]) \in Seq(Entry)
    BY <2>1, AppendProperties DEF TypeOK
  <2> QED
    BY <1>3, <2>2 DEF TypeOK, RequestUnstake, Save, ledger
<1>4. ASSUME NEW p \in Providers, ClaimUnstaked(p) PROVE TypeOK'
  <2>1. Matured(p) \in SUBSET DOMAIN unbonding[p]
    BY DEF Matured
  <2>2. available' \in [Providers -> Nat] /\ staked' \in [Providers -> Nat]
    BY <1>4, <2>1, GiveType DEF ClaimUnstaked
  <2>3. SubSeq(unbonding[p], Cardinality(Matured(p)) + 1, Len(unbonding[p])) \in Seq(Entry)
    <3>1. unbonding[p] \in Seq(Entry)
      BY DEF TypeOK
    <3>2. Cardinality(Matured(p)) \in Nat
      BY <2>1, <3>1, PlacesFinite, FS_CardinalityType
    <3>3. \A i \in Cardinality(Matured(p)) + 1 .. Len(unbonding[p]) : unbonding[p][i] \in Entry
      BY <3>1, <3>2
    <3> QED
      BY <3>1, <3>2, <3>3, SubSeqProperties
  <2> QED
    BY <1>4, <2>2, <2>3 DEF TypeOK, ClaimUnstaked, Save
<1>5. ASSUME NEW p \in Providers, CrashInClaim(p) PROVE TypeOK'
  <2>1. PICK k \in 1 .. Cardinality(Matured(p)) : Give(p, 1 .. k)
    BY <1>5 DEF CrashInClaim
  <2>2. 1 .. k \in SUBSET DOMAIN unbonding[p]
    BY FirstPlaces
  <2>3. available' \in [Providers -> Nat] /\ staked' \in [Providers -> Nat]
    BY <2>1, <2>2, GiveType
  <2> QED
    BY <1>5, <2>3, BootType DEF CrashInClaim, TypeOK
<1>6. ASSUME NEW j \in Jobs, Admit(j) PROVE TypeOK'
  <2>1. PICK members \in SUBSET {p \in Providers : Eligible(p)} :
          serving' = [serving EXCEPT ![j] =
            [state |-> "running", members |-> members, at |-> now,
             bond |-> [p \in Providers |->
                         IF p \in members THEN Minus(staked[p], Pending(p)) ELSE 0]]]
    BY <1>6 DEF Admit
  <2>2. \A p \in Providers : Minus(staked[p], Pending(p)) \in Nat
    BY AmountNat DEF Minus, Pending, TypeOK
  <2> QED
    BY <1>6, <2>1, <2>2 DEF Admit, ledger, memory, TypeOK
<1>7. ASSUME NEW j \in Jobs, Dispute(j) PROVE TypeOK'
  BY <1>1, <1>7 DEF Dispute, ledger, memory, TypeOK
<1>8. ASSUME NEW j \in Jobs, NEW majority, NEW dissenters, RecordRaises(j, majority, dissenters)
      PROVE  TypeOK'
  <2>1. PICK first \in dissenters : record' = HalfJudged(majority, first)
    BY <1>8 DEF RecordRaises
  <2>2. record' \in [Providers -> Record]
    BY <2>1, HalfJudgedType
  <2> QED
    BY <1>1, <1>8, <2>2 DEF RecordRaises, ledger, TypeOK
<1>9. ASSUME NEW j \in Jobs, NEW majority, NEW dissenters, NEW price \in Prices,
             RecordOutcome(j, majority, dissenters, price)
      PROVE  TypeOK'
  <2> DEFINE taken == Taken(dissenters, price)
             pot   == SumOver(taken, Providers)
  <2>1. /\ taken \in [Providers -> Nat] /\ pot \in Nat
        /\ \A p \in Providers : taken[p] <= staked[p]
    BY EconomyAssumption, TakenType
  <2>2. majority \in SUBSET Providers /\ majority # {}
    BY <1>9, MajorityOfMembers DEF RecordOutcome
  <2>3. \A last \in majority : Shares(pot, majority, last) \in [Providers -> Nat]
    <3> HIDE DEF pot
    <3> QED BY <2>1, <2>2, SharesType
  <2>4. PICK last \in majority :
          available' = [p \in Providers |-> available[p] + Shares(pot, majority, last)[p]]
    BY <1>9 DEF RecordOutcome
  <2>5. available' \in [Providers -> Nat]
    <3> HIDE DEF pot
    <3> QED BY <2>3, <2>4 DEF TypeOK
  <2>6. staked' \in [Providers -> Nat]
    <3>1. staked' = [p \in Providers |-> staked[p] - taken[p]]
      BY <1>9 DEF RecordOutcome
    <3> HIDE DEF taken
    <3> QED BY <2>1, <3>1 DEF TypeOK
  <2>7. record' \in [Providers -> Record]
    BY <1>9, JudgedType DEF RecordOutcome
  <2>8. serving' \in [Jobs -> Job]
    <3>1. serving' = [k \in Jobs |->
             IF k = j THEN JobDone
             ELSE [serving[k] EXCEPT !.bond = [p \in Providers |-> Minus(@[p], taken[p])]]]
      BY <1>9 DEF RecordOutcome, Done
    <3>2. \A k \in Jobs : [p \in Providers |-> Minus(serving[k].bond[p], taken[p])] \in [Providers -> Nat]
      <4> HIDE DEF taken
      <4> QED BY <2>1 DEF Minus, TypeOK
    <3> HIDE DEF taken
    <3> QED BY <1>1, <3>1, <3>2, ZenonT(60) DEF TypeOK
  <2> QED
    BY <1>9, <2>5, <2>6, <2>7, <2>8 DEF RecordOutcome, Save, TypeOK
<1>10. ASSUME NEW j \in Jobs, NEW majority, NEW dissenters, NEW price \in Prices,
             CrashInRecord(j, majority, dissenters, price)
      PROVE  TypeOK'
  <2>1. PICK slashed \in SUBSET dissenters, paid \in SUBSET majority, last \in majority :
          LET taken == Taken(slashed, price)
              pot   == SumOver(taken, Providers)
              awards == [p \in Providers |-> IF p \in paid THEN Shares(pot, majority, last)[p]
                                             ELSE 0]
          IN  /\ staked' = [p \in Providers |-> staked[p] - taken[p]]
              /\ available' = [p \in Providers |-> available[p] + awards[p]]
              /\ burnt' = burnt + pot - SumOver(awards, Providers)
    <3>1. PICK slashed \in (SUBSET dissenters) \ {{}} :
            LET taken == Taken(slashed, price)
                pot   == SumOver(taken, Providers)
            IN  \E paid \in IF slashed = dissenters THEN SUBSET majority ELSE {{}}, last \in majority :
                  /\ last \in paid => paid = majority
                  /\ LET awards == [p \in Providers |->
                                      IF p \in paid THEN Shares(pot, majority, last)[p] ELSE 0]
                     IN  /\ staked' = [p \in Providers |-> staked[p] - taken[p]]
                         /\ available' = [p \in Providers |-> available[p] + awards[p]]
                         /\ burnt' = burnt + pot - SumOver(awards, Providers)
      BY <1>10 DEF CrashInRecord
    <3>2. (IF slashed = dissenters THEN SUBSET majority ELSE {{}}) \subseteq SUBSET majority
      OBVIOUS
    <3> QED
      BY <3>1, <3>2, ZenonT(60)
  <2> DEFINE taken == Taken(slashed, price)
             pot   == SumOver(taken, Providers)
             shares == Shares(pot, majority, last)
             awards == [p \in Providers |-> IF p \in paid THEN shares[p] ELSE 0]
  <2>2. /\ taken \in [Providers -> Nat] /\ pot \in Nat
        /\ \A p \in Providers : taken[p] <= staked[p]
    BY EconomyAssumption, TakenType
  <2>3. majority \in SUBSET Providers /\ majority # {}
    BY <1>10, MajorityOfMembers DEF CrashInRecord
  <2>4. shares \in [Providers -> Nat]
    <3> HIDE DEF pot
    <3> QED BY <2>2, <2>3, SharesType
  <2>5. awards \in [Providers -> Nat]
    <3> HIDE DEF shares
    <3> QED BY <2>4
  <2>6. SumOver(awards, Providers) \in Nat
    <3> HIDE DEF awards
    <3> QED BY <2>5, SumNat, EconomyAssumption
  <2>7. /\ staked' = [p \in Providers |-> staked[p] - taken[p]]
        /\ available' = [p \in Providers |-> available[p] + awards[p]]
        /\ burnt' = burnt + pot - SumOver(awards, Providers)
    BY <2>1
  <2>8. Boot
    BY <1>10 DEF CrashInRecord
  <2> HIDE DEF taken, pot, shares, awards
  <2>9. staked' \in [Providers -> Nat]
    BY <2>2, <2>7 DEF TypeOK
  <2>10. available' \in [Providers -> Nat]
    BY <2>5, <2>7 DEF TypeOK
  <2>11. burnt' \in Int
    <3> DEFINE paidOut == SumOver(awards, Providers)
    <3>1. paidOut \in Nat /\ burnt' = burnt + pot - paidOut
      BY <2>6, <2>7
    <3> HIDE DEF paidOut
    <3> QED
      BY <2>2, <3>1 DEF TypeOK
  <2> QED
    BY <2>8, <2>9, <2>10, <2>11, BootType DEF TypeOK
<1>11. CASE Tick
  BY <1>11 DEF Tick, ledger, memory, TypeOK
<1>12. CASE Restart
  BY <1>12, BootType DEF Restart, ledger, TypeOK
<1>13. CASE UNCHANGED vars
  BY <1>13 DEF vars, ledger, memory, TypeOK
<1> QED
  BY <1>2, <1>3, <1>4, <1>5, <1>6, <1>7, <1>8, <1>9, <1>10, <1>11, <1>12, <1>13 DEF Next

\* Every variable keeps its type (the types of EconomicLayer).
THEOREM TypeCorrect == Spec => []TypeOK
<1>1. Init => TypeOK
  <2> SUFFICES ASSUME Init PROVE TypeOK
    OBVIOUS
  <2>1. <<>> \in Seq(Entry)
    OBVIOUS
  <2>2. [outcomes |-> <<>>, until |-> 0] \in Record
    BY EconomyAssumption DEF Record
  <2>3. NoJob \in [state : {"new", "running", "done"}, members : SUBSET Providers,
                   at : Nat, bond : [Providers -> Nat]]
    BY DEF NoJob
  <2> QED
    BY <2>1, <2>2, <2>3, EconomyAssumption DEF Init, TypeOK
<1> QED
  BY <1>1, TypeStep, PTL DEF Spec

-----------------------------------------------------------------------------
(* Quarantines. *)

\* What keeps a quarantine: the file has it, and none is ahead of the clock
\* by more than its length, so a new one never ends before an old one.
QuarantineInv ==
  \A p \in Providers : /\ file.record[p].until = record[p].until
                       /\ record[p].until <= now + Quarantine

NoneSooner == \A p \in Providers : record'[p].until >= record[p].until

LEMMA QuarantineStep ==
  ASSUME TypeOK, QuarantineInv, [Next]_vars
  PROVE  QuarantineInv' /\ NoneSooner
<1>1. /\ \A p \in Providers : record[p].until \in Nat
      /\ now \in Nat /\ Quarantine \in Nat
  BY EconomyAssumption DEF TypeOK, Record
<1>2. ASSUME record' = record, now' >= now, now' \in Nat,
             file'.record = record \/ file' = file
      PROVE  QuarantineInv' /\ NoneSooner
  BY <1>1, <1>2 DEF QuarantineInv, NoneSooner
<1>3. ASSUME Boot PROVE QuarantineInv' /\ NoneSooner
  BY <1>1, <1>3 DEF Boot, QuarantineInv, NoneSooner
<1>4. ASSUME NEW p \in Providers, NEW a, Stake(p, a) \/ RequestUnstake(p, a) \/ ClaimUnstaked(p)
      PROVE  QuarantineInv' /\ NoneSooner
  BY <1>1, <1>2, <1>4 DEF Stake, RequestUnstake, ClaimUnstaked, Save, memory
<1>5. ASSUME NEW j \in Jobs, Admit(j) \/ Dispute(j)
      PROVE  QuarantineInv' /\ NoneSooner
  BY <1>1, <1>2, <1>5 DEF Admit, Dispute, memory
<1>6. ASSUME NEW j \in Jobs, NEW majority, NEW dissenters, RecordRaises(j, majority, dissenters)
      PROVE  QuarantineInv' /\ NoneSooner
  <2>1. PICK first \in dissenters : record' = HalfJudged(majority, first)
    BY <1>6 DEF RecordRaises
  <2>2. \A p \in Providers : record'[p].until = record[p].until
    BY <2>1, HalfJudgedType
  <2> QED
    BY <1>1, <1>6, <2>2 DEF RecordRaises, QuarantineInv, NoneSooner
<1>7. ASSUME NEW j \in Jobs, NEW majority, NEW dissenters, NEW price \in Prices,
             RecordOutcome(j, majority, dissenters, price)
      PROVE  QuarantineInv' /\ NoneSooner
  <2>1. /\ record' = Judged(majority, dissenters) /\ now' = now
        /\ file'.record = record'
    BY <1>7 DEF RecordOutcome, Save
  <2>2. \A p \in Providers : record'[p].until \in {record[p].until, now + Quarantine}
    BY <2>1, JudgedType
  <2> QED
    BY <1>1, <2>1, <2>2 DEF QuarantineInv, NoneSooner
<1>8. CASE Tick
  BY <1>1, <1>2, <1>8 DEF Tick, memory
<1>9. CASE UNCHANGED vars
  BY <1>1, <1>2, <1>9 DEF vars, memory
<1> QED
  BY <1>3, <1>4, <1>5, <1>6, <1>7, <1>8, <1>9 DEF Next, Restart, CrashInClaim, CrashInRecord

\* No verdict and no restart ends a quarantine sooner (QuarantineLasts), for
\* any window, rate and number of dissents that start one.
THEOREM QuarantineLastsAlways == Spec => QuarantineLasts
<1>1. Init => QuarantineInv
  <2> SUFFICES ASSUME Init PROVE QuarantineInv
    OBVIOUS
  <2> QED
    BY EconomyAssumption DEF Init, QuarantineInv
<1>2. TypeOK /\ QuarantineInv /\ [Next]_vars => QuarantineInv'
  BY QuarantineStep
<1>3. TypeOK /\ QuarantineInv /\ [Next]_vars
        => [\A p \in Providers :
              record[p].until > now => record'[p].until >= record[p].until]_vars
  BY QuarantineStep DEF NoneSooner
<1> QED
  BY <1>1, <1>2, <1>3, TypeCorrect, PTL DEF Spec, QuarantineLasts

-----------------------------------------------------------------------------
(* Bonds. *)

\* The entries that mature before t, and the order entries are in: each waits
\* as long as any other, so those asked for first mature first.
Before(u, t) == {i \in DOMAIN u : u[i].mature < t}
Ordered(u)   == \A i, k \in DOMAIN u : i <= k => u[i].mature <= u[k].mature

\* Matured entries are the first ones.
LEMMA MaturedFirst ==
  ASSUME NEW u \in Seq(Entry), Ordered(u), NEW t \in Nat
  PROVE  LET M == {i \in DOMAIN u : u[i].mature <= t}
         IN  M = 1 .. Cardinality(M) /\ Cardinality(M) \in Nat /\ Cardinality(M) <= Len(u)
<1> DEFINE M == {i \in DOMAIN u : u[i].mature <= t}
           m == Cardinality(M)
<1>1. /\ DOMAIN u = 1 .. Len(u) /\ Len(u) \in Nat
      /\ IsFiniteSet(1 .. Len(u)) /\ Cardinality(1 .. Len(u)) = Len(u)
  <2>1. DOMAIN u = 1 .. Len(u) /\ Len(u) \in Nat
    OBVIOUS
  <2> QED
    BY <2>1, FS_Interval, SMTT(60)
<1>2. /\ M \in SUBSET (1 .. Len(u)) /\ IsFiniteSet(M)
      /\ m \in Nat /\ m <= Len(u)
  <2>1. M \in SUBSET (1 .. Len(u))
    BY <1>1
  <2> HIDE DEF M
  <2>2. IsFiniteSet(M) /\ Cardinality(M) <= Cardinality(1 .. Len(u))
    BY <1>1, <2>1, FS_Subset
  <2>3. Cardinality(M) \in Nat
    BY <2>2, FS_CardinalityType
  <2> QED
    BY <1>1, <2>1, <2>2, <2>3
<1>3. ASSUME NEW i \in M PROVE i \in 1 .. m
  <2>1. i \in 1 .. Len(u) /\ u[i].mature <= t
    BY <1>1
  <2>2. ASSUME NEW k \in 1 .. i PROVE k \in M
    <3>1. k \in DOMAIN u /\ i \in DOMAIN u /\ k <= i
      BY <1>1, <2>1
    <3>2. u[k].mature <= u[i].mature
      BY <3>1 DEF Ordered
    <3>3. u[k] \in Entry /\ u[i] \in Entry
      BY <3>1
    <3>4. u[k].mature \in Nat /\ u[i].mature \in Nat
      BY <3>3 DEF Entry
    <3> QED
      BY <2>1, <3>1, <3>2, <3>4
  <2>3. 1 .. i \in SUBSET M
    BY <2>2
  <2>4. IsFiniteSet(1 .. i) /\ Cardinality(1 .. i) = i
    BY <2>1, FS_Interval
  <2> HIDE DEF M
  <2>5. i <= m
    BY <1>2, <2>3, <2>4, FS_Subset
  <2> QED
    BY <1>2, <2>1, <2>5
<1>4. M \in SUBSET (1 .. m)
  BY <1>3
<1>5. IsFiniteSet(1 .. m) /\ Cardinality(1 .. m) = m
  <2> HIDE DEF m
  <2> QED BY <1>2, FS_Interval
<1>6. M = 1 .. m
  <2> HIDE DEF M
  <2> QED BY <1>4, <1>5, FS_Subset
<1> QED
  BY <1>2, <1>6

\* What is left of a sequence without its first m entries.
LEMMA WithoutFirst ==
  ASSUME NEW u \in Seq(Entry), NEW m \in Nat, m <= Len(u)
  PROVE  /\ SubSeq(u, m + 1, Len(u)) \in Seq(Entry)
         /\ Len(SubSeq(u, m + 1, Len(u))) = Len(u) - m
         /\ \A i \in 1 .. Len(u) - m : SubSeq(u, m + 1, Len(u))[i] = u[i + m]
<1> DEFINE v == SubSeq(u, m + 1, Len(u))
<1>1. DOMAIN u = 1 .. Len(u) /\ Len(u) \in Nat
  OBVIOUS
<1>2. \A i \in m + 1 .. Len(u) : u[i] \in Entry
  BY <1>1
<1>3. /\ v \in Seq(Entry)
      /\ Len(v) = IF m + 1 <= Len(u) THEN Len(u) - (m + 1) + 1 ELSE 0
      /\ \A i \in 1 .. Len(u) - (m + 1) + 1 : v[i] = u[m + 1 + i - 1]
  BY <1>1, <1>2, SubSeqProperties
<1> HIDE DEF v
<1>4. Len(v) = Len(u) - m
  <2> DEFINE n == Len(u)
             l == Len(v)
  <2>1. n \in Nat /\ m <= n /\ l = IF m + 1 <= n THEN n - (m + 1) + 1 ELSE 0
    BY <1>1, <1>3
  <2> HIDE DEF n, l
  <2>2. l = n - m
    BY <2>1
  <2> QED
    BY <2>2 DEF n, l
<1>5. ASSUME NEW i \in 1 .. Len(u) - m PROVE v[i] = u[i + m]
  <2>1. m + 1 + i - 1 = i + m /\ i \in 1 .. Len(u) - (m + 1) + 1
    BY <1>1
  <2>2. v[i] = u[m + 1 + i - 1]
    BY <1>3, <2>1
  <2> QED
    BY <2>1, <2>2
<1> QED
  BY <1>3, <1>4, <1>5 DEF v

\* Claiming the first m entries takes their amount off what matures before t.
LEMMA ClaimedOff ==
  ASSUME NEW u \in Seq(Entry), Ordered(u), NEW m \in Nat, m <= Len(u),
         NEW v \in Seq(Entry), Len(v) = Len(u) - m,
         \A i \in 1 .. Len(u) - m : v[i] = u[i + m]
  PROVE  /\ Ordered(v)
         /\ \A i \in DOMAIN v : i + m \in DOMAIN u /\ v[i] = u[i + m]
         /\ \A t \in Nat : 1 .. m \subseteq Before(u, t)
              => Amount(u, Before(u, t)) = Amount(u, 1 .. m) + Amount(v, Before(v, t))
<1>1. DOMAIN u = 1 .. Len(u) /\ Len(u) \in Nat
  OBVIOUS
<1>2. DOMAIN v = 1 .. Len(u) - m
  OBVIOUS
<1>3. \A i \in DOMAIN v : i + m \in DOMAIN u /\ v[i] = u[i + m]
  BY <1>1, <1>2
<1>4. Ordered(v)
  <2> SUFFICES ASSUME NEW i \in DOMAIN v, NEW k \in DOMAIN v, i <= k
               PROVE  v[i].mature <= v[k].mature
    BY DEF Ordered
  <2>1. i + m <= k + m /\ i + m \in DOMAIN u /\ k + m \in DOMAIN u
    BY <1>2, <1>3
  <2> QED
    BY <1>3, <2>1 DEF Ordered
<1>5. ASSUME NEW t \in Nat, 1 .. m \subseteq Before(u, t)
      PROVE  Amount(u, Before(u, t)) = Amount(u, 1 .. m) + Amount(v, Before(v, t))
  <2> DEFINE f == [i \in DOMAIN u |-> u[i].amount]
             g == [i \in DOMAIN v |-> v[i].amount]
             rest == Before(u, t) \ (1 .. m)
  <2>1. /\ Before(u, t) \in SUBSET DOMAIN u /\ rest \in SUBSET DOMAIN u
        /\ 1 .. m \in SUBSET DOMAIN u /\ Before(v, t) \in SUBSET DOMAIN v
    BY <1>5 DEF Before
  <2>2. /\ IsFiniteSet(rest) /\ \A i \in rest : f[i] \in Nat
        /\ IsFiniteSet(1 .. m) /\ \A i \in 1 .. m : f[i] \in Nat
    <3> HIDE DEF rest
    <3> QED BY <2>1, PlacesFinite
  <2>3. (1 .. m) \cap rest = {} /\ Before(u, t) = (1 .. m) \cup rest
    BY <1>5
  <2>4. \A i \in Nat : i \in Before(v, t) <=> i + m \in rest
    <3> SUFFICES ASSUME NEW i \in Nat PROVE i \in Before(v, t) <=> i + m \in rest
      OBVIOUS
    <3>1. i \in DOMAIN v <=> i + m \in DOMAIN u /\ i + m \notin 1 .. m
      BY <1>1, <1>2
    <3> QED
      BY <1>3, <3>1 DEF Before
  <2>5. \A i \in rest : i \in Nat /\ i >= m
    BY <1>1, <2>1
  <2>6. \A i \in Before(v, t) : g[i] = f[i + m]
    BY <1>3, <2>1
  <2>7. Before(v, t) \in SUBSET Nat /\ rest \in SUBSET Nat
    BY <1>2, <2>1, <2>5
  <2> HIDE DEF f, g, rest
  <2>8. SumOver(g, Before(v, t)) = SumOver(f, rest)
    <3> DEFINE later == Before(v, t)
    <3>1. Shifted(m, rest, later, f, g)
      BY <2>2, <2>4, <2>5, <2>6 DEF Shifted
    <3>2. later \in SUBSET Nat /\ rest \in SUBSET Nat /\ IsFiniteSet(rest)
      BY <2>2, <2>7
    <3> HIDE DEF later
    <3>3. SumOver(g, later) = SumOver(f, rest)
      BY <3>1, <3>2, SumShift
    <3> QED
      BY <3>3 DEF later
  <2>9. SumOver(f, (1 .. m) \cup rest) = SumOver(f, 1 .. m) + SumOver(f, rest)
    BY <2>2, <2>3, SumUnion
  <2> QED
    BY <2>3, <2>8, <2>9 DEF Amount, f, g
<1> QED
  BY <1>3, <1>4, <1>5

\* A new entry matures last, and so after every delay that has begun.
LEMMA AppendedLast ==
  ASSUME NEW u \in Seq(Entry), Ordered(u), NEW e \in Entry,
         \A i \in DOMAIN u : u[i].mature <= e.mature
  PROVE  /\ Ordered(Append(u, e))
         /\ \A t \in Nat : t <= e.mature
              => Amount(Append(u, e), Before(Append(u, e), t)) = Amount(u, Before(u, t))
<1> DEFINE v == Append(u, e)
<1>1. /\ DOMAIN u = 1 .. Len(u) /\ Len(u) \in Nat
      /\ v \in Seq(Entry) /\ DOMAIN v = 1 .. Len(u) + 1
      /\ \A i \in DOMAIN u : v[i] = u[i]
      /\ v[Len(u) + 1] = e
  OBVIOUS
<1>2. /\ \A i \in DOMAIN v : v[i].mature \in Nat
      /\ \A i \in DOMAIN u : u[i].mature \in Nat
      /\ e.mature \in Nat
  <2>1. (\A i \in DOMAIN v : v[i] \in Entry) /\ (\A i \in DOMAIN u : u[i] \in Entry)
    BY <1>1
  <2> QED
    BY <2>1 DEF Entry
<1> HIDE DEF v
<1>3. \A i \in DOMAIN v : i \in DOMAIN u \/ i = Len(u) + 1
  BY <1>1
<1>4. Ordered(v)
  BY <1>1, <1>2, <1>3 DEF Ordered
<1>5. ASSUME NEW t \in Nat, t <= e.mature
      PROVE  Amount(v, Before(v, t)) = Amount(u, Before(u, t))
  <2> DEFINE f == [i \in DOMAIN u |-> u[i].amount]
             g == [i \in DOMAIN v |-> v[i].amount]
             early == Before(u, t)
  <2>1. Before(v, t) = early
    BY <1>1, <1>2, <1>3, <1>5 DEF Before
  <2>2. \A i \in early : g[i] = f[i]
    BY <1>1 DEF Before
  <2>3. SumOver(g, early) = SumOver(f, early)
    <3> HIDE DEF f, g, early
    <3> QED BY <2>2, SumAgree
  <2> QED
    BY <2>1, <2>3 DEF Amount
<1> QED
  BY <1>4, <1>5 DEF v

\* What keeps a bond: entries stay in the order they were asked for, in memory
\* and in the file; and what an open job counts on is staked besides all that
\* may be claimed while the job's delay runs.
Waiting(p) ==
  /\ file.unbonding[p] = unbonding[p]
  /\ Ordered(unbonding[p])
  /\ \A i \in DOMAIN unbonding[p] : unbonding[p][i].mature <= now + Delay

Claimable(j, p) == Amount(unbonding[p], Before(unbonding[p], serving[j].at + Delay))

Secured(j, p) ==
  serving[j].state = "running" /\ now < serving[j].at + Delay /\ serving[j].bond[p] > 0
    => staked[p] >= serving[j].bond[p] + Claimable(j, p)

BondInv ==
  /\ \A p \in Providers : Waiting(p)
  /\ \A j \in Jobs : serving[j].state = "running" => serving[j].at <= now
  /\ \A j \in Jobs, p \in Providers : Secured(j, p)

LEMMA BondTypes ==
  ASSUME TypeOK, NEW j \in Jobs, NEW p \in Providers
  PROVE  /\ serving[j].at \in Nat /\ serving[j].at + Delay \in Nat
         /\ serving[j].bond[p] \in Nat /\ staked[p] \in Nat
         /\ unbonding[p] \in Seq(Entry) /\ Claimable(j, p) \in Nat
<1>1. /\ serving[j].at \in Nat /\ serving[j].at + Delay \in Nat
      /\ serving[j].bond[p] \in Nat /\ staked[p] \in Nat
      /\ unbonding[p] \in Seq(Entry)
  BY EconomyAssumption, SMTT(60) DEF TypeOK
<1>2. Before(unbonding[p], serving[j].at + Delay) \in SUBSET DOMAIN unbonding[p]
  BY DEF Before
<1> QED
  BY <1>1, <1>2, AmountNat DEF Claimable

\* A step that asks for nothing, claims nothing and opens no job.
LEMMA QuietKeepsBonds ==
  ASSUME TypeOK, TypeOK', BondInv,
         unbonding' = unbonding, file'.unbonding = unbonding, now' >= now,
         \A p \in Providers : staked'[p] >= staked[p],
         \A j \in Jobs : serving'[j].state = "running" => serving'[j] = serving[j]
  PROVE  BondInv'
<1>1. now \in Nat /\ now' \in Nat /\ Delay \in Nat
  BY EconomyAssumption DEF TypeOK
<1>2. ASSUME NEW p \in Providers PROVE Waiting(p)'
  <2>1. Waiting(p) /\ unbonding[p] \in Seq(Entry)
    BY DEF BondInv, TypeOK
  <2>2. \A i \in DOMAIN unbonding[p] : unbonding[p][i].mature \in Nat
    <3>1. \A i \in DOMAIN unbonding[p] : unbonding[p][i] \in Entry
      BY <2>1
    <3> QED
      BY <3>1 DEF Entry
  <2> QED
    BY <1>1, <2>1, <2>2 DEF Waiting
<1>3. ASSUME NEW j \in Jobs, serving'[j].state = "running" PROVE serving'[j].at <= now'
  BY <1>1, <1>3, BondTypes DEF BondInv, TypeOK
<1>4. ASSUME NEW j \in Jobs, NEW p \in Providers PROVE Secured(j, p)'
  <2> SUFFICES ASSUME serving'[j].state = "running", now' < serving'[j].at + Delay,
                      serving'[j].bond[p] > 0
               PROVE  staked'[p] >= serving'[j].bond[p] + Claimable(j, p)'
    BY DEF Secured
  <2>1. serving'[j] = serving[j]
    OBVIOUS
  <2>2. staked[p] >= serving[j].bond[p] + Claimable(j, p)
    BY <1>1, <2>1, BondTypes DEF BondInv, Secured
  <2>3. Claimable(j, p)' = Claimable(j, p)
    BY <2>1 DEF Claimable
  <2>4. staked'[p] \in Nat /\ staked'[p] >= staked[p]
    BY DEF TypeOK
  <2> QED
    BY <2>1, <2>2, <2>3, <2>4, BondTypes
<1> QED
  BY <1>2, <1>3, <1>4 DEF BondInv

\* A job that opens counts on what is staked besides all that was asked for.
LEMMA AdmitKeepsBonds ==
  ASSUME TypeOK, TypeOK', BondInv, NEW j \in Jobs, Admit(j)
  PROVE  BondInv'
<1>1. PICK members \in SUBSET {p \in Providers : Eligible(p)} :
        serving' = [serving EXCEPT ![j] =
          [state |-> "running", members |-> members, at |-> now,
           bond |-> [p \in Providers |->
                       IF p \in members THEN Minus(staked[p], Pending(p)) ELSE 0]]]
  BY DEF Admit
<1>2. UNCHANGED <<staked, unbonding, file, now>>
  BY DEF Admit, ledger, memory
<1>3. /\ serving'[j].at = now
      /\ \A p \in Providers : serving'[j].bond[p] \in {0, Minus(staked[p], Pending(p))}
      /\ \A k \in Jobs \ {j} : serving'[k] = serving[k]
  BY <1>1 DEF TypeOK
<1>4. now \in Nat
  BY DEF TypeOK
<1>5. ASSUME NEW k \in Jobs, NEW p \in Providers PROVE Secured(k, p)'
  <2>1. CASE k # j
    <3>1. Secured(k, p) /\ serving'[k] = serving[k]
      BY <1>3, <2>1 DEF BondInv
    <3> QED
      BY <1>2, <3>1 DEF Secured, Claimable
  <2>2. CASE k = j
    <3> SUFFICES ASSUME serving'[j].bond[p] > 0
                 PROVE  staked'[p] >= serving'[j].bond[p] + Claimable(j, p)'
      BY <2>2 DEF Secured
    <3> DEFINE u == unbonding[p]
               early == Before(u, now + Delay)
    <3>1. u \in Seq(Entry) /\ staked[p] \in Nat
      BY DEF TypeOK
    <3>2. early \in SUBSET DOMAIN u
      BY DEF Before
    <3>3. Amount(u, early) \in Nat /\ Pending(p) \in Nat
      BY <3>1, <3>2, AmountNat DEF Pending
    <3>4. Amount(u, early) <= Pending(p)
      <4>1. /\ IsFiniteSet(DOMAIN u)
            /\ \A i \in DOMAIN u : [k2 \in DOMAIN u |-> u[k2].amount][i] \in Nat
        BY <3>1, PlacesFinite
      <4> HIDE DEF early, u
      <4>2. SumOver([k2 \in DOMAIN u |-> u[k2].amount], early)
              <= SumOver([k2 \in DOMAIN u |-> u[k2].amount], DOMAIN u)
        BY <3>2, <4>1, SumSubset
      <4> QED
        BY <4>2 DEF Amount, Pending, u
    <3>5. serving'[j].bond[p] = Minus(staked[p], Pending(p))
      BY <1>3
    <3>6. Claimable(j, p)' = Amount(u, early)
      BY <1>2, <1>3 DEF Claimable
    <3> HIDE DEF u, early
    <3>7. staked[p] > Pending(p) /\ serving'[j].bond[p] = staked[p] - Pending(p)
      BY <3>1, <3>3, <3>5 DEF Minus
    <3> QED
      BY <1>2, <3>1, <3>3, <3>4, <3>6, <3>7
  <2> QED
    BY <2>1, <2>2
<1>6. \A k \in Jobs : serving'[k].state = "running" => serving'[k].at <= now'
  BY <1>2, <1>3, <1>4 DEF BondInv
<1>7. \A p \in Providers : Waiting(p)'
  BY <1>2 DEF BondInv, Waiting
<1> QED
  BY <1>5, <1>6, <1>7 DEF BondInv

LEMMA TimeTypes ==
  ASSUME TypeOK
  PROVE  now \in Nat /\ Delay \in Nat /\ now + Delay \in Nat
BY EconomyAssumption DEF TypeOK

\* What is asked for matures after the delay of every open job.
LEMMA RequestKeepsBonds ==
  ASSUME TypeOK, TypeOK', BondInv,
         NEW q \in Providers, NEW a \in 1 .. staked[q], RequestUnstake(q, a)
  PROVE  BondInv'
<1> DEFINE e == [amount |-> a, mature |-> now + Delay]
<1>1. /\ now \in Nat /\ Delay \in Nat /\ now + Delay \in Nat
      /\ e \in Entry /\ e.mature = now + Delay
  <2>1. now \in Nat /\ Delay \in Nat /\ now + Delay \in Nat
    BY TimeTypes
  <2>2. staked[q] \in Nat
    BY DEF TypeOK
  <2>3. a \in Nat \ {0}
    BY <2>2
  <2> QED
    BY <2>1, <2>3 DEF Entry
<1>2. /\ unbonding' = [unbonding EXCEPT ![q] = Append(unbonding[q], e)]
      /\ file'.unbonding = unbonding'
      /\ UNCHANGED <<staked, serving, now>>
  BY DEF RequestUnstake, Save, ledger
<1> HIDE DEF e
<1>3. ASSUME NEW p \in Providers
      PROVE  /\ unbonding[p] \in Seq(Entry) /\ Ordered(unbonding[p])
             /\ \A i \in DOMAIN unbonding[p] : unbonding[p][i].mature <= now + Delay
             /\ unbonding'[p] = IF p = q THEN Append(unbonding[p], e) ELSE unbonding[p]
  BY <1>2 DEF BondInv, Waiting, TypeOK
<1>4. /\ Ordered(Append(unbonding[q], e))
      /\ \A t \in Nat : t <= now + Delay
           => Amount(Append(unbonding[q], e), Before(Append(unbonding[q], e), t))
              = Amount(unbonding[q], Before(unbonding[q], t))
  BY <1>1, <1>3, AppendedLast
<1>5. \A i \in DOMAIN Append(unbonding[q], e) : Append(unbonding[q], e)[i].mature <= now + Delay
  <2> DEFINE u == unbonding[q]
  <2>1. u \in Seq(Entry) /\ \A i \in DOMAIN u : u[i].mature <= now + Delay
    BY <1>3
  <2> HIDE DEF u
  <2>2. /\ DOMAIN u = 1 .. Len(u) /\ Len(u) \in Nat
        /\ DOMAIN Append(u, e) = 1 .. Len(u) + 1
        /\ \A i \in DOMAIN u : Append(u, e)[i] = u[i]
        /\ Append(u, e)[Len(u) + 1] = e
    BY <1>1, <2>1
  <2>3. \A i \in DOMAIN Append(u, e) : i \in DOMAIN u \/ i = Len(u) + 1
    BY <2>2
  <2>4. \A i \in DOMAIN Append(u, e) : Append(u, e)[i].mature <= now + Delay
    BY <1>1, <2>1, <2>2, <2>3
  <2> QED
    BY <2>4 DEF u
<1>6. \A p \in Providers : Waiting(p)'
  BY <1>2, <1>3, <1>4, <1>5 DEF BondInv, Waiting
<1>7. ASSUME NEW j \in Jobs, NEW p \in Providers PROVE Secured(j, p)'
  <2> SUFFICES ASSUME serving[j].state = "running", now < serving[j].at + Delay,
                      serving[j].bond[p] > 0
               PROVE  Claimable(j, p)' = Claimable(j, p)
    BY <1>2 DEF Secured, BondInv
  <2>1. serving[j].at + Delay \in Nat /\ serving[j].at + Delay <= now + Delay
    BY <1>1, BondTypes DEF BondInv
  <2> QED
    BY <1>2, <1>3, <1>4, <2>1 DEF Claimable
<1> QED
  BY <1>2, <1>6, <1>7 DEF BondInv

\* A claim takes from what is staked no more than it takes from what may be
\* claimed while the delay of an open job runs.
LEMMA ClaimKeepsBonds ==
  ASSUME TypeOK, TypeOK', BondInv, NEW q \in Providers, ClaimUnstaked(q)
  PROVE  BondInv'
<1> DEFINE u == unbonding[q]
           m == Cardinality(Matured(q))
           v == SubSeq(u, m + 1, Len(u))
<1>1. /\ u \in Seq(Entry) /\ Ordered(u)
      /\ \A i \in DOMAIN u : u[i].mature <= now + Delay
      /\ now \in Nat /\ Delay \in Nat
  BY TimeTypes DEF BondInv, Waiting, TypeOK
<1>2. /\ unbonding' = [unbonding EXCEPT ![q] = v]
      /\ file'.unbonding = unbonding'
      /\ UNCHANGED <<serving, now>>
  BY DEF ClaimUnstaked, Save
<1>3. /\ staked'[q] = staked[q] - Least(staked[q], Amount(u, Matured(q)))
      /\ \A p \in Providers \ {q} : staked'[p] = staked[p]
  BY DEF ClaimUnstaked, Give, TypeOK
<1>4. m \in Nat /\ m <= Len(u) /\ Matured(q) = 1 .. m
  BY <1>1, MaturedFirst DEF Matured
<1>5. \A p \in Providers : unbonding'[p] = IF p = q THEN v ELSE unbonding[p]
  BY <1>2 DEF TypeOK
<1>6. 1 .. m \in SUBSET DOMAIN u /\ \A i \in 1 .. m : u[i].mature <= now
  BY <1>4 DEF Matured
<1> HIDE DEF m
<1>7. v \in Seq(Entry) /\ Len(v) = Len(u) - m /\ \A i \in 1 .. Len(u) - m : v[i] = u[i + m]
  <2> HIDE DEF u
  <2> QED BY <1>1, <1>4, WithoutFirst
<1> HIDE DEF u, v
<1>8. /\ Ordered(v)
      /\ \A i \in DOMAIN v : i + m \in DOMAIN u /\ v[i] = u[i + m]
      /\ \A t \in Nat : 1 .. m \subseteq Before(u, t)
           => Amount(u, Before(u, t)) = Amount(u, 1 .. m) + Amount(v, Before(v, t))
  BY <1>1, <1>4, <1>7, ClaimedOff
<1>9. ASSUME NEW p \in Providers PROVE Waiting(p)'
  <2>1. CASE p # q
    BY <1>2, <1>5, <2>1 DEF BondInv, Waiting
  <2>2. CASE p = q
    <3>1. unbonding'[p] = v /\ file'.unbonding[p] = v /\ now' = now
      BY <1>2, <1>5, <2>2
    <3>2. \A i \in DOMAIN v : v[i].mature <= now + Delay
      BY <1>1, <1>8
    <3> QED
      BY <1>8, <3>1, <3>2 DEF Waiting
  <2> QED
    BY <2>1, <2>2
<1>10. ASSUME NEW j \in Jobs, NEW p \in Providers PROVE Secured(j, p)'
  <2>1. CASE p # q
    <3>1. Claimable(j, p)' = Claimable(j, p) /\ staked'[p] = staked[p]
      BY <1>2, <1>3, <1>5, <2>1 DEF Claimable
    <3> QED
      BY <1>2, <3>1 DEF BondInv, Secured
  <2>2. CASE p = q
    <3> DEFINE t == serving[j].at + Delay
               gone == Amount(u, 1 .. m)
    <3> SUFFICES ASSUME serving[j].state = "running", now < t, serving[j].bond[q] > 0
                 PROVE  staked'[q] >= serving[j].bond[q] + Claimable(j, q)'
      BY <1>2, <2>2 DEF Secured
    <3>1. /\ t \in Nat /\ serving[j].bond[q] \in Nat /\ staked[q] \in Nat
          /\ Claimable(j, q) \in Nat
      BY BondTypes
    <3>2. Claimable(j, q) = Amount(u, Before(u, t)) /\ Claimable(j, q)' = Amount(v, Before(v, t))
      BY <1>2, <1>5 DEF Claimable, u
    <3>3. staked[q] >= serving[j].bond[q] + Claimable(j, q)
      BY DEF BondInv, Secured
    <3>4. gone \in Nat /\ Amount(v, Before(v, t)) \in Nat
      <4>1. Before(v, t) \in SUBSET DOMAIN v
        BY DEF Before
      <4> QED
        BY <1>1, <1>6, <1>7, <4>1, AmountNat
    <3>5. 1 .. m \subseteq Before(u, t)
      <4>1. \A i \in 1 .. m : u[i].mature \in Nat
        <5>1. \A i \in 1 .. m : u[i] \in Entry
          BY <1>1, <1>6
        <5> QED
          BY <5>1 DEF Entry
      <4>2. \A i \in 1 .. m : u[i].mature < t
        BY <1>1, <1>6, <3>1, <4>1
      <4> QED
        BY <1>6, <4>2 DEF Before
    <3>6. Claimable(j, q) = gone + Claimable(j, q)'
      BY <1>8, <3>1, <3>2, <3>5
    <3>7. staked'[q] = staked[q] - Least(staked[q], gone)
      BY <1>3, <1>4
    <3> HIDE DEF gone, t
    <3> QED
      BY <3>1, <3>2, <3>3, <3>4, <3>6, <3>7 DEF Least
  <2> QED
    BY <2>1, <2>2
<1> QED
  BY <1>2, <1>9, <1>10 DEF BondInv

\* A slash takes as much from what an open job counts on as from what is staked.
LEMMA OutcomeKeepsBonds ==
  ASSUME TypeOK, TypeOK', BondInv, NEW j \in Jobs, NEW majority, NEW dissenters,
         NEW price \in Nat, RecordOutcome(j, majority, dissenters, price)
  PROVE  BondInv'
<1> DEFINE taken == Taken(dissenters, price)
<1>1. /\ staked' = [p \in Providers |-> staked[p] - taken[p]]
      /\ serving' = [k \in Jobs |->
           IF k = j THEN JobDone
           ELSE [serving[k] EXCEPT !.bond = [p \in Providers |-> Minus(@[p], taken[p])]]]
      /\ file'.unbonding = unbonding' /\ UNCHANGED <<unbonding, now>>
  BY DEF RecordOutcome, Done, Save
<1>2. /\ \A p \in Providers : taken[p] \in Nat /\ taken[p] <= staked[p]
      /\ \A p \in Providers : staked'[p] = staked[p] - taken[p]
  BY <1>1, TakenType
<1> HIDE DEF taken
<1>3. ASSUME NEW k \in Jobs, serving'[k].state = "running"
      PROVE  /\ serving[k].state = "running" /\ serving'[k].at = serving[k].at
             /\ \A p \in Providers : serving'[k].bond[p] = Minus(serving[k].bond[p], taken[p])
  <2>1. k # j
    BY <1>1, <1>3 DEF JobDone, NoJob
  <2>2. serving'[k] = [serving[k] EXCEPT !.bond =
          [p \in Providers |-> Minus(serving[k].bond[p], taken[p])]]
    BY <1>1, <2>1
  <2> QED
    BY <1>3, <2>2 DEF TypeOK
<1>4. \A k \in Jobs : serving'[k].state = "running" => serving'[k].at <= now'
  BY <1>1, <1>3 DEF BondInv
<1>5. \A p \in Providers : Waiting(p)'
  BY <1>1 DEF BondInv, Waiting
<1>6. ASSUME NEW k \in Jobs, NEW p \in Providers PROVE Secured(k, p)'
  <2> SUFFICES ASSUME serving'[k].state = "running", now < serving[k].at + Delay,
                      serving'[k].bond[p] > 0
               PROVE  staked'[p] >= serving'[k].bond[p] + Claimable(k, p)'
    BY <1>1, <1>3 DEF Secured
  <2>1. /\ serving[k].state = "running"
        /\ serving'[k].bond[p] = Minus(serving[k].bond[p], taken[p])
        /\ Claimable(k, p)' = Claimable(k, p)
    BY <1>1, <1>3 DEF Claimable
  <2>2. serving[k].bond[p] \in Nat /\ staked[p] \in Nat /\ Claimable(k, p) \in Nat
    BY BondTypes
  <2>3. /\ serving[k].bond[p] > taken[p]
        /\ serving'[k].bond[p] = serving[k].bond[p] - taken[p]
    BY <1>2, <2>1, <2>2 DEF Minus
  <2>4. staked[p] >= serving[k].bond[p] + Claimable(k, p)
    BY <1>2, <2>1, <2>2, <2>3 DEF BondInv, Secured
  <2> QED
    BY <1>2, <2>1, <2>2, <2>3, <2>4
<1> QED
  BY <1>4, <1>5, <1>6 DEF BondInv

\* A restart reads the entries back as they were and leaves no job open.
LEMMA BootKeepsBonds ==
  ASSUME TypeOK, BondInv, Boot
  PROVE  BondInv'
<1>1. /\ unbonding' = file.unbonding /\ file' = file /\ now' = now
      /\ \A j \in Jobs : serving'[j].state # "running"
  BY DEF Boot, JobDone, NoJob
<1>2. ASSUME NEW p \in Providers PROVE Waiting(p)'
  <2>1. Waiting(p) /\ unbonding'[p] = unbonding[p] /\ file'.unbonding[p] = unbonding[p]
    BY <1>1 DEF BondInv, Waiting
  <2> QED
    BY <1>1, <2>1 DEF Waiting
<1> QED
  BY <1>1, <1>2 DEF BondInv, Secured

LEMMA BondStep == TypeOK /\ TypeOK' /\ BondInv /\ [Next]_vars => BondInv'
<1> SUFFICES ASSUME TypeOK, TypeOK', BondInv, [Next]_vars PROVE BondInv'
  OBVIOUS
<1>1. now \in Nat /\ (\A p \in Providers : staked[p] \in Nat)
      /\ file.unbonding = unbonding
  <2>1. now \in Nat /\ (\A p \in Providers : staked[p] \in Nat)
    BY DEF TypeOK
  <2>2. \A p \in Providers : file.unbonding[p] = unbonding[p]
    BY DEF BondInv, Waiting
  <2>3. file.unbonding = unbonding
    BY <2>2 DEF TypeOK
  <2> QED
    BY <2>1, <2>3
<1>2. ASSUME NEW p \in Providers, NEW a \in 1 .. available[p], Stake(p, a) PROVE BondInv'
  <2>1. /\ unbonding' = unbonding /\ file'.unbonding = unbonding /\ now' >= now
        /\ serving' = serving
    BY <1>1, <1>2 DEF Stake, Save, memory
  <2>2. a \in Nat
    BY DEF TypeOK
  <2>3. \A q \in Providers : staked'[q] >= staked[q]
    BY <1>1, <1>2, <2>2, SMTT(60) DEF Stake, TypeOK
  <2> QED
    BY <2>1, <2>3, QuietKeepsBonds
<1>3. ASSUME NEW p \in Providers, CrashInClaim(p) PROVE BondInv'
  BY <1>3, BootKeepsBonds DEF CrashInClaim
<1>4. ASSUME NEW j \in Jobs, NEW majority, NEW dissenters, NEW price,
             CrashInRecord(j, majority, dissenters, price)
      PROVE  BondInv'
  BY <1>4, BootKeepsBonds DEF CrashInRecord
<1>5. ASSUME Restart PROVE BondInv'
  BY <1>5, BootKeepsBonds DEF Restart
<1>6. ASSUME UNCHANGED <<staked, unbonding>>, file' = file, now' >= now,
             \A j \in Jobs : serving'[j].state = "running" => serving'[j] = serving[j]
      PROVE  BondInv'
  <2>1. \A q \in Providers : staked'[q] >= staked[q]
    BY <1>1, <1>6
  <2> QED
    BY <1>1, <1>6, <2>1, QuietKeepsBonds
<1>7. ASSUME NEW j \in Jobs, Dispute(j) PROVE BondInv'
  <2>1. \A k \in Jobs : serving'[k].state = "running" => serving'[k] = serving[k]
    BY <1>7 DEF Dispute, JobDone, NoJob, TypeOK
  <2> QED
    BY <1>1, <1>6, <1>7, <2>1 DEF Dispute, ledger, memory
<1>8. ASSUME NEW j \in Jobs, NEW majority, NEW dissenters, RecordRaises(j, majority, dissenters)
      PROVE  BondInv'
  <2>1. \A k \in Jobs : serving'[k].state = "running" => serving'[k] = serving[k]
    BY <1>8 DEF RecordRaises, JobDone, NoJob, TypeOK
  <2> QED
    BY <1>1, <1>6, <1>8, <2>1 DEF RecordRaises, ledger
<1>9. ASSUME Tick PROVE BondInv'
  BY <1>1, <1>6, <1>9 DEF Tick, ledger, memory
<1>10. CASE UNCHANGED vars
  BY <1>1, <1>6, <1>10 DEF vars, ledger, memory
<1>11. ASSUME NEW j \in Jobs, NEW majority, NEW dissenters, NEW price \in Prices,
              RecordOutcome(j, majority, dissenters, price)
       PROVE  BondInv'
  BY <1>11, OutcomeKeepsBonds, EconomyAssumption
<1> QED
  BY <1>2, <1>3, <1>4, <1>5, <1>7, <1>8, <1>9, <1>10, <1>11,
     AdmitKeepsBonds, RequestKeepsBonds, ClaimKeepsBonds DEF Next

\* Nobody cheats and then withdraws the bond: whatever is staked, asked for,
\* claimed, slashed or lost in a crash, what an open job counted on stays
\* slashable for a whole delay.  States BondStays of EconomicLayer.
THEOREM BondStaysAlways == Spec => []BondStays
<1>1. Init => BondInv
  <2> SUFFICES ASSUME Init PROVE BondInv
    OBVIOUS
  <2>1. \A p \in Providers : unbonding[p] = <<>> /\ file.unbonding[p] = unbonding[p]
    BY DEF Init
  <2>2. \A p \in Providers : Waiting(p)
    BY <2>1 DEF Waiting, Ordered
  <2>3. \A j \in Jobs : serving[j].state = "new"
    BY DEF Init, NoJob
  <2> QED
    BY <2>2, <2>3 DEF BondInv, Secured
<1>2. TypeOK /\ BondInv => BondStays
  <2> SUFFICES ASSUME TypeOK, BondInv, NEW j \in Jobs, NEW p \in Providers,
                      serving[j].state = "running", now < serving[j].at + Delay
               PROVE  staked[p] >= serving[j].bond[p]
    BY DEF BondStays
  <2> QED
    BY BondTypes DEF BondInv, Secured
<1> QED
  BY <1>1, <1>2, BondStep, TypeCorrect, PTL DEF Spec

-----------------------------------------------------------------------------
(* Money. *)

\* Equal shares but one of a small majority do not exceed the pot.
LEMMA SharesFit ==
  ASSUME NEW pot \in Nat, NEW n \in 1 .. 4
  PROVE  Quantized(pot, n) * (n - 1) <= pot
<1>1. CASE n = 1
  <2>1. Quantized(pot, 1) \in Nat
    BY DEF Quantized
  <2> QED
    BY <1>1, <2>1
<1>2. CASE n = 2
  BY <1>2 DEF Quantized
<1>3. CASE n = 3
  BY <1>3 DEF Quantized
<1>4. CASE n = 4
  BY <1>4 DEF Quantized
<1> QED
  BY <1>1, <1>2, <1>3, <1>4

\* A pot whose equal shares fit in it is awarded whole, remainder included.
LEMMA SharesAddUp ==
  ASSUME NEW pot \in Nat, NEW majority \in SUBSET Providers, NEW last \in majority,
         Quantized(pot, Cardinality(majority)) * (Cardinality(majority) - 1) <= pot
  PROVE  SumOver(Shares(pot, majority, last), Providers) = pot
<1> DEFINE n == Cardinality(majority)
           share == Quantized(pot, n)
           f == Shares(pot, majority, last)
           rest == majority \ {last}
<1>1. IsFiniteSet(majority) /\ majority # {}
  BY EconomyAssumption, FS_Subset
<1>2. n \in Nat \ {0} /\ share \in Nat
  BY <1>1, FS_CardinalityType, FS_EmptySet, QuantizedNat
<1>3. IsFiniteSet(rest) /\ Cardinality(rest) = n - 1
  BY <1>1, FS_RemoveElement
<1>4. f \in [Providers -> Nat]
  BY <1>1, SharesType
<1>5. /\ \A p \in rest : f[p] = share
      /\ f[last] = Minus(pot, share * (n - 1))
      /\ \A p \in Providers \ majority : f[p] = 0
  BY DEF Shares
<1>6. share * (n - 1) <= pot
  OBVIOUS
<1> HIDE DEF f, share, n
<1>7. SumOver(f, rest) = share * (n - 1)
  BY <1>2, <1>3, <1>5, SumSame
<1>8. SumOver(f, majority) = SumOver(f, rest) + f[last]
  <2>1. majority = rest \cup {last} /\ last \notin rest /\ \A p \in rest \cup {last} : f[p] \in Nat
    BY <1>4
  <2> QED
    BY <1>3, <2>1, SumAdd, ZenonT(60)
<1>9. SumOver(f, Providers) = SumOver(f, majority)
  BY <1>5, SumSkip
<1>10. share * (n - 1) \in Nat
  <2>1. n - 1 \in Nat
    BY <1>2
  <2> QED
    BY <1>2, <2>1
<1> DEFINE most == share * (n - 1)
<1>11. f[last] = pot - most
  BY <1>5, <1>6, <1>10 DEF Minus
<1>12. SumOver(f, Providers) = most + f[last]
  BY <1>7, <1>8, <1>9
<1>13. most \in Nat
  BY <1>10
<1> HIDE DEF most
<1> QED
  BY <1>11, <1>12, <1>13 DEF f

\* What a provider moves between its balance and its bond stays its own.
LEMMA MovesKeepMoney ==
  ASSUME TypeOK, TypeOK', burnt' = burnt,
         \A p \in Providers : available[p] + staked[p] = available'[p] + staked'[p]
  PROVE  MoneyStays => MoneyStays'
<1> DEFINE a == available
           s == staked
           x == available'
           y == staked'
<1>1. \A p \in Providers : /\ a[p] \in Nat /\ s[p] \in Nat /\ x[p] \in Nat /\ y[p] \in Nat
                           /\ a[p] + s[p] = x[p] + y[p]
  BY DEF TypeOK
<1> HIDE DEF a, s, x, y
<1>2. SumOver(a, Providers) + SumOver(s, Providers) = SumOver(x, Providers) + SumOver(y, Providers)
  BY <1>1, EconomyAssumption, SumMoves
<1>3. SumOver(available, Providers) + SumOver(staked, Providers)
        = SumOver(available', Providers) + SumOver(staked', Providers)
  BY <1>2 DEF a, s, x, y
<1> QED
  BY <1>3 DEF MoneyStays

LEMMA GiveKeepsMoney ==
  ASSUME TypeOK, TypeOK', burnt' = burnt, NEW q \in Providers,
         NEW places \in SUBSET DOMAIN unbonding[q], Give(q, places)
  PROVE  MoneyStays => MoneyStays'
<1> DEFINE take == Least(staked[q], Amount(unbonding[q], places))
<1>1. /\ staked' = [staked EXCEPT ![q] = @ - take]
      /\ available' = [available EXCEPT ![q] = @ + take]
  BY DEF Give
<1>2. Amount(unbonding[q], places) \in Nat
  BY AmountNat DEF TypeOK
<1>3. take \in Nat
  BY <1>2 DEF TypeOK, Least
<1> HIDE DEF take
<1>4. \A p \in Providers : available[p] + staked[p] = available'[p] + staked'[p]
  BY <1>1, <1>3 DEF TypeOK
<1> QED
  BY <1>4, MovesKeepMoney

\* What is slashed and what is awarded, counted.
LEMMA SlashKeepsMoney ==
  ASSUME TypeOK, NEW taken \in [Providers -> Nat], NEW awards \in [Providers -> Nat],
         \A p \in Providers : taken[p] <= staked[p],
         staked' = [p \in Providers |-> staked[p] - taken[p]],
         available' = [p \in Providers |-> available[p] + awards[p]]
  PROVE  /\ SumOver(available', Providers) = SumOver(available, Providers) + SumOver(awards, Providers)
         /\ SumOver(staked', Providers) + SumOver(taken, Providers) = SumOver(staked, Providers)
<1> DEFINE a == available
           s == staked
           x == available'
           y == staked'
<1>1. \A p \in Providers : /\ a[p] \in Nat /\ awards[p] \in Nat /\ x[p] = a[p] + awards[p]
                           /\ y[p] \in Nat /\ taken[p] \in Nat /\ s[p] = y[p] + taken[p]
  BY DEF TypeOK
<1> HIDE DEF a, s, x, y
<1>2. SumOver(x, Providers) = SumOver(a, Providers) + SumOver(awards, Providers)
  BY <1>1, EconomyAssumption, SumPlus
<1>3. SumOver(s, Providers) = SumOver(y, Providers) + SumOver(taken, Providers)
  BY <1>1, EconomyAssumption, SumPlus
<1> QED
  BY <1>2, <1>3 DEF a, s, x, y

\* Sizes for which the shares of any pot fit in it.
SmallConsortia == \A j \in Jobs : Cardinality(serving[j].members) <= 5

LEMMA OutcomeKeepsMoney ==
  ASSUME TypeOK, SmallConsortia, NEW j \in Jobs, NEW majority, NEW dissenters, NEW price \in Nat,
         RecordOutcome(j, majority, dissenters, price)
  PROVE  MoneyStays => MoneyStays'
<1> DEFINE taken == Taken(dissenters, price)
           pot   == SumOver(taken, Providers)
           n     == Cardinality(majority)
<1>1. /\ taken \in [Providers -> Nat] /\ pot \in Nat
      /\ \A p \in Providers : taken[p] <= staked[p]
  BY TakenType
<1>2. /\ majority \in SUBSET Providers /\ majority # {}
      /\ majority \subseteq serving[j].members
      /\ dissenters \subseteq serving[j].members \ majority
      /\ serving[j].members \in SUBSET Providers
  BY MajorityOfMembers DEF RecordOutcome, Verdict, TypeOK
<1>3. /\ IsFiniteSet(serving[j].members) /\ IsFiniteSet(majority) /\ n \in Nat \ {0}
      /\ Cardinality(serving[j].members) \in Nat /\ Cardinality(serving[j].members) <= 5
  BY <1>2, EconomyAssumption, FS_Subset, FS_CardinalityType, FS_EmptySet DEF SmallConsortia
<1>4. Quantized(pot, n) * (n - 1) <= pot
  <2>1. CASE dissenters = {}
    <3>1. \A p \in Providers : taken[p] = 0
      BY <2>1 DEF Taken
    <3>2. pot = 0
      <4> HIDE DEF taken
      <4>1. SumOver(taken, Providers) = SumOver(taken, {})
        BY <3>1, SumSkip
      <4> QED
        BY <4>1, SumEmpty
    <3>3. Quantized(0, n) = 0
      <4> DEFINE q == 0 \div n
                 r == 0 % n
      <4>1. q = 0 /\ r = 0
        BY <1>3
      <4>2. Quantized(0, n) = IF 2 * r > n \/ (2 * r = n /\ q % 2 = 1) THEN q + 1 ELSE q
        BY DEF Quantized
      <4> HIDE DEF n, q, r
      <4> QED
        BY <1>3, <4>1, <4>2
    <3> HIDE DEF n, pot
    <3> QED
      BY <1>3, <3>2, <3>3
  <2>2. CASE dissenters # {}
    <3>1. majority # serving[j].members
      BY <1>2, <2>2
    <3>2. n < Cardinality(serving[j].members)
      <4>1. n <= Cardinality(serving[j].members)
        BY <1>2, <1>3, FS_Subset
      <4>2. n # Cardinality(serving[j].members)
        BY <1>2, <1>3, <3>1, FS_Subset
      <4> HIDE DEF n
      <4> QED
        BY <1>3, <4>1, <4>2
    <3> HIDE DEF n, pot
    <3>3. n \in 1 .. 4
      BY <1>3, <3>2
    <3> QED
      BY <1>1, <3>3, SharesFit
  <2> QED
    BY <2>1, <2>2
<1>5. PICK last \in majority :
        available' = [p \in Providers |-> available[p] + Shares(pot, majority, last)[p]]
  BY DEF RecordOutcome
<1> DEFINE awards == Shares(pot, majority, last)
<1>6. staked' = [p \in Providers |-> staked[p] - taken[p]] /\ burnt' = burnt
  BY DEF RecordOutcome
<1> HIDE DEF taken
<1>7. awards \in [Providers -> Nat] /\ SumOver(awards, Providers) = pot
  <2> HIDE DEF pot
  <2> QED
    BY <1>1, <1>2, <1>4, SharesType, SharesAddUp DEF n
<1> HIDE DEF awards
<1>8. /\ SumOver(available', Providers) = SumOver(available, Providers) + SumOver(awards, Providers)
      /\ SumOver(staked', Providers) + SumOver(taken, Providers) = SumOver(staked, Providers)
  BY <1>1, <1>5, <1>6, <1>7, SlashKeepsMoney DEF awards
<1>9. /\ SumOver(available, Providers) \in Nat /\ SumOver(staked', Providers) \in Nat
      /\ SumOver(staked, Providers) \in Nat
  <2>1. /\ available \in [Providers -> Nat] /\ staked \in [Providers -> Nat]
        /\ staked' \in [Providers -> Nat]
    BY <1>1, <1>6 DEF TypeOK
  <2> QED
    BY <2>1, SumNat, EconomyAssumption
<1> QED
  BY <1>1, <1>6, <1>7, <1>8, <1>9 DEF MoneyStays, TypeOK

\* A crash leaves to nobody what was slashed and not yet awarded.
LEMMA CrashKeepsMoney ==
  ASSUME TypeOK, NEW j \in Jobs, NEW majority, NEW dissenters, NEW price \in Nat,
         CrashInRecord(j, majority, dissenters, price)
  PROVE  MoneyStays => MoneyStays'
<1>1. majority \in SUBSET Providers /\ majority # {}
  BY MajorityOfMembers DEF CrashInRecord
<1>2. PICK slashed \in (SUBSET dissenters) \ {{}} :
        LET taken == Taken(slashed, price)
            pot   == SumOver(taken, Providers)
        IN  \E paid \in IF slashed = dissenters THEN SUBSET majority ELSE {{}}, last \in majority :
              /\ last \in paid => paid = majority
              /\ LET awards == [p \in Providers |->
                                  IF p \in paid THEN Shares(pot, majority, last)[p] ELSE 0]
                 IN  /\ staked' = [p \in Providers |-> staked[p] - taken[p]]
                     /\ available' = [p \in Providers |-> available[p] + awards[p]]
                     /\ burnt' = burnt + pot - SumOver(awards, Providers)
  BY DEF CrashInRecord
<1> DEFINE taken == Taken(slashed, price)
           pot   == SumOver(taken, Providers)
<1>3. PICK paid \in IF slashed = dissenters THEN SUBSET majority ELSE {{}}, last \in majority :
         LET awards == [p \in Providers |->
                          IF p \in paid THEN Shares(pot, majority, last)[p] ELSE 0]
         IN  /\ staked' = [p \in Providers |-> staked[p] - taken[p]]
             /\ available' = [p \in Providers |-> available[p] + awards[p]]
             /\ burnt' = burnt + pot - SumOver(awards, Providers)
  BY <1>2, Zenon
<1> DEFINE shares == Shares(pot, majority, last)
           awards == [p \in Providers |-> IF p \in paid THEN shares[p] ELSE 0]
           given  == SumOver(awards, Providers)
<1>4. /\ taken \in [Providers -> Nat] /\ pot \in Nat
      /\ \A p \in Providers : taken[p] <= staked[p]
  BY TakenType
<1>5. /\ staked' = [p \in Providers |-> staked[p] - taken[p]]
      /\ available' = [p \in Providers |-> available[p] + awards[p]]
      /\ burnt' = burnt + pot - given
  BY <1>3
<1> HIDE DEF taken
<1>6. shares \in [Providers -> Nat]
  <2> HIDE DEF pot
  <2> QED
    BY <1>1, <1>4, SharesType
<1> HIDE DEF shares
<1>7. awards \in [Providers -> Nat]
  BY <1>6
<1> HIDE DEF awards
<1>8. /\ SumOver(available', Providers) = SumOver(available, Providers) + given
      /\ SumOver(staked', Providers) + pot = SumOver(staked, Providers)
  BY <1>4, <1>5, <1>7, SlashKeepsMoney
<1>9. /\ available \in [Providers -> Nat] /\ staked \in [Providers -> Nat]
      /\ staked' \in [Providers -> Nat]
  BY <1>4, <1>5 DEF TypeOK
<1>10. /\ SumOver(available, Providers) \in Nat /\ SumOver(staked', Providers) \in Nat
      /\ SumOver(staked, Providers) \in Nat /\ given \in Nat
  BY <1>7, <1>9, SumNat, EconomyAssumption
<1> HIDE DEF pot, given
<1> QED
  BY <1>4, <1>5, <1>8, <1>10 DEF MoneyStays, TypeOK

LEMMA MoneyStep ==
  ASSUME TypeOK, TypeOK', SmallConsortia, MoneyStays, [Next]_vars
  PROVE  MoneyStays'
<1>1. ASSUME NEW p \in Providers, NEW a \in 1 .. available[p], Stake(p, a) PROVE MoneyStays'
  <2>1. \A q \in Providers : available[q] + staked[q] = available'[q] + staked'[q]
    BY <1>1 DEF Stake, TypeOK
  <2> QED
    BY <1>1, <2>1, MovesKeepMoney DEF Stake
<1>2. ASSUME NEW p \in Providers, ClaimUnstaked(p) PROVE MoneyStays'
  BY <1>2, GiveKeepsMoney DEF ClaimUnstaked, Matured
<1>3. ASSUME NEW p \in Providers, CrashInClaim(p) PROVE MoneyStays'
  <2>1. PICK k \in 1 .. Cardinality(Matured(p)) : Give(p, 1 .. k)
    BY <1>3 DEF CrashInClaim
  <2>2. 1 .. k \in SUBSET DOMAIN unbonding[p]
    BY <2>1, FirstPlaces
  <2> QED
    BY <1>3, <2>1, <2>2, GiveKeepsMoney DEF CrashInClaim
<1>4. ASSUME NEW j \in Jobs, NEW majority, NEW dissenters, NEW price \in Prices,
             RecordOutcome(j, majority, dissenters, price)
      PROVE  MoneyStays'
  BY <1>4, OutcomeKeepsMoney, EconomyAssumption
<1>5. ASSUME NEW j \in Jobs, NEW majority, NEW dissenters, NEW price \in Prices,
             CrashInRecord(j, majority, dissenters, price)
      PROVE  MoneyStays'
  BY <1>5, CrashKeepsMoney, EconomyAssumption
<1>6. ASSUME UNCHANGED <<available, staked, burnt>> PROVE MoneyStays'
  BY <1>6 DEF MoneyStays
<1>7. ASSUME NEW p \in Providers, NEW a \in 1 .. staked[p], RequestUnstake(p, a) PROVE MoneyStays'
  BY <1>6, <1>7 DEF RequestUnstake, ledger
<1>8. ASSUME NEW j \in Jobs, NEW majority, NEW dissenters,
             Admit(j) \/ Dispute(j) \/ RecordRaises(j, majority, dissenters)
      PROVE  MoneyStays'
  BY <1>6, <1>8 DEF Admit, Dispute, RecordRaises, ledger
<1>9. CASE Tick \/ Restart \/ UNCHANGED vars
  BY <1>6, <1>9 DEF Tick, Restart, vars, ledger
<1> QED
  BY <1>1, <1>2, <1>3, <1>4, <1>5, <1>7, <1>8, <1>9 DEF Next

\* Slashing moves money and neither makes nor destroys any, but for what a
\* crash leaves between slash_stake and slash_award: for any number of
\* providers, bonds and prices, as long as no consortium has more than five
\* members.  Among more the rounded shares of record_quorum_outcome may exceed
\* the pot.  States MoneyStays of EconomicLayer.
THEOREM MoneyStaysAlways == Spec /\ []SmallConsortia => []MoneyStays
<1>1. Init => MoneyStays
  <2> SUFFICES ASSUME Init PROVE MoneyStays
    OBVIOUS
  <2>1. available = Funds /\ staked = [p \in Providers |-> 0] /\ burnt = 0
    BY DEF Init
  <2>2. SumOver(staked, Providers) = 0
    <3>1. \A p \in Providers : staked[p] = 0
      BY <2>1
    <3>2. SumOver(staked, Providers) = SumOver(staked, {})
      BY <3>1, SumSkip
    <3> QED
      BY <3>2, SumEmpty
  <2>3. SumOver(Funds, Providers) \in Nat
    BY SumNat, EconomyAssumption
  <2> QED
    BY <2>1, <2>2, <2>3 DEF MoneyStays
<1>2. TypeOK /\ TypeOK' /\ SmallConsortia /\ MoneyStays /\ [Next]_vars => MoneyStays'
  BY MoneyStep
<1> QED
  BY <1>1, <1>2, TypeCorrect, PTL DEF Spec
=============================================================================
