------------------------- MODULE BudgetLedgerProofs -------------------------
(***************************************************************************)
(* Theorems about the budget ledger for every set of jobs, paths, amounts, *)
(* windows and TTL.  The cardinality laws of SumLemmas carry the           *)
(* arithmetic of the holds.                                                *)
(***************************************************************************)
EXTENDS BudgetLedger, SumLemmas

-----------------------------------------------------------------------------
(* The operators of the ledger. *)

\* The absent hold is under no envelope.
LEMMA NoPrefixes == Prefixes(<<>>) = {}
BY DEF Prefixes

LEMMA NoHoldType == NoHold \in Hold
BY DEF NoHold, Hold

\* What the sums over holds need to know of a map of holds.
LEMMA HeldUnderFinite ==
  ASSUME NEW h \in [Jobs -> Hold], NEW e
  PROVE  /\ IsFiniteSet(HeldUnder(h, e))
         /\ \A j \in HeldUnder(h, e) : [i \in Jobs |-> h[i].amount][j] \in Nat
<1>1. HeldUnder(h, e) \subseteq Jobs
  BY DEF HeldUnder
<1>2. \A j \in Jobs : h[j].amount \in Nat
  BY DEF Hold, NoHold
<1>3. IsFiniteSet(HeldUnder(h, e))
  BY <1>1, JobsAssumption, FS_Subset
<1> QED
  BY <1>1, <1>2, <1>3

LEMMA ReservedNat ==
  ASSUME NEW h \in [Jobs -> Hold], NEW e
  PROVE  Reserved(h, e) \in Nat
BY HeldUnderFinite, SumNat DEF Reserved

\* Dropping holds never raises what is reserved.
LEMMA ReservedDrops ==
  ASSUME NEW h \in [Jobs -> Hold], NEW g \in [Jobs -> Hold], NEW e,
         \A j \in Jobs : g[j] = h[j] \/ g[j] = NoHold
  PROVE  Reserved(g, e) <= Reserved(h, e)
<1> DEFINE amountsOf(m) == [i \in Jobs |-> m[i].amount]
<1>1. HeldUnder(g, e) \subseteq HeldUnder(h, e)
  BY NoPrefixes DEF HeldUnder, NoHold
<1>2. \A j \in HeldUnder(g, e) : amountsOf(g)[j] = amountsOf(h)[j]
  BY NoPrefixes DEF HeldUnder, NoHold
<1>3. SumOver(amountsOf(g), HeldUnder(g, e)) = SumOver(amountsOf(h), HeldUnder(g, e))
  <2> HIDE DEF amountsOf
  <2> QED BY <1>2, SumAgree
<1>4. SumOver(amountsOf(h), HeldUnder(g, e)) <= SumOver(amountsOf(h), HeldUnder(h, e))
  <2>1. /\ IsFiniteSet(HeldUnder(h, e))
        /\ \A j \in HeldUnder(h, e) : amountsOf(h)[j] \in Nat
    BY HeldUnderFinite
  <2> HIDE DEF amountsOf
  <2> QED BY <2>1, <1>1, SumSubset
<1> QED
  BY <1>3, <1>4 DEF Reserved

\* A new hold raises what is reserved by its amount, under its prefixes only.
LEMMA ReservedAdds ==
  ASSUME NEW h \in [Jobs -> Hold], NEW j \in Jobs, h[j] = NoHold,
         NEW r \in Hold, NEW e
  PROVE  Reserved([h EXCEPT ![j] = r], e)
           = IF e \in Prefixes(r.path) THEN Reserved(h, e) + r.amount
                                       ELSE Reserved(h, e)
<1> DEFINE g == [h EXCEPT ![j] = r]
           amountsOf(m) == [i \in Jobs |-> m[i].amount]
<1>1. g \in [Jobs -> Hold] /\ g[j] = r /\ \A i \in Jobs \ {j} : g[i] = h[i]
  OBVIOUS
<1>2. j \notin HeldUnder(h, e)
  BY NoPrefixes DEF HeldUnder, NoHold
<1>3. HeldUnder(g, e) = IF e \in Prefixes(r.path) THEN HeldUnder(h, e) \cup {j}
                                                 ELSE HeldUnder(h, e)
  BY <1>1, <1>2 DEF HeldUnder
<1>4. \A i \in HeldUnder(h, e) : amountsOf(g)[i] = amountsOf(h)[i]
  BY <1>1, <1>2 DEF HeldUnder
<1>5. amountsOf(g)[j] = r.amount
  BY <1>1
<1>6. /\ IsFiniteSet(HeldUnder(h, e))
      /\ \A i \in HeldUnder(g, e) : amountsOf(g)[i] \in Nat
  BY <1>1, HeldUnderFinite
<1>7. SumOver(amountsOf(g), HeldUnder(h, e)) = SumOver(amountsOf(h), HeldUnder(h, e))
  <2> HIDE DEF amountsOf, g
  <2> QED BY <1>4, SumAgree
<1>8. CASE e \in Prefixes(r.path)
  <2>1. HeldUnder(g, e) = HeldUnder(h, e) \cup {j}
    BY <1>3, <1>8
  <2>2. SumOver(amountsOf(g), HeldUnder(h, e) \cup {j})
          = SumOver(amountsOf(g), HeldUnder(h, e)) + amountsOf(g)[j]
    <3> HIDE DEF amountsOf, g
    <3> QED BY <1>2, <1>6, <2>1, SumAdd
  <2>3. SumOver(amountsOf(g), HeldUnder(g, e))
          = SumOver(amountsOf(h), HeldUnder(h, e)) + r.amount
    <3> HIDE DEF amountsOf, g
    <3> QED BY <2>1, <2>2, <1>7, <1>5
  <2> QED
    BY <2>3, <1>8 DEF Reserved
<1>9. CASE e \notin Prefixes(r.path)
  <2>1. HeldUnder(g, e) = HeldUnder(h, e)
    BY <1>3, <1>9
  <2>2. SumOver(amountsOf(g), HeldUnder(g, e)) = SumOver(amountsOf(h), HeldUnder(h, e))
    <3> HIDE DEF amountsOf, g
    <3> QED BY <2>1, <1>7
  <2> QED
    BY <2>2, <1>9 DEF Reserved
<1> QED
  BY <1>8, <1>9

\* A whole number of windows is a natural number of instants.
LEMMA WindowsNat ==
  ASSUME NEW n \in Nat, NEW d \in Nat \ {0}
  PROVE  (n \div d) * d \in Nat
<1>1. n \div d \in Nat
  OBVIOUS
<1>2. \A a, b \in Nat : a * b \in Nat
  OBVIOUS
<1> QED
  BY <1>1, <1>2

LEMMA ResetType ==
  ASSUME NEW r \in Envelope, NEW n \in Nat,
         NEW m, m = [r EXCEPT !.start = n, !.spent = 0]
  PROVE  m \in Envelope /\ m.period = r.period /\ m.cap = r.cap /\ m.spent <= r.spent
<1>1. m \in Envelope
  BY DEF Envelope
<1>2. m.period = r.period /\ m.cap = r.cap /\ m.spent = 0
  BY DEF Envelope
<1>3. 0 <= r.spent
  BY DEF Envelope
<1> QED
  BY <1>1, <1>2, <1>3

LEMMA RolledOverType ==
  ASSUME now \in Nat, NEW r \in Envelope
  PROVE  /\ RolledOver(r) \in Envelope
         /\ RolledOver(r).period = r.period
         /\ RolledOver(r).cap = r.cap
         /\ RolledOver(r).spent <= r.spent
<1> DEFINE span == Span[r.period]
           newStart == r.start + ((now - r.start) \div span) * span
<1>1. CASE r.period \in DOMAIN Span /\ now - r.start >= span
  <2>1. span \in Nat \ {0} /\ now - r.start \in Nat /\ r.start \in Nat
    BY <1>1, NumbersAssumption DEF Envelope
  <2>2. ((now - r.start) \div span) * span \in Nat
    <3> HIDE DEF span
    <3> QED BY <2>1, WindowsNat
  <2>3. newStart \in Nat
    <3> HIDE DEF span
    <3> QED BY <2>1, <2>2
  <2>4. RolledOver(r) = [r EXCEPT !.start = newStart, !.spent = 0]
    BY <1>1 DEF RolledOver
  <2> HIDE DEF newStart
  <2> QED
    BY <2>3, <2>4, ResetType, ZenonT(30)
<1>2. CASE ~(r.period \in DOMAIN Span /\ now - r.start >= span)
  BY <1>2 DEF RolledOver, Envelope
<1> QED
  BY <1>1, <1>2

LEMMA RolloverType ==
  ASSUME TypeOK
  PROVE  /\ Rollover \in [EnvPaths -> Envelope]
         /\ Configured(Rollover) = Configured(env)
         /\ \A e \in EnvPaths : /\ Rollover[e].spent <= env[e].spent
                                /\ Rollover[e].cap = env[e].cap
<1>1. \A e \in EnvPaths : env[e] \in Envelope /\ now \in Nat
  BY DEF TypeOK
<1>2. \A e \in EnvPaths : /\ Rollover[e] = RolledOver(env[e])
                          /\ RolledOver(env[e]) \in Envelope
                          /\ RolledOver(env[e]).period = env[e].period
                          /\ RolledOver(env[e]).cap = env[e].cap
                          /\ RolledOver(env[e]).spent <= env[e].spent
  BY <1>1, RolledOverType DEF Rollover
<1> QED
  BY <1>2 DEF Rollover, Configured

LEMMA UnexpiredType ==
  ASSUME TypeOK
  PROVE  /\ Unexpired \in [Jobs -> Hold]
         /\ \A j \in Jobs : Unexpired[j] = hold[j] \/ Unexpired[j] = NoHold
BY NoHoldType DEF Unexpired, TypeOK

LEMMA ChargeType ==
  ASSUME TypeOK, NEW p \in Paths, NEW cost \in Nat
  PROVE  /\ Charge(Rollover, p, cost) \in [EnvPaths -> Envelope]
         /\ \A e \in EnvPaths :
              /\ Charge(Rollover, p, cost)[e].cap = env[e].cap
              /\ Charge(Rollover, p, cost)[e].spent =
                   IF e \in Prefixes(p) \cap Configured(Rollover)
                   THEN Rollover[e].spent + cost ELSE Rollover[e].spent
<1>1. \A e \in EnvPaths : Rollover[e] \in Envelope /\ Rollover[e].cap = env[e].cap
  BY RolloverType
<1> QED
  BY <1>1 DEF Charge, Envelope

\* Charging configures no envelope and removes none.
LEMMA ChargeConfigures ==
  ASSUME TypeOK, NEW p \in Paths, NEW cost \in Nat
  PROVE  Configured(Charge(Rollover, p, cost)) = Configured(env)
<1>1. \A e \in EnvPaths : Rollover[e] \in Envelope
  BY RolloverType
<1>2. \A e \in EnvPaths : Charge(Rollover, p, cost)[e].period = Rollover[e].period
  BY <1>1 DEF Charge, Envelope
<1>3. Configured(Rollover) = Configured(env)
  BY RolloverType
<1> QED
  BY <1>2, <1>3 DEF Configured

-----------------------------------------------------------------------------
(* Type correctness. *)

LEMMA TypeStep == TypeOK /\ [Next]_vars => TypeOK'
<1> SUFFICES ASSUME TypeOK, [Next]_vars PROVE TypeOK'
  OBVIOUS
<1> USE DEF TypeOK
<1>1. /\ Rollover \in [EnvPaths -> Envelope]
      /\ Unexpired \in [Jobs -> Hold]
      /\ NoHold \in Hold
  BY RolloverType, UnexpiredType, NoHoldType
<1>2. ASSUME NEW e \in EnvPaths, NEW c \in Caps, NEW per \in Periods,
             SetEnvelope(e, c, per)
      PROVE  TypeOK'
  <2>1. [cap |-> c, period |-> per, spent |-> 0, start |-> now] \in Envelope
    BY NumbersAssumption DEF Envelope
  <2>2. [env[e] EXCEPT !.cap = c, !.period = per] \in Envelope
    BY NumbersAssumption DEF Envelope
  <2>3. env' \in [EnvPaths -> Envelope]
    BY <1>2, <2>1, <2>2 DEF SetEnvelope
  <2> QED
    BY <1>2, <2>3 DEF SetEnvelope
<1>3. CASE ReadEnvelopes
  BY <1>1, <1>3 DEF ReadEnvelopes, SaveIfChanged
<1>4. ASSUME NEW j \in Jobs, NEW p \in Paths, NEW a \in Amounts, Reserve(j, p, a)
      PROVE  TypeOK'
  <2>1. [path |-> p, amount |-> a, at |-> now] \in Hold
    BY NumbersAssumption DEF Hold
  <2>2. hold' \in [Jobs -> Hold]
    BY <1>1, <1>4, <2>1 DEF Reserve, Known
  <2>3. env' \in [EnvPaths -> Envelope] /\ disk' \in [EnvPaths -> Envelope]
    BY <1>1, <1>4 DEF Reserve, Known, SaveIfChanged
  <2>4. caller' \in [Jobs -> {"idle", "granted", "settled", "released"}]
    BY <1>4 DEF Reserve, Known
  <2> QED
    BY <1>4, <2>2, <2>3, <2>4 DEF Reserve, Known
<1>5. ASSUME NEW j \in Jobs, NEW cost \in Costs, Record(j, cost)
      PROVE  disk' \in [EnvPaths -> Envelope] /\ hold[j].path \in Paths
  <2>1. hold[j].path \in Paths /\ cost \in Nat
    BY <1>5, NumbersAssumption DEF Record, Hold
  <2>2. disk' \in [EnvPaths -> Envelope]
    BY <1>5, <2>1, ChargeType DEF Record
  <2> QED
    BY <2>1, <2>2
<1>6. ASSUME NEW j \in Jobs, NEW cost \in Costs, Settle(j, cost)
      PROVE  TypeOK'
  <2>1. [job |-> j, path |-> hold[j].path, amount |-> cost, at |-> now] \in Event
    BY <1>5, <1>6, NumbersAssumption DEF Settle, Event
  <2> QED
    BY <1>1, <1>5, <1>6, <2>1 DEF Settle
<1>7. ASSUME NEW j \in Jobs, NEW cost \in Costs, CrashInSettle(j, cost)
      PROVE  TypeOK'
  BY <1>1, <1>5, <1>7 DEF CrashInSettle, Boot
<1>8. ASSUME NEW j \in Jobs, SettleNothing(j)
      PROVE  TypeOK'
  BY <1>8 DEF SettleNothing
<1>9. ASSUME NEW j \in Jobs, Release(j)
      PROVE  TypeOK'
  BY <1>1, <1>9 DEF Release
<1>10. CASE Tick
  BY <1>10, NumbersAssumption DEF Tick
<1>11. CASE Restart
  BY <1>1, <1>11 DEF Restart, Boot
<1>12. CASE UNCHANGED vars
  BY <1>12 DEF vars
<1> QED
  BY <1>2, <1>3, <1>4, <1>6, <1>7, <1>8, <1>9, <1>10, <1>11, <1>12 DEF Next

\* Every variable keeps its type, in every instance.
THEOREM TypeCorrect == Spec => []TypeOK
<1>1. Init => TypeOK
  BY NoHoldType DEF Init, TypeOK, Envelope, NoEnvelope
<1> QED
  BY <1>1, TypeStep, PTL DEF Spec

-----------------------------------------------------------------------------
(* Idempotence and durability. *)

\* A settled job id never holds budget again while the process lives: the
\* two idempotence tests of reserve and settle, for every interleaving.
THEOREM SettledHoldsNothingAlways == Spec => []SettledHoldsNothing
<1>1. Init => SettledHoldsNothing
  BY DEF Init, SettledHoldsNothing
<1>2. TypeOK /\ SettledHoldsNothing /\ [Next]_vars => SettledHoldsNothing'
  <2> SUFFICES ASSUME TypeOK, SettledHoldsNothing, [Next]_vars
               PROVE  SettledHoldsNothing'
    OBVIOUS
  <2> USE DEF SettledHoldsNothing, TypeOK
  <2>1. ASSUME NEW j \in Jobs, NEW p \in Paths, NEW a \in Amounts, Reserve(j, p, a)
        PROVE  SettledHoldsNothing'
    BY <2>1, UnexpiredType DEF Reserve, Known
  <2>2. ASSUME NEW j \in Jobs, NEW cost \in Costs, Settle(j, cost)
        PROVE  SettledHoldsNothing'
    BY <2>2 DEF Settle
  <2>3. ASSUME NEW j \in Jobs, Release(j)
        PROVE  SettledHoldsNothing'
    BY <2>3 DEF Release
  <2>4. ASSUME Boot
        PROVE  SettledHoldsNothing'
    BY <2>4 DEF Boot
  <2>5. CASE UNCHANGED <<hold, settled>>
    BY <2>5
  <2> QED
    BY <2>1, <2>2, <2>3, <2>4, <2>5
    DEF Next, vars, SetEnvelope, ReadEnvelopes, SettleNothing, Tick, Restart, CrashInSettle
<1> QED
  BY <1>1, <1>2, TypeCorrect, PTL DEF Spec

\* state.json and the envelopes in memory always agree, so a restart at any
\* point forgets neither spend nor cap.
THEOREM RestartForgetsNothingAlways == Spec => []RestartForgetsNothing
<1>1. Init => RestartForgetsNothing
  BY DEF Init, RestartForgetsNothing
<1>2. RestartForgetsNothing /\ [Next]_vars => RestartForgetsNothing'
  BY DEF RestartForgetsNothing, Next, vars, SetEnvelope, ReadEnvelopes, Reserve,
         SaveIfChanged, Settle, SettleNothing, Release, Tick, Restart, CrashInSettle, Boot
<1> QED
  BY <1>1, <1>2, PTL DEF Spec

\* A hold its caller still counts on is dropped only once older than the TTL.
THEOREM HoldsLastTheirTTLAlways == Spec => HoldsLastTheirTTL
<1> DEFINE lasts == \A j \in Jobs :
                      /\ hold[j] # NoHold
                      /\ hold'[j] # hold[j]
                      /\ caller'[j] = "granted"
                      => now - hold[j].at > RESERVATION_TTL
<1>1. TypeOK /\ [Next]_vars => [lasts]_vars
  <2> SUFFICES ASSUME TypeOK, [Next]_vars PROVE lasts
    OBVIOUS
  <2> USE DEF TypeOK
  <2>1. ASSUME NEW j \in Jobs, NEW p \in Paths, NEW a \in Amounts, Reserve(j, p, a)
        PROVE  lasts
    <3>1. \A i \in Jobs : hold[i] # NoHold => hold'[i] = Unexpired[i]
      BY <2>1, UnexpiredType DEF Reserve, Known
    <3> QED
      BY <3>1 DEF Unexpired
  <2>2. ASSUME NEW j \in Jobs, NEW cost \in Costs, Settle(j, cost)
        PROVE  lasts
    BY <2>2 DEF Settle
  <2>3. ASSUME NEW j \in Jobs, Release(j)
        PROVE  lasts
    BY <2>3 DEF Release
  <2>4. ASSUME Boot
        PROVE  lasts
    BY <2>4 DEF Boot
  <2>5. CASE UNCHANGED hold
    BY <2>5
  <2> QED
    BY <2>1, <2>2, <2>3, <2>4, <2>5
    DEF Next, vars, SetEnvelope, ReadEnvelopes, SettleNothing, Tick, Restart, CrashInSettle
<1> QED
  BY <1>1, TypeCorrect, PTL DEF Spec, HoldsLastTheirTTL

-----------------------------------------------------------------------------
(* The gate. *)

\* What one step must not do to an envelope: raise what is committed beyond
\* the cap, unless a hold was settled for more than its amount.
Gated(e) ==
  Committed(e)' > Committed(e) /\ Committed(e)' > env'[e].cap
    => \E j \in Jobs : /\ hold[j] # NoHold /\ hold'[j] = NoHold
                       /\ env'[e].spent > env[e].spent + hold[j].amount

\* Committed amounts are naturals before and after a step.
LEMMA CommittedNat ==
  ASSUME TypeOK, TypeOK', NEW e \in EnvPaths
  PROVE  /\ env[e].spent \in Nat /\ env'[e].spent \in Nat /\ env'[e].cap \in Nat
         /\ Reserved(hold, e) \in Nat /\ Reserved(hold', e) \in Nat
         /\ Committed(e) = env[e].spent + Reserved(hold, e)
         /\ Committed(e)' = env'[e].spent + Reserved(hold', e)
BY ReservedNat DEF TypeOK, Envelope, Committed

\* A step that drops holds, and charges nothing, commits nothing more.
LEMMA DroppingIsGated ==
  ASSUME TypeOK, TypeOK', NEW e \in EnvPaths,
         env'[e].spent <= env[e].spent,
         \A j \in Jobs : hold'[j] = hold[j] \/ hold'[j] = NoHold
  PROVE  Gated(e)
<1>1. Reserved(hold', e) <= Reserved(hold, e)
  BY ReservedDrops DEF TypeOK
<1>2. Committed(e)' <= Committed(e)
  BY <1>1, CommittedNat
<1> QED
  BY <1>2, CommittedNat DEF Gated

\* An admitted hold fits under the cap of every configured prefix.
LEMMA ReserveIsGated ==
  ASSUME TypeOK, TypeOK', NEW j \in Jobs, NEW p \in Paths, NEW a \in Amounts,
         Reserve(j, p, a), NEW e \in Configured(env')
  PROVE  Gated(e)
<1>1. /\ e \in EnvPaths
      /\ env' = Rollover
      /\ Configured(Rollover) = Configured(env)
      /\ env'[e].spent <= env[e].spent
  BY RolloverType DEF Reserve, Known, Configured
<1>2. /\ Unexpired \in [Jobs -> Hold]
      /\ \A i \in Jobs : Unexpired[i] = hold[i] \/ Unexpired[i] = NoHold
  BY UnexpiredType
<1>3. CASE ~Admits(Rollover, Unexpired, p, a)
  <2>1. hold' = Unexpired
    BY <1>3 DEF Reserve, Known
  <2> QED
    BY <1>1, <1>2, <2>1, DroppingIsGated
<1>4. CASE Admits(Rollover, Unexpired, p, a)
  <2> DEFINE r == [path |-> p, amount |-> a, at |-> now]
  <2>1. r \in Hold /\ r.path = p /\ r.amount = a /\ a \in Nat
    BY NumbersAssumption DEF Hold, TypeOK
  <2>2. Unexpired[j] = NoHold
    BY <1>2 DEF Reserve, Known
  <2>3. hold' = [Unexpired EXCEPT ![j] = r]
    BY <1>4 DEF Reserve, Known
  <2>4. Reserved(hold', e) = IF e \in Prefixes(p) THEN Reserved(Unexpired, e) + a
                                                  ELSE Reserved(Unexpired, e)
    <3> HIDE DEF r
    <3> QED BY <1>2, <2>1, <2>2, <2>3, ReservedAdds
  <2>5. CASE e \in Prefixes(p)
    <3>1. env'[e].spent + Reserved(Unexpired, e) + a <= env'[e].cap
      BY <1>1, <1>4, <2>5 DEF Admits
    <3>2. Committed(e)' <= env'[e].cap
      BY <1>1, <1>2, <2>1, <2>4, <2>5, <3>1, CommittedNat, ReservedNat
    <3> QED
      BY <1>1, <3>2, CommittedNat DEF Gated
  <2>6. CASE e \notin Prefixes(p)
    <3>1. Reserved(Unexpired, e) <= Reserved(hold, e)
      BY <1>2, ReservedDrops DEF TypeOK
    <3>2. Committed(e)' <= Committed(e)
      BY <1>1, <2>4, <2>6, <3>1, CommittedNat
    <3> QED
      BY <1>1, <3>2, CommittedNat DEF Gated
  <2> QED
    BY <2>5, <2>6
<1> QED
  BY <1>3, <1>4

\* A settlement moves its hold into spend; only a cost above the hold can
\* commit more than before.
LEMMA SettleIsGated ==
  ASSUME TypeOK, TypeOK', NEW j \in Jobs, NEW cost \in Costs,
         Settle(j, cost), NEW e \in EnvPaths
  PROVE  Gated(e)
<1>1. /\ hold[j] # NoHold /\ hold'[j] = NoHold
      /\ hold[j] \in Hold /\ hold[j].path \in Paths /\ hold[j].amount \in Nat
      /\ hold' \in [Jobs -> Hold]
      /\ hold = [hold' EXCEPT ![j] = hold[j]]
  BY DEF Settle, Record, TypeOK, Hold
<1>2. Reserved(hold, e) = IF e \in Prefixes(hold[j].path)
                          THEN Reserved(hold', e) + hold[j].amount
                          ELSE Reserved(hold', e)
  BY <1>1, ReservedAdds
<1>3. env'[e].spent = IF e \in Prefixes(hold[j].path) \cap Configured(Rollover)
                      THEN Rollover[e].spent + cost ELSE Rollover[e].spent
  BY <1>1, ChargeType, NumbersAssumption DEF Settle, Record
<1>4. /\ Rollover[e].spent <= env[e].spent
      /\ Rollover[e].spent \in Nat
      /\ cost \in Nat
  BY RolloverType, NumbersAssumption DEF Envelope
<1>5. CASE env'[e].spent > env[e].spent + hold[j].amount
  BY <1>1, <1>5 DEF Gated
<1>6. CASE ~(env'[e].spent > env[e].spent + hold[j].amount)
  <2>1. Committed(e)' <= Committed(e)
    <3>1. CASE e \in Prefixes(hold[j].path)
      BY <1>1, <1>2, <1>6, <3>1, CommittedNat
    <3>2. CASE e \notin Prefixes(hold[j].path)
      BY <1>2, <1>3, <1>4, <3>2, CommittedNat
    <3> QED
      BY <3>1, <3>2
  <2> QED
    BY <2>1, CommittedNat DEF Gated
<1> QED
  BY <1>5, <1>6

\* A crash inside settle charges the cost and drops every hold, its own too.
LEMMA CrashIsGated ==
  ASSUME TypeOK, TypeOK', NEW j \in Jobs, NEW cost \in Costs,
         CrashInSettle(j, cost), NEW e \in EnvPaths
  PROVE  Gated(e)
<1> DEFINE popped == [hold EXCEPT ![j] = NoHold]
<1>1. /\ hold[j] # NoHold /\ hold'[j] = NoHold
      /\ hold[j] \in Hold /\ hold[j].path \in Paths /\ hold[j].amount \in Nat
      /\ popped \in [Jobs -> Hold] /\ popped[j] = NoHold
      /\ hold = [popped EXCEPT ![j] = hold[j]]
  BY NoHoldType DEF CrashInSettle, Boot, Record, TypeOK, Hold
<1>2. /\ Reserved(hold, e) = IF e \in Prefixes(hold[j].path)
                             THEN Reserved(popped, e) + hold[j].amount
                             ELSE Reserved(popped, e)
      /\ Reserved(popped, e) \in Nat
  <2> HIDE DEF popped
  <2> QED BY <1>1, ReservedAdds, ReservedNat
<1>3. Reserved(hold', e) <= Reserved(popped, e)
  <2>1. \A i \in Jobs : hold'[i] = popped[i] \/ hold'[i] = NoHold
    BY DEF CrashInSettle, Boot
  <2>2. hold' \in [Jobs -> Hold]
    BY DEF TypeOK
  <2> HIDE DEF popped
  <2> QED BY <1>1, <2>1, <2>2, ReservedDrops
<1>4. env'[e].spent = IF e \in Prefixes(hold[j].path) \cap Configured(Rollover)
                      THEN Rollover[e].spent + cost ELSE Rollover[e].spent
  BY <1>1, ChargeType, NumbersAssumption DEF CrashInSettle, Boot, Record
<1>5. /\ Rollover[e].spent <= env[e].spent
      /\ Rollover[e].spent \in Nat
      /\ cost \in Nat
  BY RolloverType, NumbersAssumption DEF Envelope
<1> HIDE DEF popped
<1>6. CASE env'[e].spent > env[e].spent + hold[j].amount
  BY <1>1, <1>6 DEF Gated
<1>7. CASE ~(env'[e].spent > env[e].spent + hold[j].amount)
  <2>1. Committed(e)' <= Committed(e)
    <3>1. CASE e \in Prefixes(hold[j].path)
      BY <1>1, <1>2, <1>3, <1>7, <3>1, CommittedNat
    <3>2. CASE e \notin Prefixes(hold[j].path)
      BY <1>2, <1>3, <1>4, <1>5, <3>2, CommittedNat
    <3> QED
      BY <3>1, <3>2
  <2> QED
    BY <2>1, CommittedNat DEF Gated
<1> QED
  BY <1>6, <1>7

LEMMA StepIsGated ==
  ASSUME TypeOK, TypeOK', RestartForgetsNothing, [Next]_vars,
         NEW e \in Configured(env')
  PROVE  Gated(e)
<1>1. e \in EnvPaths
  BY DEF Configured
<1>2. ASSUME NEW f \in EnvPaths, NEW c \in Caps, NEW per \in Periods,
             SetEnvelope(f, c, per)
      PROVE  Gated(e)
  <2>1. env'[e].spent <= env[e].spent /\ hold' = hold
    BY <1>1, <1>2, SMTT(60) DEF SetEnvelope, TypeOK, Envelope
  <2> QED
    BY <1>1, <2>1, DroppingIsGated
<1>3. CASE ReadEnvelopes
  <2>1. env'[e].spent <= env[e].spent /\ hold' = hold
    BY <1>1, <1>3, RolloverType DEF ReadEnvelopes
  <2> QED
    BY <1>1, <2>1, DroppingIsGated
<1>4. ASSUME NEW j \in Jobs, NEW p \in Paths, NEW a \in Amounts, Reserve(j, p, a)
      PROVE  Gated(e)
  BY <1>4, ReserveIsGated
<1>5. ASSUME NEW j \in Jobs, NEW cost \in Costs, Settle(j, cost)
      PROVE  Gated(e)
  BY <1>1, <1>5, SettleIsGated
<1>6. ASSUME NEW j \in Jobs, NEW cost \in Costs, CrashInSettle(j, cost)
      PROVE  Gated(e)
  BY <1>1, <1>6, CrashIsGated
<1>7. CASE env' = env /\ \A j \in Jobs : hold'[j] = hold[j] \/ hold'[j] = NoHold
  <2>1. env'[e].spent <= env[e].spent
    BY <1>1, <1>7, CommittedNat
  <2> QED
    BY <1>1, <1>7, <2>1, DroppingIsGated
<1>8. ASSUME NEW j \in Jobs, SettleNothing(j) \/ Release(j)
      PROVE  Gated(e)
  BY <1>7, <1>8 DEF SettleNothing, Release, TypeOK
<1>9. CASE Tick \/ Restart \/ UNCHANGED vars
  BY <1>7, <1>9 DEF Tick, Restart, Boot, RestartForgetsNothing, vars
<1> QED
  BY <1>2, <1>3, <1>4, <1>5, <1>6, <1>8, <1>9 DEF Next

\* The gate: whatever the interleaving of calls, restarts, rollovers and
\* administration, the only step that commits an envelope beyond its cap is
\* the settlement of a call that cost more than it reserved.
THEOREM GateAlwaysHolds == Spec => GateHolds
<1>1. TypeOK /\ TypeOK' /\ RestartForgetsNothing /\ [Next]_vars
        => [\A e \in Configured(env') : Gated(e)]_vars
  BY StepIsGated
<1>2. Spec => [][\A e \in Configured(env') : Gated(e)]_vars
  BY <1>1, TypeCorrect, RestartForgetsNothingAlways, PTL DEF Spec
<1> QED
  BY <1>2 DEF GateHolds, Gated

-----------------------------------------------------------------------------
(* No overrun, where calls cost at most what they reserved. *)

LEMMA NothingReserved ==
  ASSUME NEW h, \A j \in Jobs : h[j] = NoHold, NEW e
  PROVE  Reserved(h, e) = 0
<1>1. HeldUnder(h, e) = {}
  BY NoPrefixes DEF HeldUnder, NoHold
<1> QED
  BY <1>1, SumEmpty, Zenon DEF Reserved

\* The charge of a settlement is covered by the hold it consumes.
LEMMA ChargeIsCovered ==
  ASSUME TypeOK, MaxOverrun = 0, NEW j \in Jobs, NEW cost \in Costs,
         Record(j, cost), NEW e \in EnvPaths
  PROVE  disk'[e].spent <= env[e].spent + Reserved(hold, e)
<1> DEFINE popped == [hold EXCEPT ![j] = NoHold]
<1>1. /\ hold[j] \in Hold /\ hold[j].path \in Paths /\ hold[j].amount \in Nat
      /\ popped \in [Jobs -> Hold] /\ popped[j] = NoHold
      /\ hold = [popped EXCEPT ![j] = hold[j]]
  BY NoHoldType DEF Record, TypeOK, Hold
<1>2. /\ Reserved(hold, e) = IF e \in Prefixes(hold[j].path)
                             THEN Reserved(popped, e) + hold[j].amount
                             ELSE Reserved(popped, e)
      /\ Reserved(popped, e) \in Nat
  <2> HIDE DEF popped
  <2> QED BY <1>1, ReservedAdds, ReservedNat
<1>3. disk'[e].spent = IF e \in Prefixes(hold[j].path) \cap Configured(Rollover)
                       THEN Rollover[e].spent + cost ELSE Rollover[e].spent
  BY <1>1, ChargeType, NumbersAssumption DEF Record
<1>4. /\ Rollover[e].spent <= env[e].spent
      /\ Rollover[e].spent \in Nat /\ env[e].spent \in Nat
      /\ cost \in Nat /\ cost <= hold[j].amount
  BY <1>1, RolloverType, NumbersAssumption DEF Envelope, Record, TypeOK
<1> HIDE DEF popped
<1>5. CASE e \in Prefixes(hold[j].path)
  BY <1>1, <1>2, <1>3, <1>4, <1>5
<1>6. CASE e \notin Prefixes(hold[j].path)
  BY <1>2, <1>3, <1>4, <1>6
<1> QED
  BY <1>5, <1>6

LEMMA NoOverrunStep ==
  ASSUME MaxOverrun = 0, ~LiveAdmin,
         TypeOK, TypeOK', RestartForgetsNothing, NoOverrun, [Next]_vars
  PROVE  NoOverrun'
<1> SUFFICES ASSUME NEW e \in Configured(env') PROVE Committed(e)' <= env'[e].cap
  BY DEF NoOverrun
<1>1. e \in EnvPaths
  BY DEF Configured
<1>2. ASSUME NEW f \in EnvPaths, NEW c \in Caps, NEW per \in Periods,
             SetEnvelope(f, c, per)
      PROVE  Committed(e)' <= env'[e].cap
  <2>1. \A j \in Jobs : hold[j] = NoHold /\ hold' = hold
    BY <1>2 DEF SetEnvelope
  <2>2. Reserved(hold, e) = 0 /\ Reserved(hold', e) = 0
    BY <2>1, NothingReserved
  <2>3. CASE e = f /\ env[e].period = "none"
    <3>1. env'[e].spent = 0
      BY <1>1, <1>2, <2>3 DEF SetEnvelope, TypeOK
    <3> QED
      BY <1>1, <2>2, <3>1, CommittedNat
  <2>4. CASE env[e].period # "none"
    <3>1. env[e] \in Envelope /\ env[e].cap \in Nat /\ env[e].spent \in Nat
      BY <1>1 DEF TypeOK, Envelope
    <3>2. e # f => env'[e] = env[e]
      BY <1>1, <1>2 DEF SetEnvelope, TypeOK
    <3>3. e = f => /\ env'[e] = [env[e] EXCEPT !.cap = c, !.period = per]
                   /\ c >= env[e].cap
      BY <1>1, <1>2, <2>4 DEF SetEnvelope, TypeOK
    <3>4. e = f => env'[e].spent = env[e].spent /\ env'[e].cap = c
      BY <3>1, <3>3 DEF Envelope
    <3>5. Committed(e) <= env[e].cap
      BY <1>1, <2>4 DEF NoOverrun, Configured
    <3>6. env[e].spent <= env[e].cap
      BY <1>1, <2>2, <3>1, <3>5, CommittedNat
    <3>7. env'[e].spent <= env'[e].cap
      <4>1. CASE e # f
        BY <3>2, <3>6, <4>1
      <4>2. CASE e = f
        <5>1. c \in Nat
          BY NumbersAssumption
        <5> QED
          BY <3>1, <3>3, <3>4, <3>6, <4>2, <5>1
      <4> QED
        BY <4>1, <4>2
    <3> QED
      BY <1>1, <2>2, <3>7, CommittedNat
  <2>5. e = f \/ env'[e] = env[e]
    BY <1>1, <1>2 DEF SetEnvelope, TypeOK
  <2> QED
    BY <2>3, <2>4, <2>5 DEF Configured
<1>3. ASSUME Configured(env') = Configured(env), env'[e].cap = env[e].cap,
             Committed(e)' <= Committed(e)
      PROVE  Committed(e)' <= env'[e].cap
  <2>1. Committed(e) <= env[e].cap
    BY <1>3 DEF NoOverrun
  <2> QED
    BY <1>1, <1>3, <2>1, CommittedNat
<1>4. CASE ReadEnvelopes
  <2>1. env'[e].spent <= env[e].spent /\ hold' = hold
        /\ Configured(env') = Configured(env) /\ env'[e].cap = env[e].cap
    BY <1>1, <1>4, RolloverType DEF ReadEnvelopes
  <2> QED
    BY <1>1, <1>3, <2>1, CommittedNat
<1>5. ASSUME NEW j \in Jobs, NEW p \in Paths, NEW a \in Amounts, Reserve(j, p, a)
      PROVE  Committed(e)' <= env'[e].cap
  <2>1. Gated(e)
    BY <1>5, ReserveIsGated
  <2>2. /\ env'[e].spent <= env[e].spent
        /\ Configured(env') = Configured(env) /\ env'[e].cap = env[e].cap
    BY <1>1, <1>5, RolloverType DEF Reserve, Known
  <2>3. \A i \in Jobs : hold[i].amount \in Nat
    BY DEF TypeOK, Hold, NoHold
  <2>4. ~(\E i \in Jobs : env'[e].spent > env[e].spent + hold[i].amount)
    BY <1>1, <2>2, <2>3, CommittedNat
  <2> QED
    BY <1>1, <1>3, <2>1, <2>2, <2>4, CommittedNat DEF Gated
<1>6. ASSUME NEW j \in Jobs, NEW cost \in Costs, Settle(j, cost)
      PROVE  Committed(e)' <= env'[e].cap
  <2>1. /\ hold[j] # NoHold /\ hold'[j] = NoHold
        /\ hold[j] \in Hold /\ hold[j].path \in Paths /\ hold[j].amount \in Nat
        /\ hold' \in [Jobs -> Hold]
        /\ hold = [hold' EXCEPT ![j] = hold[j]]
    BY <1>6 DEF Settle, Record, TypeOK, Hold
  <2>2. cost \in Nat /\ cost <= hold[j].amount
    BY <1>6, <2>1, NumbersAssumption DEF Settle, Record
  <2>3. Reserved(hold, e) = IF e \in Prefixes(hold[j].path)
                            THEN Reserved(hold', e) + hold[j].amount
                            ELSE Reserved(hold', e)
    BY <2>1, ReservedAdds
  <2>4. /\ env'[e].spent = IF e \in Prefixes(hold[j].path) \cap Configured(Rollover)
                           THEN Rollover[e].spent + cost ELSE Rollover[e].spent
        /\ env'[e].cap = env[e].cap
    BY <1>1, <1>6, <2>1, <2>2, ChargeType DEF Settle, Record
  <2>5. Rollover[e].spent <= env[e].spent /\ Rollover[e].spent \in Nat
    BY <1>1, RolloverType DEF Envelope
  <2>6. Committed(e)' <= Committed(e)
    <3>1. CASE e \in Prefixes(hold[j].path)
      BY <1>1, <2>1, <2>2, <2>3, <2>4, <2>5, <3>1, CommittedNat
    <3>2. CASE e \notin Prefixes(hold[j].path)
      BY <1>1, <2>3, <2>4, <2>5, <3>2, CommittedNat
    <3> QED
      BY <3>1, <3>2
  <2>7. Configured(env') = Configured(env)
    BY <1>6, <2>1, <2>2, ChargeConfigures DEF Settle, Record
  <2> QED
    BY <1>3, <2>4, <2>6, <2>7
<1>7. ASSUME NEW j \in Jobs, NEW cost \in Costs, CrashInSettle(j, cost)
      PROVE  Committed(e)' <= env'[e].cap
  <2>1. env'[e].spent <= Committed(e)
    BY <1>1, <1>7, ChargeIsCovered DEF CrashInSettle, Boot, Committed
  <2>2. Reserved(hold', e) = 0
    BY <1>7, NothingReserved DEF CrashInSettle, Boot
  <2>3. hold[j].path \in Paths /\ cost \in Nat
    BY <1>7, NumbersAssumption DEF CrashInSettle, Record, TypeOK, Hold
  <2>4. Configured(env') = Configured(env) /\ env'[e].cap = env[e].cap
    BY <1>1, <1>7, <2>3, ChargeConfigures, ChargeType DEF CrashInSettle, Boot, Record
  <2> QED
    BY <1>1, <1>3, <2>1, <2>2, <2>4, CommittedNat
<1>8. CASE env' = env /\ \A j \in Jobs : hold'[j] = hold[j] \/ hold'[j] = NoHold
  <2>1. Reserved(hold', e) <= Reserved(hold, e)
    BY <1>8, ReservedDrops DEF TypeOK
  <2> QED
    BY <1>1, <1>3, <1>8, <2>1, CommittedNat
<1>9. ASSUME NEW j \in Jobs, SettleNothing(j) \/ Release(j)
      PROVE  Committed(e)' <= env'[e].cap
  BY <1>8, <1>9 DEF SettleNothing, Release, TypeOK
<1>10. CASE Tick \/ Restart \/ UNCHANGED vars
  BY <1>8, <1>10 DEF Tick, Restart, Boot, RestartForgetsNothing, vars
<1> QED
  BY <1>2, <1>4, <1>5, <1>6, <1>7, <1>9, <1>10 DEF Next

\* Where every call costs at most what it reserved, and caps are set before
\* traffic and only raised, no envelope is ever committed beyond its cap.
THEOREM NoOverrunAlways ==
  ASSUME MaxOverrun = 0, ~LiveAdmin
  PROVE  Spec => []NoOverrun
<1>1. Init => NoOverrun
  BY DEF Init, NoOverrun, Configured, NoEnvelope
<1>2. TypeOK /\ TypeOK' /\ RestartForgetsNothing /\ NoOverrun /\ [Next]_vars => NoOverrun'
  BY NoOverrunStep
<1> QED
  BY <1>1, <1>2, TypeCorrect, RestartForgetsNothingAlways, PTL DEF Spec

-----------------------------------------------------------------------------
(* Chargeback. *)

\* Whole windows that fit in some time: no more than it, and all but a rest.
LEMMA WindowsFit ==
  ASSUME NEW n \in Nat, NEW d \in Nat \ {0}, n >= d
  PROVE  /\ (n \div d) * d \in Nat /\ (n \div d) * d >= d
         /\ (n \div d) * d <= n /\ n < (n \div d) * d + d
<1>1. n \div d \in Nat /\ (n \div d) * d <= n
  OBVIOUS
<1>2. n < (n \div d) * d + d
  <2>1. n < d * (n \div d) + d
    OBVIOUS
  <2>2. d * (n \div d) = (n \div d) * d
    BY <1>1
  <2> QED
    BY <2>1, <2>2
<1> DEFINE q == n \div d
<1> HIDE DEF q
<1>3. ASSUME q \in Nat, n < q * d + d PROVE q * d \in Nat /\ q * d >= d
  <2>1. q # 0
    <3>1. 0 * d = 0
      OBVIOUS
    <3> QED
      BY <1>3, <3>1
  <2>2. q - 1 \in Nat
    BY <1>3, <2>1
  <2>3. (q - 1) * d \in Nat /\ q * d = (q - 1) * d + d
    BY <1>3, <2>2
  <2> QED
    BY <2>3
<1> QED
  BY <1>1, <1>2, <1>3 DEF q

\* What a journal shows of an envelope after this instant.
Shown(jn, e, start) ==
  {i \in DOMAIN jn : e \in Prefixes(jn[i].path) /\ jn[i].at > start}
ShownSum(jn, e, start) == SumOver([i \in DOMAIN jn |-> jn[i].amount], Shown(jn, e, start))

\* The journal is of the past, windows begin in the past, and what is
\* journalled under an envelope falls before the end of its window.
PastInv ==
  /\ \A i \in DOMAIN journal : journal[i].at <= now
  /\ \A e \in EnvPaths : env[e].start <= now
  /\ \A e \in Configured(env) : env[e].period \in DOMAIN Span =>
       \A i \in DOMAIN journal :
         e \in Prefixes(journal[i].path) => journal[i].at < env[e].start + Span[env[e].period]

ChargeInv == PastInv /\ ChargebackIsCharged

\* The same of other envelopes and another journal, read now.
Fits(r, jn, e) ==
  /\ r.start <= now
  /\ r.period # "none" =>
       /\ r.spent >= ShownSum(jn, e, r.start)
       /\ r.period \in DOMAIN Span =>
            \A i \in DOMAIN jn : e \in Prefixes(jn[i].path) => jn[i].at < r.start + Span[r.period]

LEMMA InvIsFits ==
  ChargeInv <=> /\ \A i \in DOMAIN journal : journal[i].at <= now
                /\ \A e \in EnvPaths : Fits(env[e], journal, e)
BY DEF ChargeInv, PastInv, ChargebackIsCharged, Fits, JournalledInWindow, ShownSum, Shown, Configured

\* A journal in the past shows nothing of a window that begins now.
LEMMA NothingShown ==
  ASSUME NEW jn \in Seq(Event), NEW e, NEW start \in Nat,
         \A i \in DOMAIN jn : e \in Prefixes(jn[i].path) => jn[i].at <= start
  PROVE  ShownSum(jn, e, start) = 0
<1>1. \A i \in DOMAIN jn : jn[i].at \in Nat
  <2>1. \A i \in DOMAIN jn : jn[i] \in Event
    OBVIOUS
  <2> QED
    BY <2>1 DEF Event
<1>2. Shown(jn, e, start) = {}
  BY <1>1 DEF Shown
<1> QED
  BY <1>2, SumEmpty DEF ShownSum

\* A rollover keeps it.
LEMMA RolloverFits ==
  ASSUME TypeOK, ChargeInv, NEW e \in EnvPaths
  PROVE  /\ Fits(Rollover[e], journal, e)
         /\ Rollover[e].period \in DOMAIN Span => now < Rollover[e].start + Span[Rollover[e].period]
<1> DEFINE r == env[e]
           span == Span[r.period]
           m == ((now - r.start) \div span) * span
<1>1. /\ Fits(r, journal, e) /\ r \in Envelope /\ now \in Nat /\ r.start <= now
      /\ \A i \in DOMAIN journal : journal[i].at <= now
      /\ journal \in Seq(Event)
  BY InvIsFits DEF TypeOK, Fits
<1>2. Rollover[e] = RolledOver(r)
  BY DEF Rollover
<1>3. r.start \in Nat /\ r.period \in DOMAIN Span => span \in Nat \ {0}
  BY <1>1, NumbersAssumption DEF Envelope
<1>4. CASE ~(r.period \in DOMAIN Span /\ now - r.start >= span)
  <2>1. Rollover[e] = r
    BY <1>2, <1>4 DEF RolledOver
  <2>2. r.period \in DOMAIN Span => now < r.start + span
    <3> SUFFICES ASSUME r.period \in DOMAIN Span PROVE now < r.start + span
      OBVIOUS
    <3>1. span \in Nat /\ r.start \in Nat /\ ~(now - r.start >= span)
      BY <1>1, <1>3, <1>4 DEF Envelope
    <3> HIDE DEF span, r
    <3> QED
      BY <1>1, <3>1
  <2> QED
    BY <1>1, <2>1, <2>2
<1>5. CASE r.period \in DOMAIN Span /\ now - r.start >= span
  <2>1. span \in Nat \ {0} /\ r.start \in Nat /\ now - r.start \in Nat
    BY <1>1, <1>3, <1>5 DEF Envelope
  <2>2. m \in Nat /\ m >= span /\ m <= now - r.start /\ now - r.start < m + span
    <3> DEFINE n == now - r.start
    <3> HIDE DEF span, n
    <3> QED
      BY <1>5, <2>1, WindowsFit DEF n
  <2>3. RolledOver(r) = [r EXCEPT !.start = r.start + m, !.spent = 0]
    BY <1>5 DEF RolledOver
  <2> DEFINE new == RolledOver(r)
  <2>4. new.start = r.start + m /\ new.spent = 0 /\ new.period = r.period
    BY <1>1, <2>3 DEF Envelope
  <2>5. r.period # "none" /\ \A i \in DOMAIN journal :
          e \in Prefixes(journal[i].path) => journal[i].at < r.start + span
    <3>1. r.period # "none"
      BY <1>5, NumbersAssumption
    <3> QED
      BY <1>1, <1>5, <3>1 DEF Fits
  <2>6. \A i \in DOMAIN journal : journal[i].at \in Nat
    <3>1. \A i \in DOMAIN journal : journal[i] \in Event
      BY <1>1
    <3> QED
      BY <3>1 DEF Event
  <2> HIDE DEF m, span, new, r
  <2>7. \A i \in DOMAIN journal : e \in Prefixes(journal[i].path) => journal[i].at < new.start
    BY <2>1, <2>2, <2>4, <2>5, <2>6
  <2>8. new.start \in Nat /\ new.start <= now /\ now < new.start + span
    BY <1>1, <2>1, <2>2, <2>4
  <2>9. ShownSum(journal, e, new.start) = 0
    BY <1>1, <2>6, <2>7, <2>8, NothingShown
  <2>10. \A i \in DOMAIN journal : e \in Prefixes(journal[i].path) => journal[i].at < new.start + span
    BY <2>1, <2>6, <2>7, <2>8
  <2> QED
    BY <1>2, <2>4, <2>8, <2>9, <2>10 DEF Fits, new, span
<1> QED
  BY <1>4, <1>5

\* An event more shows no more than its amount, and that under its path only.
LEMMA ShownAppend ==
  ASSUME NEW jn \in Seq(Event), NEW ev \in Event, NEW e, NEW start \in Nat
  PROVE  /\ ShownSum(jn, e, start) \in Nat
         /\ ShownSum(Append(jn, ev), e, start)
              <= ShownSum(jn, e, start) + (IF e \in Prefixes(ev.path) THEN ev.amount ELSE 0)
<1> DEFINE more == Append(jn, ev)
           n == Len(jn) + 1
           f == [i \in DOMAIN jn |-> jn[i].amount]
           g == [i \in DOMAIN more |-> more[i].amount]
           S == Shown(jn, e, start)
           T == Shown(more, e, start)
<1>1. /\ Len(jn) \in Nat /\ DOMAIN jn = 1 .. Len(jn) /\ DOMAIN more = 1 .. n
      /\ \A i \in DOMAIN jn : more[i] = jn[i]
      /\ more[n] = ev /\ n \notin DOMAIN jn
  OBVIOUS
<1>2. \A i \in DOMAIN jn : jn[i].amount \in Nat
  <2>1. \A i \in DOMAIN jn : jn[i] \in Event
    OBVIOUS
  <2> QED
    BY <2>1 DEF Event
<1>3. ev.amount \in Nat
  BY DEF Event
<1>4. IsFiniteSet(S) /\ S \subseteq DOMAIN jn
  <2>1. IsFiniteSet(1 .. Len(jn))
    BY <1>1, FS_Interval
  <2>2. S \subseteq 1 .. Len(jn)
    BY <1>1 DEF Shown
  <2> QED
    BY <1>1, <2>1, <2>2, FS_Subset
<1> HIDE DEF more, n
<1>5. T \ {n} = S /\ (n \in T => e \in Prefixes(ev.path))
  <2>1. \A i : i \in DOMAIN more <=> i \in DOMAIN jn \/ i = n
    BY <1>1 DEF n
  <2> QED
    BY <1>1, <2>1 DEF Shown
<1>6. \A i \in S : f[i] = g[i] /\ f[i] \in Nat
  <2>1. \A i \in S : i \in DOMAIN more
    <3>1. \A i \in T : i \in DOMAIN more
      BY DEF Shown
    <3> QED
      BY <1>5, <3>1
  <2> QED
    BY <1>1, <1>2, <1>4, <2>1
<1>7. n \in T => g[n] = ev.amount
  BY <1>1 DEF Shown
<1>8. ShownSum(jn, e, start) = SumOver(f, S) /\ ShownSum(more, e, start) = SumOver(g, T)
  BY DEF ShownSum
<1> HIDE DEF f, g, S, T
<1>9. SumOver(f, S) \in Nat /\ SumOver(g, S) = SumOver(f, S)
  BY <1>4, <1>6, SumNat, SumAgree
<1>10. CASE n \in T
  <2>1. T = S \cup {n} /\ n \notin S
    BY <1>5, <1>10
  <2>2. \A i \in S \cup {n} : g[i] \in Nat
    BY <1>3, <1>6, <1>7, <1>10
  <2>3. SumOver(g, T) = SumOver(g, S) + g[n]
    BY <1>4, <2>1, <2>2, SumAdd
  <2> QED
    BY <1>3, <1>5, <1>7, <1>9, <1>10, <1>8, <2>3 DEF more
<1>11. CASE n \notin T
  <2>1. T = S
    BY <1>5, <1>11
  <2> QED
    BY <1>3, <1>9, <1>8, <2>1 DEF more
<1> QED
  BY <1>10, <1>11

\* The settlement of a call charges what it then journals, or dies before.
LEMMA ChargeFits ==
  ASSUME TypeOK, ChargeInv, NEW e \in EnvPaths, NEW p \in Paths, NEW cost \in Nat, NEW j \in Jobs
  PROVE  /\ Fits(Charge(Rollover, p, cost)[e], journal, e)
         /\ Fits(Charge(Rollover, p, cost)[e],
                 Append(journal, [job |-> j, path |-> p, amount |-> cost, at |-> now]), e)
<1> DEFINE ev == [job |-> j, path |-> p, amount |-> cost, at |-> now]
           more == Append(journal, ev)
           r == Rollover[e]
           c == Charge(Rollover, p, cost)[e]
<1>1. /\ Fits(r, journal, e) /\ r \in Envelope
      /\ r.period \in DOMAIN Span => now < r.start + Span[r.period]
  BY RolloverFits, RolloverType
<1>2. now \in Nat /\ journal \in Seq(Event) /\ ev \in Event /\ r.start \in Nat
  BY <1>1 DEF TypeOK, Event, Envelope
<1>3. /\ c.start = r.start /\ c.period = r.period
      /\ c.spent = IF e \in Prefixes(p) /\ r.period # "none" THEN r.spent + cost ELSE r.spent
  BY <1>1 DEF Charge, Envelope, Configured
<1>4. r.spent \in Nat
  BY <1>1 DEF Envelope
<1>5. /\ ShownSum(journal, e, r.start) \in Nat
      /\ ShownSum(more, e, r.start)
           <= ShownSum(journal, e, r.start) + (IF e \in Prefixes(p) THEN cost ELSE 0)
  <2>1. ev.path = p /\ ev.amount = cost
    OBVIOUS
  <2> HIDE DEF ev
  <2> QED
    BY <1>2, <2>1, ShownAppend
<1>6. \A i \in DOMAIN more : (i \in DOMAIN journal /\ more[i] = journal[i]) \/ more[i] = ev
  <2> HIDE DEF ev
  <2> QED
    BY <1>2
<1>7. ev.at = now
  OBVIOUS
<1>8. ShownSum(more, e, r.start) \in Nat
  <2>1. more \in Seq(Event)
    <3> HIDE DEF ev
    <3> QED
      BY <1>2
  <2> HIDE DEF more
  <2> QED
    BY <1>2, <2>1, ShownAppend
<1> HIDE DEF ev, more, r, c
<1>9. Fits(c, journal, e)
  BY <1>1, <1>3, <1>4, <1>5 DEF Fits
<1>10. Fits(c, more, e)
  <2>1. r.period \in DOMAIN Span /\ r.period # "none" =>
          \A i \in DOMAIN more : e \in Prefixes(more[i].path) => more[i].at < r.start + Span[r.period]
    BY <1>1, <1>6, <1>7 DEF Fits
  <2>2. r.period # "none" => c.spent >= ShownSum(more, e, r.start)
    BY <1>1, <1>3, <1>4, <1>5, <1>8 DEF Fits
  <2> QED
    BY <1>1, <1>3, <2>1, <2>2 DEF Fits
<1> QED
  BY <1>9, <1>10 DEF c, more, ev

LEMMA ChargeStep ==
  ASSUME TypeOK, TypeOK', RestartForgetsNothing, ChargeInv, ~PeriodChanges, [Next]_vars
  PROVE  ChargeInv'
<1>1. /\ \A i \in DOMAIN journal : journal[i].at <= now
      /\ \A i \in DOMAIN journal : journal[i].at \in Nat
      /\ \A e \in EnvPaths : Fits(env[e], journal, e) /\ env[e] \in Envelope
      /\ now \in Nat /\ journal \in Seq(Event)
  <2>1. \A i \in DOMAIN journal : journal[i] \in Event
    BY DEF TypeOK
  <2> QED
    BY <2>1, InvIsFits DEF TypeOK, Event
<1>2. SUFFICES /\ \A i \in DOMAIN journal' : journal'[i].at <= now'
               /\ \A e \in EnvPaths : Fits(env[e], journal, e)'
  BY DEF ChargeInv, PastInv, ChargebackIsCharged, Fits, JournalledInWindow, ShownSum, Shown,
         Configured
<1>3. ASSUME journal' = journal, now' = now \/ now' = now + 1,
             \A e \in EnvPaths : Fits(env'[e], journal, e)
      PROVE  /\ \A i \in DOMAIN journal' : journal'[i].at <= now'
             /\ \A e \in EnvPaths : Fits(env[e], journal, e)'
  <2>1. \A e \in EnvPaths : env'[e] \in Envelope
    BY DEF TypeOK
  <2>2. \A e \in EnvPaths : env'[e].start \in Nat
    BY <2>1 DEF Envelope
  <2>3. \A e \in EnvPaths : env'[e].start <= now'
    BY <1>1, <1>3, <2>2 DEF Fits
  <2> QED
    BY <1>1, <1>3, <2>3 DEF Fits
<1>4. ASSUME NEW e \in EnvPaths, NEW c \in Caps, NEW per \in Periods, SetEnvelope(e, c, per)
      PROVE  \A x \in EnvPaths : Fits(env'[x], journal, x)
  <2>1. \A x \in EnvPaths \ {e} : env'[x] = env[x]
    BY <1>4 DEF SetEnvelope, TypeOK
  <2>2. CASE env[e].period = "none"
    <3>1. env'[e] = [cap |-> c, period |-> per, spent |-> 0, start |-> now]
      BY <1>4, <2>2 DEF SetEnvelope, TypeOK
    <3>2. ShownSum(journal, e, now) = 0
      BY <1>1, NothingShown
    <3>3. per \in DOMAIN Span => Span[per] \in Nat \ {0}
      BY NumbersAssumption
    <3>4. per \in DOMAIN Span => \A i \in DOMAIN journal : journal[i].at < now + Span[per]
      BY <1>1, <3>3
    <3> QED
      BY <1>1, <2>1, <3>1, <3>2, <3>4 DEF Fits
  <2>3. CASE env[e].period # "none"
    <3>1. env'[e] = [env[e] EXCEPT !.cap = c, !.period = per] /\ env[e].period = per
      BY <1>4, <2>3 DEF SetEnvelope, TypeOK
    <3>2. env'[e].period = env[e].period /\ env'[e].spent = env[e].spent /\ env'[e].start = env[e].start
      BY <1>1, <3>1 DEF Envelope
    <3> QED
      BY <1>1, <2>1, <3>2 DEF Fits
  <2> QED
    BY <2>2, <2>3
<1>5. ASSUME NEW e \in EnvPaths, NEW c \in Caps, NEW per \in Periods, SetEnvelope(e, c, per)
      PROVE  /\ \A i \in DOMAIN journal' : journal'[i].at <= now'
             /\ \A x \in EnvPaths : Fits(env[x], journal, x)'
  <2>1. journal' = journal /\ now' = now
    BY <1>5 DEF SetEnvelope
  <2> QED
    BY <1>3, <1>4, <1>5, <2>1
<1>6. ASSUME journal' = journal, now' = now, env' = Rollover
      PROVE  /\ \A i \in DOMAIN journal' : journal'[i].at <= now'
             /\ \A e \in EnvPaths : Fits(env[e], journal, e)'
  BY <1>3, <1>6, RolloverFits
<1>7. ASSUME journal' = journal, now' = now \/ now' = now + 1, env' = env
      PROVE  /\ \A i \in DOMAIN journal' : journal'[i].at <= now'
             /\ \A e \in EnvPaths : Fits(env[e], journal, e)'
  BY <1>1, <1>3, <1>7
<1>8. ASSUME NEW j \in Jobs, NEW cost \in Costs, Record(j, cost)
      PROVE  cost \in Nat /\ hold[j].path \in Paths
  <2>1. hold[j] \in Hold /\ hold[j] # NoHold
    BY <1>8 DEF Record, TypeOK
  <2> QED
    BY <2>1, NumbersAssumption DEF Hold
<1>9. ASSUME NEW j \in Jobs, NEW cost \in Costs, Settle(j, cost)
      PROVE  /\ \A i \in DOMAIN journal' : journal'[i].at <= now'
             /\ \A e \in EnvPaths : Fits(env[e], journal, e)'
  <2> DEFINE ev == [job |-> j, path |-> hold[j].path, amount |-> cost, at |-> now]
  <2>1. /\ env' = Charge(Rollover, hold[j].path, cost) /\ now' = now
        /\ journal' = Append(journal, ev) /\ Record(j, cost)
    BY <1>9 DEF Settle, Record
  <2>2. \A e \in EnvPaths : Fits(env'[e], journal', e)
    BY <1>8, <2>1, ChargeFits
  <2>3. \A i \in DOMAIN journal' : journal'[i] = ev \/ (i \in DOMAIN journal /\ journal'[i] = journal[i])
    <3>1. ev \in Event
      BY <1>1, <1>8, <2>1 DEF Event
    <3> HIDE DEF ev
    <3>2. \A i \in DOMAIN Append(journal, ev) :
            Append(journal, ev)[i] = ev \/ (i \in DOMAIN journal /\ Append(journal, ev)[i] = journal[i])
      BY <1>1, <3>1
    <3> QED
      BY <2>1, <3>2
  <2>4. ev.at = now
    OBVIOUS
  <2> HIDE DEF ev
  <2>5. \A i \in DOMAIN journal' : journal'[i].at <= now'
    BY <1>1, <2>1, <2>3, <2>4
  <2>6. \A e \in EnvPaths : Fits(env[e], journal, e)'
    BY <2>1, <2>2 DEF Fits
  <2> QED
    BY <2>5, <2>6
<1>10. ASSUME NEW j \in Jobs, NEW cost \in Costs, CrashInSettle(j, cost)
      PROVE  /\ \A i \in DOMAIN journal' : journal'[i].at <= now'
             /\ \A e \in EnvPaths : Fits(env[e], journal, e)'
  <2>1. /\ env' = Charge(Rollover, hold[j].path, cost) /\ now' = now
        /\ journal' = journal /\ Record(j, cost)
    BY <1>10 DEF CrashInSettle, Record, Boot
  <2>2. \A e \in EnvPaths : Fits(env'[e], journal, e)
    BY <1>8, <2>1, ChargeFits
  <2> QED
    BY <1>3, <2>1, <2>2
<1>11. ASSUME NEW j \in Jobs, NEW p \in Paths, NEW a \in Amounts, Reserve(j, p, a)
       PROVE  env' = Rollover /\ journal' = journal /\ now' = now
  BY <1>11 DEF Reserve
<1>12. CASE ReadEnvelopes
  BY <1>6, <1>12 DEF ReadEnvelopes
<1>13. CASE Tick
  BY <1>7, <1>13 DEF Tick
<1>14. CASE Restart
  BY <1>7, <1>14 DEF Restart, Boot, RestartForgetsNothing
<1>15. ASSUME NEW j \in Jobs, SettleNothing(j) \/ Release(j)
       PROVE  env' = env /\ journal' = journal /\ now' = now
  BY <1>15 DEF SettleNothing, Release
<1>16. CASE UNCHANGED vars
  BY <1>7, <1>16 DEF vars
<1> QED
  BY <1>5, <1>6, <1>7, <1>9, <1>10, <1>11, <1>12, <1>13, <1>14, <1>15, <1>16 DEF Next

\* report() never shows more spend in an envelope's current window than the
\* envelope was charged, through rollovers, late settlements and the crash
\* between settle's two writes, where no envelope changes its period.  States
\* ChargebackIsCharged of BudgetLedger.
THEOREM ChargebackIsAlwaysCharged ==
  ASSUME ~PeriodChanges
  PROVE  Spec => []ChargebackIsCharged
<1>1. Init => ChargeInv
  <2> SUFFICES ASSUME Init PROVE ChargeInv
    OBVIOUS
  <2>1. journal = <<>> /\ now = 0 /\ \A e \in EnvPaths : env[e] = NoEnvelope
    BY DEF Init
  <2>2. Configured(env) = {} /\ DOMAIN journal = {} /\ \A e \in EnvPaths : env[e].start = 0
    BY <2>1 DEF Configured, NoEnvelope
  <2> QED
    BY <2>1, <2>2 DEF ChargeInv, PastInv, ChargebackIsCharged
<1>2. ChargeInv => ChargebackIsCharged
  BY DEF ChargeInv
<1>3. TypeOK /\ TypeOK' /\ RestartForgetsNothing /\ ChargeInv /\ [Next]_vars => ChargeInv'
  BY ChargeStep
<1> QED
  BY <1>1, <1>2, <1>3, TypeCorrect, RestartForgetsNothingAlways, PTL DEF Spec
=============================================================================
