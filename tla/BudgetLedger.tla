---------------------------- MODULE BudgetLedger ----------------------------
(***************************************************************************)
(* governance/budget_ledger.py: the budget gate every paid call goes       *)
(* through.  An envelope caps the spend of a slash-separated path; a call  *)
(* reserves its worst case against every envelope above it, and later      *)
(* settles the actual cost or releases the hold.  Every public method runs *)
(* under one lock, so each is one action; the process may stop between any *)
(* two of them, and inside settle between the two files it writes.         *)
(*                                                                         *)
(* USD amounts are naturals.  The metadata of an event is left out.        *)
(***************************************************************************)
EXTENDS Naturals, Sequences, FiniteSets, Sums

CONSTANTS
  Jobs,             \* job ids handed out by the callers
  Paths,            \* paths a caller may charge: non-empty sequences
  EnvPaths,         \* paths an administrator may cap
  Amounts,          \* worst-case amounts a caller may reserve
  Costs,            \* what a call may turn out to cost
  Caps,             \* caps an administrator may set
  Periods,          \* "day", "week", "month", "total"
  Span,             \* length of a window, for every period that rolls over
  RESERVATION_TTL,  \* age after which a hold is stale
  RequireEnvelope,  \* the gateway's strict mode
  MaxOverrun,       \* how far an actual cost may exceed its hold
  LiveAdmin,        \* may caps be changed while calls are open?
  PeriodChanges,    \* may set_envelope change an envelope's period?
  MaxTime,          \* bound: last instant of the clock
  MaxJournal        \* bound: settle events in the journal

Prefixes(p) == {SubSeq(p, 1, i) : i \in 1 .. Len(p)}

ASSUME JobsAssumption == IsFiniteSet(Jobs)
ASSUME PathsAssumption ==
  /\ <<>> \notin Paths
  /\ <<>> \notin EnvPaths
ASSUME NumbersAssumption ==
  /\ Amounts \subseteq Nat
  /\ Costs \subseteq Nat
  /\ Caps \subseteq Nat
  /\ DOMAIN Span \subseteq Periods
  /\ Span \in [DOMAIN Span -> Nat \ {0}]
  /\ "none" \notin Periods
  /\ {RESERVATION_TTL, MaxOverrun, MaxTime, MaxJournal} \subseteq Nat
  /\ {RequireEnvelope, LiveAdmin, PeriodChanges} \subseteq BOOLEAN

VARIABLES
  now,      \* the injected clock
  env,      \* _envelopes, as a total map
  hold,     \* _reservations, as a total map
  settled,  \* _settled_job_ids
  journal,  \* the settle events of journal.jsonl, in order
  disk,     \* what state.json holds
  caller    \* what each job's caller has seen: idle, granted, settled, released

vars == <<now, env, hold, settled, journal, disk, caller>>

NoEnvelope == [cap |-> 0, period |-> "none", spent |-> 0, start |-> 0]
NoHold     == [path |-> <<>>, amount |-> 0, at |-> 0]

Envelope == [cap : Nat, period : Periods \cup {"none"}, spent : Nat, start : Nat]
Hold     == [path : Paths, amount : Nat, at : Nat] \cup {NoHold}
Event    == [job : Jobs, path : Paths, amount : Nat, at : Nat]

TypeOK ==
  /\ now \in Nat
  /\ env \in [EnvPaths -> Envelope]
  /\ hold \in [Jobs -> Hold]
  /\ settled \in SUBSET Jobs
  /\ journal \in Seq(Event)
  /\ disk \in [EnvPaths -> Envelope]
  /\ caller \in [Jobs -> {"idle", "granted", "settled", "released"}]

-----------------------------------------------------------------------------
(* The internals of the ledger. *)

Configured(envs) == {e \in EnvPaths : envs[e].period # "none"}

HeldUnder(h, e) == {j \in Jobs : e \in Prefixes(h[j].path)}

\* _reserved_against
Reserved(h, e) == SumOver([j \in Jobs |-> h[j].amount], HeldUnder(h, e))

\* Faults of _expire_stale: one instant early, never, and a hold emptied of
\* its path but not of its amount.
ExpiresEarly ==
  [j \in Jobs |-> IF now - hold[j].at >= RESERVATION_TTL THEN NoHold ELSE hold[j]]
ExpiresNever == hold
ExpiresPathOnly ==
  [j \in Jobs |-> IF now - hold[j].at > RESERVATION_TTL
                  THEN [hold[j] EXCEPT !.path = <<>>] ELSE hold[j]]

\* _expire_stale: a hold strictly older than the TTL is dropped.
Unexpired ==
  [j \in Jobs |-> IF now - hold[j].at > RESERVATION_TTL THEN NoHold ELSE hold[j]]

\* A fault of _rollover_all: the window's anchor stays behind.
RollsWithoutAnchor(r) ==
  IF r.period \in DOMAIN Span /\ now - r.start >= Span[r.period]
  THEN [r EXCEPT !.spent = 0]
  ELSE r

RolledOver(r) ==
  IF r.period \in DOMAIN Span /\ now - r.start >= Span[r.period]
  THEN [r EXCEPT !.start = @ + ((now - @) \div Span[r.period]) * Span[r.period],
                 !.spent = 0]
  ELSE r

\* _rollover_all
Rollover == [e \in EnvPaths |-> RolledOver(env[e])]

\* _rollover_all saves the state when some window moved.
SaveIfChanged(envs) == disk' = IF envs = env THEN disk ELSE envs

\* Faults of the budget test: the envelopes above the path are skipped, and
\* the open holds are not counted.
AdmitsOnLeaf(envs, h, p, amount) ==
  p \in Configured(envs) => envs[p].spent + Reserved(h, p) + amount <= envs[p].cap
AdmitsOnSpend(envs, h, p, amount) ==
  \A e \in Prefixes(p) \cap Configured(envs) : envs[e].spent + amount <= envs[e].cap

\* The budget test of reserve: every configured prefix has the headroom.
Admits(envs, h, p, amount) ==
  LET matched == Prefixes(p) \cap Configured(envs)
  IN  /\ matched = {} => ~RequireEnvelope
      /\ \A e \in matched : envs[e].spent + Reserved(h, e) + amount <= envs[e].cap

Charge(envs, p, cost) ==
  [e \in EnvPaths |->
     IF e \in Prefixes(p) \cap Configured(envs)
     THEN [envs[e] EXCEPT !.spent = @ + cost]
     ELSE envs[e]]

-----------------------------------------------------------------------------
(* The public operations. *)

\* A new window starts now; an update keeps the spend and the window.
SetEnvelope(e, newCap, newPeriod) ==
  /\ LiveAdmin \/ \A j \in Jobs : hold[j] = NoHold /\ caller[j] = "idle"
  /\ LiveAdmin \/ newCap >= env[e].cap
  /\ PeriodChanges \/ env[e].period \in {"none", newPeriod}
  /\ env' = [env EXCEPT ![e] =
       IF @.period = "none"
       THEN [cap |-> newCap, period |-> newPeriod, spent |-> 0, start |-> now]
       ELSE [@ EXCEPT !.cap = newCap, !.period = newPeriod]]
  /\ disk' = env'
  /\ UNCHANGED <<now, hold, settled, journal, caller>>

\* envelopes() and report(): a read that rolls the windows over.
ReadEnvelopes ==
  /\ env' = Rollover
  /\ SaveIfChanged(Rollover)
  /\ UNCHANGED <<now, hold, settled, journal, caller>>

\* The idempotence test of reserve.
Known(j) == hold[j] # NoHold \/ j \in settled

\* A known job id is granted again, with no change.
Reserve(j, p, amount) ==
  /\ ~Known(j)
  /\ env' = Rollover
  /\ SaveIfChanged(Rollover)
  /\ IF Admits(Rollover, Unexpired, p, amount)
     THEN /\ hold' = [Unexpired EXCEPT ![j] = [path |-> p, amount |-> amount, at |-> now]]
          /\ caller' = [caller EXCEPT ![j] = "granted"]
     ELSE /\ hold' = Unexpired
          /\ UNCHANGED caller
  /\ UNCHANGED <<now, settled, journal>>

\* The part of settle that is durable before the journal is written: the
\* hold is popped and its cost is charged to every envelope above its path.
Record(j, cost) ==
  /\ j \notin settled
  /\ hold[j] # NoHold
  /\ cost <= hold[j].amount + MaxOverrun
  /\ Len(journal) < MaxJournal
  /\ disk' = Charge(Rollover, hold[j].path, cost)

Settle(j, cost) ==
  /\ Record(j, cost)
  /\ env' = disk'
  /\ hold' = [hold EXCEPT ![j] = NoHold]
  /\ settled' = settled \cup {j}
  /\ journal' = Append(journal,
       [job |-> j, path |-> hold[j].path, amount |-> cost, at |-> now])
  /\ caller' = [caller EXCEPT ![j] = "settled"]
  /\ UNCHANGED now

\* settle of a job whose hold is gone returns without recording anything.
SettleNothing(j) ==
  /\ caller[j] = "granted"
  /\ hold[j] = NoHold
  /\ caller' = [caller EXCEPT ![j] = "settled"]
  /\ UNCHANGED <<now, env, hold, settled, journal, disk>>

Release(j) ==
  /\ caller[j] = "granted"
  /\ hold' = [hold EXCEPT ![j] = NoHold]
  /\ caller' = [caller EXCEPT ![j] = "released"]
  /\ UNCHANGED <<now, env, settled, journal, disk>>

-----------------------------------------------------------------------------
(* The environment: time, and the process stopping. *)

Tick ==
  /\ now < MaxTime
  /\ now' = now + 1
  /\ UNCHANGED <<env, hold, settled, journal, disk, caller>>

\* What a new process starts from: holds, settled ids and callers are gone.
Boot ==
  /\ env' = disk'
  /\ hold' = [j \in Jobs |-> NoHold]
  /\ settled' = {}
  /\ caller' = [j \in Jobs |-> "idle"]

Restart ==
  /\ UNCHANGED <<now, journal, disk>>
  /\ Boot

\* The process stops inside settle, after state.json and before the journal.
CrashInSettle(j, cost) ==
  /\ Record(j, cost)
  /\ Boot
  /\ UNCHANGED <<now, journal>>

-----------------------------------------------------------------------------

Init ==
  /\ now = 0
  /\ env = [e \in EnvPaths |-> NoEnvelope]
  /\ hold = [j \in Jobs |-> NoHold]
  /\ settled = {}
  /\ journal = <<>>
  /\ disk = env
  /\ caller = [j \in Jobs |-> "idle"]

Next ==
  \/ \E e \in EnvPaths, c \in Caps, per \in Periods : SetEnvelope(e, c, per)
  \/ ReadEnvelopes
  \/ \E j \in Jobs, p \in Paths, a \in Amounts : Reserve(j, p, a)
  \/ \E j \in Jobs, cost \in Costs : Settle(j, cost)
  \/ \E j \in Jobs, cost \in Costs : CrashInSettle(j, cost)
  \/ \E j \in Jobs : SettleNothing(j)
  \/ \E j \in Jobs : Release(j)
  \/ Tick
  \/ Restart

Spec == Init /\ [][Next]_vars

\* Callers keep arriving: a job that is neither held nor settled goes on
\* asking.  Nothing else is assumed, the clock included.
FairSpec ==
  /\ Spec
  /\ \A k \in Jobs :
       WF_vars(\E p \in Paths, a \in Amounts : Reserve(k, p, a))

-----------------------------------------------------------------------------
(* Properties. *)

Committed(e) == env[e].spent + Reserved(hold, e)

\* The gate: the only step that takes what is committed against an envelope
\* further, beyond its cap, is the settlement of a call that cost more than
\* its hold.  Concerns the headroom test of reserve over every prefix, with
\* expiry and rollover done first, against settle, release and restart.
GateHolds ==
  [][\A e \in Configured(env') :
       Committed(e)' > Committed(e) /\ Committed(e)' > env'[e].cap
         => \E j \in Jobs : /\ hold[j] # NoHold /\ hold'[j] = NoHold
                            /\ env'[e].spent > env[e].spent + hold[j].amount]_vars

\* Where every call costs at most its hold and caps are set before traffic,
\* no envelope is ever committed beyond its cap.
NoOverrun == \A e \in Configured(env) : Committed(e) <= env[e].cap

\* A settled job id never holds budget again in the life of the process,
\* so no call is charged twice.  Concerns the two idempotence tests of
\* reserve and settle.
SettledHoldsNothing == \A j \in settled : hold[j] = NoHold

\* A hold whose caller has neither settled nor released it is dropped only
\* when it is older than the TTL.
HoldsLastTheirTTL ==
  [][\A j \in Jobs :
       /\ hold[j] # NoHold
       /\ hold'[j] # hold[j]
       /\ caller'[j] = "granted"
       => now - hold[j].at > RESERVATION_TTL]_vars

\* The settlements journalled in the current window of an envelope.
JournalledInWindow(e) ==
  SumOver([i \in DOMAIN journal |-> journal[i].amount],
          {i \in DOMAIN journal : /\ e \in Prefixes(journal[i].path)
                                  /\ journal[i].at > env[e].start})

\* Chargeback: report() never shows more spend in an envelope's current
\* window than the envelope was charged.  Concerns the order of settle's two
\* writes, the rollover done before charging, and the restart between them.
ChargebackIsCharged ==
  \A e \in Configured(env) : env[e].spent >= JournalledInWindow(e)

\* state.json always holds the envelopes in memory, so a restart at any
\* moment forgets no spend and no cap.
RestartForgetsNothing == disk = env

\* Budget-ledger header, line 28: a hold nobody ends cannot wedge an
\* envelope.  Once stale it is gone as soon as another caller asks.
Stale(j) == hold[j] # NoHold /\ now - hold[j].at > RESERVATION_TTL
Asking(k) == ~Known(k)
StaleHoldsExpire == \A j, k \in Jobs : (Stale(j) /\ Asking(k)) ~> ~Stale(j)

\* Docstring of settle, line 222: the cost of a job the gate admitted is
\* recorded whenever its caller settles it.
SettlementsAreRecorded ==
  [][\A j \in Jobs :
       caller[j] = "granted" /\ caller'[j] = "settled" => j \in settled']_vars
=============================================================================
