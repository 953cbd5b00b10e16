----------------------------- MODULE JobsService -----------------------------
(***************************************************************************)
(* api/jobs_service.py over core/buyer_ledger.py and api/job_store.py: the *)
(* life of a job and of the money it locks.  The service is a set of       *)
(* coroutines on one event loop: a coroutine gives up control only where   *)
(* it awaits a thread, in the auction of submit and in the execution, and  *)
(* where a spawned task waits for its first turn.  Between those it is one *)
(* action.  _push_event never gives up control, and writes the store.      *)
(*                                                                         *)
(* The budget of a job is reduced to what becomes of its hold; the ledger  *)
(* of budgets has a module of its own, BudgetLedger.  Failover is the      *)
(* choice of the provider that finishes.  The dispute window is left open. *)
(***************************************************************************)
EXTENDS EscrowLedger

CONSTANTS
  Providers,  \* providers in the auction, named by their wallets
  Bid,        \* the price each provider bids
  Rounding,   \* how far a float sum of bids may be off their decimal sum
  Buyers,     \* buyer_wallet_id of a submission: a wallet, or NoBuyer
  NoBuyer,    \* a job without a buyer's wallet
  Cash,       \* amounts topped up or withdrawn
  MaxFunds    \* bound: what all wallets hold together

ASSUME ServiceAssumption ==
  /\ Providers \subseteq Wallets \ {Treasury}
  /\ NoBuyer \notin Wallets
  /\ Buyers \subseteq Wallets \cup {NoBuyer}
  /\ Bid \in [Providers -> Nat \ {0}]
  /\ Rounding \subseteq Int
  /\ \A r \in Rounding, p, q \in Providers : p # q => Bid[p] + Bid[q] + r > 0
  /\ Cash \subseteq Nat \ {0}
  /\ MaxFunds \in Nat
  /\ \A a \in 0 .. MaxFunds : Commission[a] \in 0 .. a

VARIABLES
  job,     \* jobs, with where the coroutine of each is
  stored,  \* the state of each job in the store
  budget   \* what became of each job's budget hold

vars == <<job, stored, budget, ledgerVars>>

OpenStates == {"queued", "matched", "running", "paused_funding"}
Delivered  == {"completed", "completed_partial"}
JobState   == OpenStates \cup Delivered
              \cup {"none", "failed", "timeout", "cancelled", "abandoned",
                    "interrupted", "disputed_refunded"}
NoJob      == [state |-> "none", pc |-> "none", kind |-> "single",
               buyer |-> NoBuyer, members |-> {}]

TypeOK ==
  /\ LedgerTypeOK
  /\ job \in [Jobs -> [state : JobState, pc : {"none", "auction", "spawned", "executing"},
                       kind : {"single", "consortium"}, buyer : Wallets \cup {NoBuyer},
                       members : SUBSET Providers]]
  /\ stored \in [Jobs -> JobState]
  /\ budget \in [Jobs -> {"none", "held", "charged", "released", "gone"}]

-----------------------------------------------------------------------------
(* Helpers. *)

\* A change of state of job j, written through by _push_event.
Push(j, rec) ==
  /\ job' = [job EXCEPT ![j] = rec]
  /\ stored' = [stored EXCEPT ![j] = rec.state]

At(j, pc) == job[j].pc = pc

To(j, state, pc) == [job[j] EXCEPT !.state = state, !.pc = pc]

\* The shares of the members of a consortium.
SharesOf(S) == [w \in Wallets |-> IF w \in S THEN Bid[w] ELSE 0]

\* Jobs without a buyer's wallet lock nothing.
Funded(b, j, price) == IF b = NoBuyer THEN TRUE ELSE CanLock(j, b, price)
Lock(b, j, price)   == IF b = NoBuyer THEN UNCHANGED ledgerVars ELSE LockForJob(j, b, price)

\* A fault: only a complete delivery is charged.
ChargedIfWhole(j, outcome) ==
  [budget EXCEPT ![j] = IF @ # "held" THEN @
                        ELSE IF outcome = "completed" THEN "charged" ELSE "released"]

\* _budget_terminal: a delivery is charged, anything else gives the hold back.
BudgetAfter(j, outcome) ==
  [budget EXCEPT ![j] = IF @ # "held" THEN @
                        ELSE IF outcome \in Delivered THEN "charged" ELSE "released"]

\* A fault: a partial delivery is refunded.
PaysWhole(j, outcome, shares) ==
  IF job[j].buyer = NoBuyer \/ ~Settleable(j) THEN UNCHANGED ledgerVars
  ELSE IF outcome # "completed" THEN RefundToBuyer(j)
  ELSE IF SumOver(shares, Wallets) > escrows[j].amount THEN UNCHANGED ledgerVars
  ELSE Release(j, shares)

\* _settle_terminal, the part of the ledger.  A split above the locked amount
\* fails its assertion, and the exception is swallowed.
SettleEscrow(j, outcome, shares) ==
  IF job[j].buyer = NoBuyer \/ ~Settleable(j) THEN UNCHANGED ledgerVars
  ELSE IF outcome \notin Delivered THEN RefundToBuyer(j)
  ELSE IF SumOver(shares, Wallets) > escrows[j].amount THEN UNCHANGED ledgerVars
  ELSE Release(j, shares)

-----------------------------------------------------------------------------
(* submit. *)

\* The host guard or the budget gate refuses before the auction.
Refuse(j) ==
  /\ stored[j] = "none"
  /\ Push(j, [NoJob EXCEPT !.state = "failed"])
  /\ UNCHANGED <<budget, ledgerVars>>

Submit(j, b) ==
  /\ stored[j] = "none"
  /\ Push(j, [NoJob EXCEPT !.state = "queued", !.pc = "auction", !.buyer = b])
  /\ budget' = [budget EXCEPT ![j] = "held"]
  /\ UNCHANGED ledgerVars

\* Nobody bids.  A consortium below its minimum keeps its budget hold.
NoMatch(j, kind) ==
  /\ At(j, "auction")
  /\ Push(j, To(j, "failed", "none"))
  /\ budget' = IF kind = "single" THEN BudgetAfter(j, "failed") ELSE budget
  /\ UNCHANGED ledgerVars

\* What the auction may come to.  A single job is priced by its winner's bid,
\* a consortium by the float sum of its members' bids.
Offers ==
  {[kind |-> "single", members |-> {w}, price |-> Bid[w]] : w \in Providers}
  \cup {[kind |-> "consortium", members |-> M, price |-> SumOver(Bid, M) + r] :
          M \in {S \in SUBSET Providers : Cardinality(S) > 1}, r \in Rounding}

Winners(j, o) ==
  [To(j, "matched", "spawned") EXCEPT !.kind = o.kind, !.members = o.members]

\* The price is locked before anything runs.
LockPrice(j, o) ==
  /\ At(j, "auction")
  /\ Funded(job[j].buyer, j, o.price)
  /\ Lock(job[j].buyer, j, o.price)

Match(j, o) ==
  /\ LockPrice(j, o)
  /\ Push(j, Winners(j, o))
  /\ UNCHANGED budget

\* Too little money: a single job waits for more, a consortium fails.
Underfunded(j, o) ==
  /\ At(j, "auction")
  /\ ~Funded(job[j].buyer, j, o.price)
  /\ Push(j, [Winners(j, o) EXCEPT
                !.state = IF o.kind = "single" THEN "paused_funding" ELSE "failed",
                !.pc = "none"])
  /\ UNCHANGED <<budget, ledgerVars>>

-----------------------------------------------------------------------------
(* _run_job and _run_consortium. *)

\* A fault: a job no longer matched does not start.
StartsIfMatched(j) ==
  /\ At(j, "spawned")
  /\ IF job[j].state = "matched" THEN Push(j, To(j, "running", "executing"))
     ELSE job' = [job EXCEPT ![j].pc = "none"] /\ UNCHANGED stored
  /\ UNCHANGED <<budget, ledgerVars>>

\* The task's first turn, whatever happened to the job in the meantime.
StartRun(j) ==
  /\ At(j, "spawned")
  /\ Push(j, To(j, "running", "executing"))
  /\ UNCHANGED <<budget, ledgerVars>>

\* Settle the budget, then the escrow, then publish the state.
Settle(j, outcome, shares) ==
  /\ budget' = BudgetAfter(j, outcome)
  /\ SettleEscrow(j, outcome, shares)
  /\ Push(j, To(j, outcome, "none"))

\* The winner left the auction between the match and the task's first turn.
WinnerGone(j) ==
  /\ At(j, "spawned") /\ job[j].kind = "single"
  /\ Settle(j, "failed", NoShares)

\* What an execution may come to: [outcome, shares].  The winner or a
\* substitute finishes a single job; members S earned their share of a
\* consortium's, whose quorum may also be in dispute.
Results(j) ==
  IF job[j].kind = "single"
  THEN [outcome : {"completed"}, shares : {Only(w, escrows[j].amount) : w \in Providers}]
       \cup [outcome : {"failed", "timeout"}, shares : {NoShares}]
  ELSE {[outcome |-> "completed", shares |-> SharesOf(S)] :
          S \in (SUBSET job[j].members) \ {{}}}
       \cup {[outcome |-> "completed_partial", shares |-> SharesOf(S)] :
               S \in (SUBSET job[j].members) \ {{}, job[j].members}}
       \cup {[outcome |-> "failed", shares |-> NoShares]}

Finish(j, r) ==
  /\ At(j, "executing")
  /\ Settle(j, r.outcome, r.shares)

\* No member delivered, or the execution raised: the early returns of
\* _run_consortium settle nothing.
ConsortiumLost(j) ==
  /\ At(j, "executing") /\ job[j].kind = "consortium"
  /\ Push(j, To(j, "failed", "none"))
  /\ UNCHANGED <<budget, ledgerVars>>

-----------------------------------------------------------------------------
(* What clients do; the id of a job is theirs when submit has returned. *)

Known(j) == job[j].state # "none" /\ ~At(j, "auction")

\* A job that waits or runs goes on: cancel only changes its state.
Cancel(j) ==
  /\ Known(j)
  /\ job[j].state \notin {"completed", "failed", "cancelled", "timeout"}
  /\ Push(j, To(j, "cancelled", job[j].pc))
  /\ UNCHANGED <<budget, ledgerVars>>

Abandon(j) ==
  /\ Known(j)
  /\ job[j].state \in {"paused_funding", "queued", "matched"}
  /\ Push(j, To(j, "abandoned", job[j].pc))
  /\ UNCHANGED <<budget, ledgerVars>>

ResumeFunding(j) ==
  /\ job[j].state = "paused_funding"
  /\ \E w \in job[j].members :
       /\ CanLock(j, job[j].buyer, Bid[w])
       /\ LockForJob(j, job[j].buyer, Bid[w])
  /\ Push(j, To(j, "matched", "spawned"))
  /\ UNCHANGED budget

\* What a dispute takes back: what each payee still has of what it was paid.
Pulled(j, w) ==
  LET paid == escrows[j].paid[w] + (IF w = Treasury THEN escrows[j].fee ELSE 0)
  IN  IF wallets[w].available < paid THEN wallets[w].available ELSE paid

\* dispute reaches into the ledger's records past its methods: the entries
\* are debits and a refund that name the job, and nothing is saved.
ClawBack(j) ==
  LET pulls  == [w \in Wallets |-> Pulled(j, w)]
      refund == Only(job[j].buyer, SumOver(pulls, Wallets))
  IN  /\ wallets' = [w \in Wallets |->
                       [wallets[w] EXCEPT !.available = @ - pulls[w] + refund[w]]]
      /\ history' = Apply(Apply(history, "settle", pulls), "refund", refund)
      /\ escrows' = [escrows EXCEPT ![j].state = "disputed_refunded"]
      /\ UNCHANGED saved

Dispute(j) ==
  /\ Known(j)
  /\ job[j].state \in Delivered
  /\ IF job[j].buyer # NoBuyer /\ escrows[j].state = "released"
     THEN ClawBack(j) ELSE UNCHANGED ledgerVars
  /\ Push(j, To(j, "disputed_refunded", "none"))
  /\ UNCHANGED budget

Funds == SumOver([w \in Wallets |-> wallets[w].available + wallets[w].locked], Wallets)

\* The wallet endpoints; a top-up lets every paused job of the wallet resume.
TopUp(w, a) ==
  /\ Funds + a <= MaxFunds
  /\ Credit(w, a)
  /\ UNCHANGED <<job, stored, budget>>

Withdraw(w, a) ==
  /\ Debit(w, a)
  /\ UNCHANGED <<job, stored, budget>>

-----------------------------------------------------------------------------
(* Time, and the process stopping. *)

\* The hold of a job that takes too long is dropped by the budget ledger.
HoldExpires(j) ==
  /\ budget[j] = "held"
  /\ budget' = [budget EXCEPT ![j] = "gone"]
  /\ UNCHANGED <<job, stored, ledgerVars>>

\* A new process: open jobs are interrupted and have lost their buyer, the
\* others are in the store only, and holds are gone.
Reboot(b) ==
  /\ job' = [j \in Jobs |-> IF stored[j] \in OpenStates
                             THEN [NoJob EXCEPT !.state = "interrupted"] ELSE NoJob]
  /\ stored' = [j \in Jobs |-> IF stored[j] \in OpenStates THEN "interrupted" ELSE stored[j]]
  /\ budget' = [j \in Jobs |-> IF b[j] = "held" THEN "gone" ELSE b[j]]

LoadLedger ==
  /\ wallets' = saved.wallets
  /\ history' = saved.history
  /\ escrows' = saved.escrows
  /\ UNCHANGED saved

Restart ==
  /\ LoadLedger
  /\ Reboot(budget)

\* The process stops after the lock is saved, before the match is stored.
CrashInMatch(j, o) ==
  /\ LockPrice(j, o)
  /\ job[j].buyer # NoBuyer
  /\ Reboot(budget)

\* It stops after the budget is settled, before the escrow is.
CrashInSettle(j, r) ==
  /\ At(j, "executing")
  /\ LoadLedger
  /\ Reboot(BudgetAfter(j, r.outcome))

\* It stops after the escrow is settled and saved, before the outcome is stored.
CrashAfterSettle(j, r) ==
  /\ At(j, "executing")
  /\ SettleEscrow(j, r.outcome, r.shares)
  /\ saved' # saved
  /\ Reboot(BudgetAfter(j, r.outcome))

-----------------------------------------------------------------------------

Init ==
  /\ LedgerInit
  /\ job = [j \in Jobs |-> NoJob]
  /\ stored = [j \in Jobs |-> "none"]
  /\ budget = [j \in Jobs |-> "none"]

Next ==
  \/ \E j \in Jobs :
       \/ Refuse(j)
       \/ \E b \in Buyers : Submit(j, b)
       \/ \E kind \in {"single", "consortium"} : NoMatch(j, kind)
       \/ \E o \in Offers : Match(j, o) \/ Underfunded(j, o) \/ CrashInMatch(j, o)
       \/ StartRun(j) \/ WinnerGone(j)
       \/ \E r \in Results(j) : Finish(j, r) \/ CrashInSettle(j, r) \/ CrashAfterSettle(j, r)
       \/ ConsortiumLost(j)
       \/ Cancel(j) \/ Abandon(j) \/ ResumeFunding(j) \/ Dispute(j)
       \/ HoldExpires(j)
  \/ \E w \in Wallets \ {Treasury}, a \in Cash : TopUp(w, a) \/ Withdraw(w, a)
  \/ Restart

Spec == Init /\ [][Next]_vars

-----------------------------------------------------------------------------
(* Properties. *)

\* Every lock has a coroutine that will settle it, whatever clients did to its
\* job meanwhile, or is one of two kinds nobody settles: its job was
\* interrupted by a restart, or is a consortium that failed before settlement.
\* Concerns cancel and abandon, which leave the lock to the coroutine.
Orphaned(j) ==
  job[j].buyer = NoBuyer \/ (job[j].kind = "consortium" /\ job[j].state = "failed")
LockHasOwner ==
  \A j \in Jobs :
    escrows[j].state = "locked" => job[j].pc \in {"spawned", "executing"} \/ Orphaned(j)

\* A job whose store says it was delivered has paid its providers, across
\* crashes too: _settle_terminal comes before the event is pushed, so no
\* crash between them reports a delivery that was not paid.
DeliveredIsPaid ==
  \A j \in Jobs : stored[j] \in Delivered => escrows[j].state \in {"none", "released"}

\* Payment to providers and charge to the buyer's budget go together: escrow
\* is released only for a job whose hold was charged, or had expired.
\* Concerns the two ledgers behind _settle_terminal and a crash between.
PaidIsCharged ==
  \A j \in Jobs : escrows[j].state = "released" => budget[j] \in {"charged", "gone"}

\* The escrow keeps what buyer_ledger.py promises of it (its invariants 1 to
\* 5), with disputes as the one reversal and a restart as no event at all.
Contract ==
  INSTANCE EscrowContract WITH
    balance <- [w \in Wallets |-> wallets[w].available],
    pot     <- [j \in Jobs |-> IF escrows[j].state = "locked" THEN escrows[j].amount ELSE 0],
    settled <- {j \in Jobs : escrows[j].state \notin {"none", "locked"}}
ContractHolds == Contract!Spec

\* buyer_ledger.py, invariant 3: on failure the full locked amount returns to
\* the buyer.
FailedIsRefunded ==
  \A j \in Jobs : job[j].state = "failed" => escrows[j].state \in {"none", "refunded"}
=============================================================================
