---------------------------- MODULE PaymentFlows ----------------------------
(***************************************************************************)
(* core/payment_flows.py: the cash rails over the wallet ledger.  A        *)
(* deposit charges the card through StripeGateway (core/payments.py), then *)
(* credits the wallet; a withdrawal debits the wallet, and is later paid   *)
(* or cancelled.  The wallets and the flows live in two snapshots, written *)
(* one after the other: money_ledger.json, then payment_flows.json.  Calls *)
(* to the gateway run outside the lock.                                    *)
(*                                                                         *)
(* A deposit is named by its transaction, which is what the code dedups    *)
(* on.  Whoever repeats an idempotency key repeats the whole request.      *)
(***************************************************************************)
EXTENDS Naturals, FiniteSets, Sums

CONSTANTS
  Wallets,       \* wallet ids
  Opening,       \* what each wallet holds at first
  Requests,      \* deposits a buyer may ask for: [key, wallet, amount]
  Withdrawn,     \* amounts a wallet may withdraw
  Wids,          \* withdrawal ids
  Callers,       \* threads calling the flows
  AutoPayout,    \* does the gateway offer payout()?
  GapCrashes,    \* operations the process may die in, between the two files
  MaxCharges,    \* bound: charges Stripe ever accepts
  MaxTorn        \* bound: what crashes in a gap may double and lose, in all

NoKey == "none"

ASSUME RequestsAssumption ==
  /\ Requests \subseteq [key : STRING, wallet : Wallets, amount : Nat \ {0}]
  /\ \A r, s \in Requests : r.key = s.key /\ r.key # NoKey => r = s
ASSUME FlowsAssumption ==
  /\ Opening \in [Wallets -> Nat]
  /\ Withdrawn \subseteq Nat \ {0}
  /\ AutoPayout \in BOOLEAN
  /\ GapCrashes \subseteq {"deposit", "request", "cancel"}
  /\ IsFiniteSet(Wallets) /\ IsFiniteSet(Wids) /\ {MaxCharges, MaxTorn} \subseteq Nat

VARIABLES
  wallet,       \* available_usd of each wallet
  deposits,     \* _deposits: the transactions credited
  withdrawals,  \* _withdrawals, as a total map
  files,        \* money_ledger.json and payment_flows.json
  doubt,        \* does the ledger carry integrity_alerts?
  calls,        \* where each thread is in its call
  cache,        \* StripeGateway's IdempotencyStore: the answer of each key
  charges,      \* Stripe: the charges it accepted
  torn,         \* history: what crashes between the two files doubled and
                \* lost, and the keys whose charge was never answered
  sent          \* payouts that left: by the gateway, or by an operator's hand

vars == <<wallet, deposits, withdrawals, files, doubt, calls, cache, charges,
          torn, sent>>
gateway == <<cache, charges, sent>>
ledger  == <<wallet, deposits, withdrawals, files, doubt, torn>>

Charge       == [id : 1 .. MaxCharges, req : Requests]
NoWithdrawal == [state |-> "none"]
Withdrawal   == [state : {"pending", "paid", "cancelled"}, wallet : Wallets,
                 amount : Withdrawn] \cup {NoWithdrawal}
Failed       == [id |-> 0]
Idle         == [pc |-> "idle"]
Call         ==
  {Idle}
  \cup [pc : {"charge", "refused"}, req : Requests, again : BOOLEAN]
  \cup [pc : {"credit"}, tx : Charge]
  \cup [pc : {"payout", "complete"}, wid : Wids]
Keys         == {r.key : r \in Requests} \ {NoKey}

TypeOK ==
  /\ wallet \in [Wallets -> Nat]
  /\ deposits \subseteq Charge
  /\ withdrawals \in [Wids -> Withdrawal]
  /\ files \in [wallet : [Wallets -> Nat], deposits : SUBSET Charge,
                withdrawals : [Wids -> Withdrawal]]
  /\ doubt \in BOOLEAN
  /\ calls \in [Callers -> Call]
  /\ cache \in [Keys -> Charge \cup {Failed, Idle}]
  /\ charges \subseteq Charge
  /\ torn \in [twice : Nat, lost : Nat, unanswered : SUBSET Keys]
  /\ sent \subseteq Wids \X {"gateway", "hand"}

Charged(r)    == {t \in charges : r.key # NoKey /\ t.req.key = r.key}
Plus(w, a)    == [wallet EXCEPT ![w] = @ + a]
Minus(w, a)   == [wallet EXCEPT ![w] = @ - a]
State(wid, s) == [withdrawals EXCEPT ![wid].state = s]
Return(c)     == calls' = [calls EXCEPT ![c] = Idle]

\* A fault: the flows' snapshot is written without the withdrawals' states.
SaveDeposits ==
  files' = [files EXCEPT !.wallet = wallet', !.deposits = deposits']

\* Every mutation ends with the ledger's snapshot and then the flows' one.
Save == files' = [wallet |-> wallet', deposits |-> deposits', withdrawals |-> withdrawals']

\* The process stops and starts again from its files: memory, calls and the
\* gateway's cache are gone.  An edited ledger file raises an alert.
Boot ==
  /\ wallet' = files'.wallet
  /\ deposits' = files'.deposits
  /\ withdrawals' = files'.withdrawals
  /\ doubt' \in BOOLEAN
  /\ calls' = [c \in Callers |-> Idle]
  /\ cache' = [k \in Keys |-> Idle]
  /\ UNCHANGED <<charges, sent>>

\* The process dies in op after the ledger's snapshot, before the flows' one:
\* the amount it moved is then in two places, or in none.
Gap(op, moved, fate, amount) ==
  /\ op \in GapCrashes
  /\ torn.twice + torn.lost + amount <= MaxTorn
  /\ files' = [files EXCEPT !.wallet = moved]
  /\ torn' = [torn EXCEPT ![fate] = @ + amount]
  /\ Boot

Init ==
  /\ wallet = Opening
  /\ deposits = {}
  /\ withdrawals = [wid \in Wids |-> NoWithdrawal]
  /\ files = [wallet |-> wallet, deposits |-> deposits, withdrawals |-> withdrawals]
  /\ doubt = FALSE
  /\ calls = [c \in Callers |-> Idle]
  /\ cache = [k \in Keys |-> Idle]
  /\ charges = {}
  /\ torn = [twice |-> 0, lost |-> 0, unanswered |-> {}]
  /\ sent = {}

-----------------------------------------------------------------------------
(* Deposits. *)

Free(c) == calls[c].pc \in {"idle", "refused"}

\* deposit, up to the gateway: a known key returns the prior deposit; a key
\* the gateway has an answer for is answered from its store.
Deposit(c, r) ==
  /\ Free(c)
  /\ \A t \in deposits : t.req.key = r.key => r.key = NoKey
  /\ LET known == IF r.key = NoKey THEN Idle ELSE cache[r.key]
         again == Charged(r) # {}
     IN  calls' = [calls EXCEPT ![c] =
           CASE known = Idle   -> [pc |-> "charge", req |-> r, again |-> again]
             [] known = Failed -> [pc |-> "refused", req |-> r, again |-> again]
             [] OTHER          -> [pc |-> "credit", tx |-> known]]
  /\ UNCHANGED <<ledger, gateway>>

\* A fault: whatever the answer, the store keeps a failure.
RememberFailure(r, answer) ==
  cache' = IF r.key = NoKey THEN cache ELSE [cache EXCEPT ![r.key] = Failed]

\* IdempotencyStore.put, for a request that has a key.
Remember(r, answer) ==
  cache' = IF r.key = NoKey THEN cache ELSE [cache EXCEPT ![r.key] = answer]

\* Stripe makes one charge per key.
Accept(r, t) ==
  /\ IF Charged(r) # {}
     THEN t \in Charged(r)
     ELSE Cardinality(charges) < MaxCharges /\ t = [id |-> Cardinality(charges) + 1, req |-> r]
  /\ charges' = charges \cup {t}

Accepted(c) ==
  /\ calls[c].pc = "charge"
  /\ \E t \in Charge :
       /\ Accept(calls[c].req, t)
       /\ Remember(calls[c].req, t)
       /\ calls' = [calls EXCEPT ![c] = [pc |-> "credit", tx |-> t]]
  /\ UNCHANGED <<ledger, sent>>

\* The charge is refused, or made and its answer lost in an exception: both are
\* a failure, which the store remembers for a day.
Declined(c) ==
  /\ calls[c].pc = "charge"
  /\ Charged(calls[c].req) = {}
  /\ Remember(calls[c].req, Failed)
  /\ calls' = [calls EXCEPT ![c].pc = "refused"]
  /\ UNCHANGED <<ledger, charges, sent>>

Unanswered(c) ==
  /\ calls[c].pc = "charge"
  /\ \E t \in Charge : Accept(calls[c].req, t)
  /\ Remember(calls[c].req, Failed)
  /\ torn' = [torn EXCEPT !.unanswered = @ \cup ({calls[c].req.key} \cap Keys)]
  /\ calls' = [calls EXCEPT ![c].pc = "refused"]
  /\ UNCHANGED <<wallet, deposits, withdrawals, files, doubt, sent>>

\* An answer older than a day leaves the store.
Evict(k) ==
  /\ cache[k] # Idle
  /\ cache' = [cache EXCEPT ![k] = Idle]
  /\ UNCHANGED <<ledger, calls, charges, sent>>

\* A fault: the second replay guard is missing.
NotSeen(t) == TRUE

\* The second replay guard: the transaction was not credited yet.
New(t) == t \notin deposits

\* deposit, after the gateway.
Credit(c) ==
  /\ calls[c].pc = "credit"
  /\ LET t == calls[c].tx IN
     IF New(t)
     THEN /\ wallet' = Plus(t.req.wallet, t.req.amount)
          /\ deposits' = deposits \cup {t}
          /\ UNCHANGED withdrawals
          /\ Save
     ELSE UNCHANGED <<wallet, deposits, withdrawals, files>>
  /\ Return(c)
  /\ UNCHANGED <<doubt, torn, gateway>>

CrashInCredit(c) ==
  /\ calls[c].pc = "credit" /\ New(calls[c].tx)
  /\ LET r == calls[c].tx.req
     IN  Gap("deposit", Plus(r.wallet, r.amount), "twice", r.amount)

-----------------------------------------------------------------------------
(* Withdrawals. *)

\* _refuse_if_integrity_doubt
Sure == ~doubt

\* A fault: the ledger lets a debit overdraw.
MayOverdraw(c, wid, w, a) ==
  /\ Free(c) /\ Sure
  /\ withdrawals[wid] = NoWithdrawal

MayRequest(c, wid, w, a) ==
  /\ Free(c) /\ Sure
  /\ withdrawals[wid] = NoWithdrawal
  /\ wallet[w] >= a

RequestWithdrawal(c, wid, w, a) ==
  /\ MayRequest(c, wid, w, a)
  /\ wallet' = Minus(w, a)
  /\ withdrawals' = [withdrawals EXCEPT ![wid] =
                       [state |-> "pending", wallet |-> w, amount |-> a]]
  /\ UNCHANGED deposits
  /\ Save
  /\ calls' = [calls EXCEPT ![c] = IF AutoPayout THEN [pc |-> "payout", wid |-> wid] ELSE Idle]
  /\ UNCHANGED <<doubt, torn, gateway>>

CrashInRequest(c, wid, w, a) ==
  /\ MayRequest(c, wid, w, a)
  /\ Gap("request", Minus(w, a), "lost", a)

\* The gateway's payout, one per withdrawal id: done and answered, done and
\* the answer lost, or refused.
Payout(c) ==
  /\ calls[c].pc = "payout"
  /\ \/ /\ sent' = sent \cup {<<calls[c].wid, "gateway">>}
        /\ calls' = [calls EXCEPT ![c].pc = "complete"]
     \/ sent' = sent \cup {<<calls[c].wid, "gateway">>} /\ Return(c)
     \/ sent' = sent /\ Return(c)
  /\ UNCHANGED <<ledger, cache, charges>>

\* The states complete_withdrawal and cancel_withdrawal leave.
MayClose(wid) == withdrawals[wid].state = "pending"

ToPaid(wid) ==
  /\ withdrawals' = State(wid, "paid")
  /\ UNCHANGED <<wallet, deposits>>
  /\ Save

\* complete_withdrawal after an automatic payout; a cancelled withdrawal
\* makes it raise, and the caller swallows that.
CompletePayout(c) ==
  /\ calls[c].pc = "complete"
  /\ IF Sure /\ MayClose(calls[c].wid)
     THEN ToPaid(calls[c].wid)
     ELSE UNCHANGED <<wallet, deposits, withdrawals, files>>
  /\ Return(c)
  /\ UNCHANGED <<doubt, torn, gateway>>

\* complete_withdrawal by an operator, who paid and has the reference.
CompleteByHand(wid) ==
  /\ Sure /\ MayClose(wid)
  /\ ToPaid(wid)
  /\ sent' = sent \cup {<<wid, "hand">>}
  /\ UNCHANGED <<doubt, torn, calls, cache, charges>>

Returned(wid) == Plus(withdrawals[wid].wallet, withdrawals[wid].amount)

\* cancel_withdrawal
CancelWithdrawal(wid) ==
  /\ MayClose(wid)
  /\ wallet' = Returned(wid)
  /\ withdrawals' = State(wid, "cancelled")
  /\ UNCHANGED deposits
  /\ Save
  /\ UNCHANGED <<doubt, torn, calls, gateway>>

CrashInCancel(wid) ==
  /\ MayClose(wid)
  /\ Gap("cancel", Returned(wid), "twice", withdrawals[wid].amount)

Restart ==
  /\ UNCHANGED <<files, torn>>
  /\ Boot

Next ==
  \/ \E c \in Callers : \E r \in Requests : Deposit(c, r)
  \/ \E c \in Callers :
       Accepted(c) \/ Declined(c) \/ Unanswered(c) \/ Credit(c) \/ CrashInCredit(c)
         \/ Payout(c) \/ CompletePayout(c)
  \/ \E c \in Callers, wid \in Wids, w \in Wallets, a \in Withdrawn :
       RequestWithdrawal(c, wid, w, a) \/ CrashInRequest(c, wid, w, a)
  \/ \E wid \in Wids :
       CompleteByHand(wid) \/ CancelWithdrawal(wid) \/ CrashInCancel(wid)
  \/ \E k \in Keys : Evict(k)
  \/ Restart

Spec == Init /\ [][Next]_vars

-----------------------------------------------------------------------------
(* Properties. *)

InState(states) == {wid \in Wids : withdrawals[wid].state \in states}
Amount(wid)     == IF withdrawals[wid].state = "none" THEN 0 ELSE withdrawals[wid].amount
DepositIds      == {t.id : t \in deposits}
DepositOf(i)    == CHOOSE t \in deposits : t.id = i
Credited        == SumOver([i \in DepositIds |-> DepositOf(i).req.amount], DepositIds)

\* Where the money is: in wallets, or in withdrawals not cancelled.
Placed  == SumOver(wallet, Wallets)
           + SumOver([wid \in Wids |-> Amount(wid)], InState({"pending", "paid"}))
\* Where it came from: what the wallets opened with, and deposits.
Brought == SumOver(Opening, Wallets) + Credited

\* The books balance: retries, threads, payouts, operators and restarts never
\* credit a charge twice nor lose a debit, except for exactly the amounts a
\* crash between the two files moved (Credit, RequestWithdrawal, Cancel).
BooksBalance == Placed + torn.lost = Brought + torn.twice

\* The header's promise, payment_flows.py:27 and :29: nothing is in two places
\* or in none, whatever restarts.
NothingTwiceNothingLost == Placed = Brought

\* A withdrawal is closed once: paid stays paid and cancelled stays cancelled,
\* across every call and restart.  And while the ledger's integrity is in doubt
\* nothing is paid out and no withdrawal opens, even with calls under way
\* (_refuse_if_integrity_doubt).
WithdrawalsMoveOn ==
  [][/\ \A wid \in InState({"paid", "cancelled"}) : withdrawals'[wid] = withdrawals[wid]
     /\ doubt => /\ sent' = sent
                 /\ \A wid \in Wids : withdrawals'[wid] # withdrawals[wid]
                                        => withdrawals'[wid].state = "cancelled"]_vars

\* Retries: a deposit asked for again with the key of a charge Stripe already
\* made is refused only if that charge once went unanswered, whatever other
\* threads, evictions and restarts do (the gateway's store and both guards).
RetriesAreCredited ==
  \A c \in Callers : calls[c].pc = "refused" /\ calls[c].again
                       => calls[c].req.key \in torn.unanswered
=============================================================================
