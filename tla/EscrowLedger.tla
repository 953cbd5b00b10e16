---------------------------- MODULE EscrowLedger ----------------------------
(***************************************************************************)
(* core/buyer_ledger.py: wallets, the entries behind them, and the escrow  *)
(* of each job.  Every method runs under one lock and ends with a snapshot *)
(* of the ledger's file, so each is one operator here, used by the actions *)
(* of JobsService.                                                         *)
(*                                                                         *)
(* Amounts are such that the commission on them is exact, so its           *)
(* quantization changes nothing.  The entries of a wallet are kept as what *)
(* verify_balances recomputes from them.                                   *)
(***************************************************************************)
EXTENDS Integers, FiniteSets, Sums

CONSTANTS
  Jobs,       \* job ids
  Wallets,    \* wallet ids, the treasury among them
  Treasury,   \* pluginfer-treasury
  Commission  \* the commission on an amount

ASSUME LedgerAssumption ==
  /\ IsFiniteSet(Jobs) /\ IsFiniteSet(Wallets)
  /\ Treasury \in Wallets

VARIABLES
  wallets,  \* available_usd and locked_usd of each wallet
  history,  \* the same, as the entries of the wallet add up
  escrows,  \* _escrows, as a total map
  saved     \* money_ledger.json

ledgerVars == <<wallets, history, escrows, saved>>

Balance  == [available : Nat, locked : Nat]
Books    == [available : Int, locked : Int]
NoShares == [w \in Wallets |-> 0]
NoEscrow == [state |-> "none", buyer |-> Treasury, amount |-> 0, paid |-> NoShares, fee |-> 0]
Escrow   == [state : {"none", "locked", "released", "refunded", "disputed_refunded"},
             buyer : Wallets, amount : Nat, paid : [Wallets -> Nat], fee : Nat]

LedgerTypeOK ==
  /\ wallets \in [Wallets -> Balance]
  /\ history \in [Wallets -> Books]
  /\ escrows \in [Jobs -> Escrow]
  /\ saved \in [wallets : [Wallets -> Balance], history : [Wallets -> Books],
                escrows : [Jobs -> Escrow]]

LedgerInit ==
  /\ wallets = [w \in Wallets |-> [available |-> 0, locked |-> 0]]
  /\ history = wallets
  /\ escrows = [j \in Jobs |-> NoEscrow]
  /\ saved = [wallets |-> wallets, history |-> history, escrows |-> escrows]

-----------------------------------------------------------------------------

\* What one entry of each kind does to a balance, in verify_balances; a debit
\* that names a job is called "settle" here.
Effect == [credit     |-> [available |-> 1,  locked |-> 0],
           debit      |-> [available |-> -1, locked |-> 0],
           lock       |-> [available |-> -1, locked |-> 1],
           settle     |-> [available |-> 0,  locked |-> -1],
           refund     |-> [available |-> 1,  locked |-> -1],
           release    |-> [available |-> 1,  locked |-> 0],
           commission |-> [available |-> 1,  locked |-> 0]]

\* The books b after an entry of this kind in every wallet, of amounts[w].
Apply(b, kind, amounts) ==
  [w \in Wallets |-> [available |-> b[w].available + Effect[kind].available * amounts[w],
                      locked    |-> b[w].locked + Effect[kind].locked * amounts[w]]]

Only(w, a) == [NoShares EXCEPT ![w] = a]

\* One entry, which moves the balance the way the audit will read it.
Book(kind, amounts) ==
  /\ wallets' = Apply(wallets, kind, amounts)
  /\ history' = Apply(history, kind, amounts)

\* A fault: nothing is written.
KeepFile == saved' = saved

\* _save
SaveLedger == saved' = [wallets |-> wallets', history |-> history', escrows |-> escrows']

Credit(w, a) ==
  /\ Book("credit", Only(w, a))
  /\ UNCHANGED escrows
  /\ SaveLedger

Debit(w, a) ==
  /\ wallets[w].available >= a
  /\ Book("debit", Only(w, a))
  /\ UNCHANGED escrows
  /\ SaveLedger

\* A fault: the balance is not asked for.
LocksAnyway(j, b, a) == TRUE

\* A job that has an escrow keeps it: lock_for_job returns the record.
CanLock(j, b, a) == escrows[j].state # "none" \/ wallets[b].available >= a

LockForJob(j, b, a) ==
  IF escrows[j].state # "none" THEN UNCHANGED ledgerVars
  ELSE /\ Book("lock", Only(b, a))
       /\ escrows' = [escrows EXCEPT ![j] = [NoEscrow EXCEPT !.state = "locked", !.buyer = b,
                                                             !.amount = a]]
       /\ SaveLedger

\* The state from which release, split and refund go on; from any other they
\* return the record or raise, and the caller swallows that.
Settleable(j) == escrows[j].state \in {"locked", "disputed_refunded"}

\* A fault: the shares nobody earned stay locked.
ReleaseEarned(j, shares) ==
  LET e    == escrows[j]
      net  == [w \in Wallets |-> shares[w] - Commission[shares[w]]]
      cut  == SumOver([w \in Wallets |-> Commission[shares[w]]], Wallets)
      S(b) == Apply(Apply(Apply(b, "settle", Only(e.buyer, SumOver(shares, Wallets))),
                          "release", net), "commission", Only(Treasury, cut))
  IN  /\ wallets' = S(wallets)
      /\ history' = S(history)
      /\ escrows' = [escrows EXCEPT ![j] = [@ EXCEPT !.state = "released", !.paid = net,
                                                      !.fee = cut]]
      /\ SaveLedger

\* release_to_provider and split_release_to_consortium: each provider's share
\* less the commission, the commissions to the treasury, the rest to the buyer.
Release(j, shares) ==
  LET e    == escrows[j]
      net  == [w \in Wallets |-> shares[w] - Commission[shares[w]]]
      cut  == SumOver([w \in Wallets |-> Commission[shares[w]]], Wallets)
      paid == SumOver(shares, Wallets)
      S(b) == Apply(Apply(Apply(Apply(b, "settle", Only(e.buyer, paid)),
                                "refund", Only(e.buyer, e.amount - paid)),
                          "release", net), "commission", Only(Treasury, cut))
  IN  /\ wallets' = S(wallets)
      /\ history' = S(history)
      /\ escrows' = [escrows EXCEPT ![j] = [@ EXCEPT !.state = "released", !.paid = net,
                                                      !.fee = cut]]
      /\ SaveLedger

RefundToBuyer(j) ==
  /\ Book("refund", Only(escrows[j].buyer, escrows[j].amount))
  /\ escrows' = [escrows EXCEPT ![j].state = "refunded"]
  /\ SaveLedger

-----------------------------------------------------------------------------
(* Properties of the ledger. *)

\* What a wallet has locked is what its open escrows hold, so no escrow is
\* paid from another's lock (lock_for_job against release, split and refund).
LockedIsBacked ==
  \A w \in Wallets :
    wallets[w].locked = SumOver([j \in Jobs |-> escrows[j].amount],
                                {j \in Jobs : escrows[j].state = "locked" /\ escrows[j].buyer = w})

\* verify_balances: every balance is what the entries of its wallet add up to.
BalancesVerify == history = wallets

\* Locks are backed, and the audit holds for every ledger no dispute has gone
\* through: the entries that lock, settle and refund are read for what they did.
LedgerAddsUp ==
  /\ LockedIsBacked
  /\ (\A j \in Jobs : escrows[j].state # "disputed_refunded") => BalancesVerify
=============================================================================
