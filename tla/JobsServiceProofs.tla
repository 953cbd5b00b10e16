-------------------------- MODULE JobsServiceProofs --------------------------
(***************************************************************************)
(* Proofs about JobsService and the EscrowLedger under it, for any jobs,   *)
(* wallets, bids and commissions: its types, that the ledger adds up, that *)
(* payment and charge go together, that every lock has an owner and every  *)
(* delivery is paid, and that the escrow keeps its contract.               *)
(*                                                                         *)
(* The argument has three layers.  A ledger is sound when its locks are    *)
(* backed and it holds no more than the bound on money: every method keeps *)
(* that, of the ledger in memory and of the one on file.  The two differ   *)
(* only by disputes.  And what a job's coroutine is doing fixes the state  *)
(* of its escrow and of its budget hold.                                   *)
(***************************************************************************)
EXTENDS JobsService, SumLemmas

-----------------------------------------------------------------------------
(* The inductive invariant. *)

Available(ws) == SumOver([w \in Wallets |-> ws[w].available], Wallets)
Locked(ws)    == SumOver([w \in Wallets |-> ws[w].locked], Wallets)

\* What the escrows hold of the money of wallet w.
HeldOf(es, w) == [j \in Jobs |-> IF es[j].state = "locked" /\ es[j].buyer = w
                                 THEN es[j].amount ELSE 0]

Undisputed(es) == \A j \in Jobs : es[j].state # "disputed_refunded"

SoundLedger(ws, hs, es) ==
  /\ ws \in [Wallets -> Balance] /\ hs \in [Wallets -> Books] /\ es \in [Jobs -> Escrow]
  /\ \A w \in Wallets : ws[w].locked = SumOver(HeldOf(es, w), Jobs)
  /\ Undisputed(es) => hs = ws
  /\ Available(ws) + Locked(ws) <= MaxFunds
  /\ \A j \in Jobs : es[j].state = "locked" => es[j].amount > 0

\* The file is behind memory by disputes only, which move money between wallets.
FileBehind ==
  /\ \A j \in Jobs :
       \/ saved.escrows[j] = escrows[j]
       \/ saved.escrows[j].state = "released" /\ escrows[j].state = "disputed_refunded"
  /\ Available(saved.wallets) = Available(wallets)
  /\ Undisputed(escrows) => saved.wallets = wallets

LedgerInv ==
  /\ SoundLedger(wallets, history, escrows)
  /\ saved \in [wallets : [Wallets -> Balance], history : [Wallets -> Books],
                escrows : [Jobs -> Escrow]]
  /\ SoundLedger(saved.wallets, saved.history, saved.escrows)
  /\ FileBehind

\* Locks have an owner and deliveries are paid, of a job jb, its state st in the
\* store and its escrow es: so long as no lock is below the bids it is split
\* between.
JobPaid(jb, st, es) ==
  /\ es.state = "locked" =>
       \/ jb.pc \in {"spawned", "executing"} \/ jb.buyer = NoBuyer
       \/ jb.kind = "consortium" /\ jb.state = "failed"
  /\ st \in Delivered => es.state \in {"none", "released"}
  /\ jb.kind = "consortium" /\ jb.pc \in {"spawned", "executing"} /\ jb.buyer # NoBuyer =>
       SumOver(Bid, jb.members) <= es.amount

\* What a job's coroutine is doing fixes its escrow es and its budget hold bg.
JobOK(jb, st, es, bg) ==
  /\ jb.pc = "auction" => es.state = "none"
  /\ jb.pc \in {"spawned", "executing"} =>
       es.state = (IF jb.buyer = NoBuyer THEN "none" ELSE "locked")
  /\ jb.pc # "none" =>
       /\ st = jb.state /\ bg \in {"held", "gone"}
       /\ jb.state \notin Delivered \cup {"none", "failed", "paused_funding"}
  /\ jb.state = "paused_funding" =>
       /\ jb.kind = "single" /\ jb.buyer # NoBuyer /\ es.state = "none"
       /\ bg \in {"held", "gone"} /\ st = "paused_funding"
  /\ st = "none" => es.state = "none"
  /\ es.state \in {"released", "disputed_refunded"} => bg \in {"charged", "gone"}
  /\ Rounding \subseteq Nat => JobPaid(jb, st, es)

JobType == [state : JobState, pc : {"none", "auction", "spawned", "executing"},
            kind : {"single", "consortium"}, buyer : Wallets \cup {NoBuyer},
            members : SUBSET Providers]

Hold == {"none", "held", "charged", "released", "gone"}

JobsInv ==
  /\ job \in [Jobs -> JobType] /\ stored \in [Jobs -> JobState]
  /\ budget \in [Jobs -> Hold]
  /\ \A j \in Jobs : JobOK(job[j], stored[j], escrows[j], budget[j])

IInv == LedgerInv /\ JobsInv

-----------------------------------------------------------------------------
(* The ledger: what one entry does, and what keeps a ledger sound. *)

LEMMA Finite == IsFiniteSet(Wallets) /\ IsFiniteSet(Jobs) /\ Treasury \in Wallets
BY LedgerAssumption

LEMMA Balanced ==
  \A x, y, z, a, b \in Nat : x + a = z + b /\ y + a = z + b => x = y
OBVIOUS

\* What an entry of each kind does to the balance of a wallet.
LEMMA Entries ==
  ASSUME NEW b \in [Wallets -> Books], NEW amounts \in [Wallets -> Nat], NEW w \in Wallets
  PROVE  /\ Apply(b, "credit", amounts)[w].available = b[w].available + amounts[w]
         /\ Apply(b, "credit", amounts)[w].locked = b[w].locked
         /\ Apply(b, "debit", amounts)[w].available = b[w].available - amounts[w]
         /\ Apply(b, "debit", amounts)[w].locked = b[w].locked
         /\ Apply(b, "lock", amounts)[w].available = b[w].available - amounts[w]
         /\ Apply(b, "lock", amounts)[w].locked = b[w].locked + amounts[w]
         /\ Apply(b, "settle", amounts)[w].available = b[w].available
         /\ Apply(b, "settle", amounts)[w].locked = b[w].locked - amounts[w]
         /\ Apply(b, "refund", amounts)[w].available = b[w].available + amounts[w]
         /\ Apply(b, "refund", amounts)[w].locked = b[w].locked - amounts[w]
         /\ Apply(b, "release", amounts)[w].available = b[w].available + amounts[w]
         /\ Apply(b, "release", amounts)[w].locked = b[w].locked
         /\ Apply(b, "commission", amounts)[w].available = b[w].available + amounts[w]
         /\ Apply(b, "commission", amounts)[w].locked = b[w].locked
<1>1. \A kind : /\ Apply(b, kind, amounts)[w].available
                     = b[w].available + Effect[kind].available * amounts[w]
                /\ Apply(b, kind, amounts)[w].locked
                     = b[w].locked + Effect[kind].locked * amounts[w]
  BY DEF Apply
<1>2. /\ \A kind \in {"credit", "refund", "release", "commission"} : Effect[kind].available = 1
      /\ \A kind \in {"debit", "lock"} : Effect[kind].available = -1
      /\ Effect["settle"].available = 0
      /\ \A kind \in {"credit", "debit", "release", "commission"} : Effect[kind].locked = 0
      /\ \A kind \in {"settle", "refund"} : Effect[kind].locked = -1
      /\ Effect["lock"].locked = 1
  BY DEF Effect
<1>3. \A x, a \in Int : /\ x + 1 * a = x + a /\ x + (-1) * a = x - a /\ x + 0 * a = x
  OBVIOUS
<1>4. b[w].available \in Int /\ b[w].locked \in Int /\ amounts[w] \in Int
  BY DEF Books
<1> HIDE DEF Effect
<1>5. /\ \A kind \in {"credit", "refund", "release", "commission"} :
           Apply(b, kind, amounts)[w].available = b[w].available + amounts[w]
      /\ \A kind \in {"debit", "lock"} :
           Apply(b, kind, amounts)[w].available = b[w].available - amounts[w]
      /\ Apply(b, "settle", amounts)[w].available = b[w].available
  BY <1>1, <1>2, <1>3, <1>4
<1>6. /\ \A kind \in {"credit", "debit", "release", "commission"} :
           Apply(b, kind, amounts)[w].locked = b[w].locked
      /\ \A kind \in {"settle", "refund"} :
           Apply(b, kind, amounts)[w].locked = b[w].locked - amounts[w]
      /\ Apply(b, "lock", amounts)[w].locked = b[w].locked + amounts[w]
  BY <1>1, <1>2, <1>3, <1>4
<1> QED
  BY <1>5, <1>6

LEMMA EntryType ==
  ASSUME NEW b \in [Wallets -> Books], NEW amounts \in [Wallets -> Nat],
         NEW kind \in {"credit", "debit", "lock", "settle", "refund", "release", "commission"}
  PROVE  Apply(b, kind, amounts) \in [Wallets -> Books]
<1>1. Effect[kind].available \in Int /\ Effect[kind].locked \in Int
  BY DEF Effect
<1>2. \A x, e, a \in Int : x + e * a \in Int
  OBVIOUS
<1>3. \A w \in Wallets : b[w].available \in Int /\ b[w].locked \in Int /\ amounts[w] \in Int
  BY DEF Books
<1> QED
  BY <1>1, <1>2, <1>3 DEF Apply, Books

\* One wallet's amount.
LEMMA OnlyAt ==
  ASSUME NEW b \in Wallets, NEW a \in Nat
  PROVE  /\ Only(b, a) \in [Wallets -> Nat]
         /\ \A w \in Wallets : Only(b, a)[w] = IF w = b THEN a ELSE 0
         /\ SumOver(Only(b, a), Wallets) = a
<1>1. Only(b, a) \in [Wallets -> Nat] /\ \A w \in Wallets : Only(b, a)[w] = IF w = b THEN a ELSE 0
  BY DEF Only, NoShares
<1> QED
  BY <1>1, SumSingle

\* What is available and what is locked are naturals, and no wallet has more
\* than all have.
LEMMA LedgerSums ==
  ASSUME NEW ws \in [Wallets -> Balance]
  PROVE  /\ Available(ws) \in Nat /\ Locked(ws) \in Nat
         /\ \A w \in Wallets : ws[w].available <= Available(ws) /\ ws[w].locked <= Locked(ws)
<1> DEFINE f == [w \in Wallets |-> ws[w].available]
           g == [w \in Wallets |-> ws[w].locked]
<1>1. \A w \in Wallets : f[w] \in Nat /\ g[w] \in Nat
  BY DEF Balance
<1>2. SumOver(f, Wallets) \in Nat /\ SumOver(g, Wallets) \in Nat
  <2> HIDE DEF f, g
  <2> QED
    BY <1>1, Finite, SumNat
<1>3. \A w \in Wallets : f[w] <= SumOver(f, Wallets) /\ g[w] <= SumOver(g, Wallets)
  <2> HIDE DEF f, g
  <2> QED
    BY <1>1, Finite, SumBounds
<1> QED
  BY <1>2, <1>3 DEF Available, Locked

LEMMA HeldType ==
  ASSUME NEW es \in [Jobs -> Escrow], NEW w
  PROVE  \A j \in Jobs : HeldOf(es, w)[j] \in Nat
BY DEF HeldOf, Escrow

\* A lock is among what its buyer has locked.
LEMMA LockBacked ==
  ASSUME NEW ws, NEW hs, NEW es, SoundLedger(ws, hs, es), NEW j \in Jobs,
         es[j].state = "locked"
  PROVE  /\ es[j].amount \in Nat /\ es[j].amount > 0 /\ es[j].amount <= MaxFunds
         /\ es[j].buyer \in Wallets /\ ws[es[j].buyer].locked >= es[j].amount
<1> DEFINE b == es[j].buyer
<1>1. es[j] \in Escrow /\ es \in [Jobs -> Escrow] /\ ws \in [Wallets -> Balance]
  BY DEF SoundLedger
<1>2. b \in Wallets /\ es[j].amount \in Nat
  BY <1>1 DEF Escrow
<1>3. HeldOf(es, b)[j] = es[j].amount
  BY DEF HeldOf
<1>4. HeldOf(es, b)[j] <= SumOver(HeldOf(es, b), Jobs)
  BY <1>1, HeldType, Finite, SumBounds
<1>5. ws[b].locked = SumOver(HeldOf(es, b), Jobs)
  BY <1>2 DEF SoundLedger
<1>6. ws[b].locked <= Locked(ws) /\ Available(ws) \in Nat /\ Locked(ws) \in Nat
  BY <1>1, <1>2, LedgerSums
<1>7. ws[b].locked \in Nat /\ MaxFunds \in Nat
  BY <1>1, <1>2, ServiceAssumption DEF Balance
<1>8. Available(ws) + Locked(ws) <= MaxFunds /\ es[j].amount > 0
  BY DEF SoundLedger
<1> HIDE DEF b
<1>9. ws[b].locked >= es[j].amount
  BY <1>2, <1>3, <1>4, <1>5, <1>7
<1>10. es[j].amount <= MaxFunds
  BY <1>2, <1>6, <1>7, <1>8, <1>9
<1> QED
  BY <1>2, <1>8, <1>9, <1>10 DEF b

\* A ledger stays sound when what a wallet has locked moves with the one
\* escrow that changes, and the total stays within the bound.
LEMMA SoundMove ==
  ASSUME NEW ws, NEW hs, NEW es, SoundLedger(ws, hs, es),
         NEW vs \in [Wallets -> Balance], NEW gs \in [Wallets -> Books],
         NEW fs \in [Jobs -> Escrow], NEW j \in Jobs,
         \A i \in Jobs \ {j} : fs[i] = es[i],
         \A w \in Wallets : vs[w].locked + HeldOf(es, w)[j] = ws[w].locked + HeldOf(fs, w)[j],
         Undisputed(fs) => gs = vs,
         Available(vs) + Locked(vs) <= MaxFunds,
         fs[j].state = "locked" => fs[j].amount > 0
  PROVE  SoundLedger(vs, gs, fs)
<1>1. ASSUME NEW w \in Wallets PROVE vs[w].locked = SumOver(HeldOf(fs, w), Jobs)
  <2> DEFINE f == HeldOf(es, w)
             g == HeldOf(fs, w)
  <2>1. \A i \in Jobs : f[i] \in Nat /\ g[i] \in Nat
    BY HeldType DEF SoundLedger
  <2>2. \A i \in Jobs \ {j} : f[i] = g[i]
    BY DEF HeldOf
  <2>3. ws[w].locked = SumOver(f, Jobs) /\ vs[w].locked + f[j] = ws[w].locked + g[j]
    BY DEF SoundLedger
  <2>4. ws[w].locked \in Nat /\ vs[w].locked \in Nat
    BY DEF SoundLedger, Balance
  <2> HIDE DEF f, g
  <2>5. SumOver(g, Jobs) + f[j] = SumOver(f, Jobs) + g[j]
    BY <2>1, <2>2, Finite, SumPut
  <2>6. SumOver(f, Jobs) \in Nat /\ SumOver(g, Jobs) \in Nat /\ f[j] \in Nat /\ g[j] \in Nat
    BY <2>1, Finite, SumNat
  <2>7. vs[w].locked = SumOver(g, Jobs)
    BY <2>3, <2>4, <2>5, <2>6, Balanced
  <2> QED
    BY <2>7 DEF g
<1>2. \A i \in Jobs : fs[i].state = "locked" => fs[i].amount > 0
  BY DEF SoundLedger
<1>3. Undisputed(fs) => gs = vs
  OBVIOUS
<1>4. Available(vs) + Locked(vs) <= MaxFunds
  OBVIOUS
<1> QED
  BY <1>1, <1>2, <1>3, <1>4, Zenon DEF SoundLedger

LEMMA AvailableMoves ==
  ASSUME NEW ws \in [Wallets -> Balance], NEW vs \in [Wallets -> Balance], NEW b \in Wallets,
         \A w \in Wallets \ {b} : vs[w].available = ws[w].available
  PROVE  Available(vs) + ws[b].available = Available(ws) + vs[b].available
<1> DEFINE f == [w \in Wallets |-> ws[w].available]
           g == [w \in Wallets |-> vs[w].available]
<1>1. \A w \in Wallets : f[w] \in Nat /\ g[w] \in Nat
  BY DEF Balance
<1>2. \A w \in Wallets \ {b} : f[w] = g[w]
  OBVIOUS
<1>3. f[b] = ws[b].available /\ g[b] = vs[b].available
  OBVIOUS
<1> HIDE DEF f, g
<1>4. SumOver(g, Wallets) + f[b] = SumOver(f, Wallets) + g[b]
  BY <1>1, <1>2, Finite, SumPut
<1> QED
  BY <1>3, <1>4 DEF Available, f, g

LEMMA LockedMoves ==
  ASSUME NEW ws \in [Wallets -> Balance], NEW vs \in [Wallets -> Balance], NEW b \in Wallets,
         \A w \in Wallets \ {b} : vs[w].locked = ws[w].locked
  PROVE  Locked(vs) + ws[b].locked = Locked(ws) + vs[b].locked
<1> DEFINE f == [w \in Wallets |-> ws[w].locked]
           g == [w \in Wallets |-> vs[w].locked]
<1>1. \A w \in Wallets : f[w] \in Nat /\ g[w] \in Nat
  BY DEF Balance
<1>2. \A w \in Wallets \ {b} : f[w] = g[w]
  OBVIOUS
<1>3. f[b] = ws[b].locked /\ g[b] = vs[b].locked
  OBVIOUS
<1> HIDE DEF f, g
<1>4. SumOver(g, Wallets) + f[b] = SumOver(f, Wallets) + g[b]
  BY <1>1, <1>2, Finite, SumPut
<1> QED
  BY <1>3, <1>4 DEF Locked, f, g

LEMMA LockedSame ==
  ASSUME NEW ws, NEW vs, \A w \in Wallets : vs[w].locked = ws[w].locked
  PROVE  Locked(vs) = Locked(ws)
BY DEF Locked

LEMMA AvailableSame ==
  ASSUME NEW ws, NEW vs, \A w \in Wallets : vs[w].available = ws[w].available
  PROVE  Available(vs) = Available(ws)
BY DEF Available

\* A ledger stays sound when neither its escrows nor its locks change.
LEMMA SoundCash ==
  ASSUME NEW ws, NEW hs, NEW es, SoundLedger(ws, hs, es),
         NEW vs \in [Wallets -> Balance], NEW gs \in [Wallets -> Books],
         \A w \in Wallets : vs[w].locked = ws[w].locked,
         Undisputed(es) => gs = vs,
         Available(vs) + Locked(vs) <= MaxFunds
  PROVE  SoundLedger(vs, gs, es)
BY Zenon DEF SoundLedger

\* The books after an entry are those of a wallet when they stay natural.
LEMMA EntryBalance ==
  ASSUME NEW b, NEW kind, NEW amounts,
         \A w \in Wallets : /\ Apply(b, kind, amounts)[w].available \in Nat
                            /\ Apply(b, kind, amounts)[w].locked \in Nat
  PROVE  Apply(b, kind, amounts) \in [Wallets -> Balance]
BY DEF Apply, Balance

\* A method that saves leaves nothing in memory only.
LEMMA SavedInv ==
  ASSUME SoundLedger(wallets', history', escrows'), SaveLedger
  PROVE  LedgerInv'
<1>1. /\ saved'.wallets = wallets' /\ saved'.history = history' /\ saved'.escrows = escrows'
      /\ saved' = [wallets |-> wallets', history |-> history', escrows |-> escrows']
  BY DEF SaveLedger
<1>2. /\ wallets' \in [Wallets -> Balance] /\ history' \in [Wallets -> Books]
      /\ escrows' \in [Jobs -> Escrow]
  BY DEF SoundLedger
<1>3. FileBehind'
  BY <1>1, Zenon DEF FileBehind
<1>4. saved' \in [wallets : [Wallets -> Balance], history : [Wallets -> Books],
                  escrows : [Jobs -> Escrow]]
  BY <1>1, <1>2
<1> QED
  BY <1>1, <1>3, <1>4, Zenon DEF LedgerInv

LEMMA BalanceFields ==
  ASSUME NEW ws, NEW hs, NEW es, SoundLedger(ws, hs, es)
  PROVE  /\ ws \in [Wallets -> Balance] /\ hs \in [Wallets -> Books] /\ es \in [Jobs -> Escrow]
         /\ \A w \in Wallets : /\ ws[w].available \in Nat /\ ws[w].locked \in Nat
                               /\ hs[w].available \in Int /\ hs[w].locked \in Int
         /\ \A j \in Jobs : /\ es[j] \in Escrow /\ es[j].buyer \in Wallets /\ es[j].amount \in Nat
                            /\ es[j].paid \in [Wallets -> Nat] /\ es[j].fee \in Nat
BY DEF SoundLedger, Balance, Books, Escrow

LEMMA CreditSound ==
  ASSUME LedgerInv, NEW w \in Wallets, NEW a \in Nat, Credit(w, a),
         Available(wallets) + Locked(wallets) + a <= MaxFunds
  PROVE  /\ LedgerInv' /\ escrows' = escrows
         /\ wallets' \in [Wallets -> Balance]
         /\ \A v \in Wallets : wallets'[v].available
                                 = IF v = w THEN wallets[v].available + a ELSE wallets[v].available
<1>1. SoundLedger(wallets, history, escrows)
  BY DEF LedgerInv
<1>2. /\ wallets' = Apply(wallets, "credit", Only(w, a))
      /\ history' = Apply(history, "credit", Only(w, a))
      /\ escrows' = escrows /\ SaveLedger
  BY DEF Credit, Book
<1>3. \A v \in Wallets :
        /\ wallets'[v].available = wallets[v].available + Only(w, a)[v]
        /\ wallets'[v].locked = wallets[v].locked
  <2> SUFFICES ASSUME NEW v \in Wallets
               PROVE  /\ wallets'[v].available = wallets[v].available + Only(w, a)[v]
                      /\ wallets'[v].locked = wallets[v].locked
    OBVIOUS
  <2>1. wallets \in [Wallets -> Books] /\ Only(w, a) \in [Wallets -> Nat]
    BY <1>1, BalanceFields, OnlyAt, SMTT(60) DEF Balance, Books
  <2> QED
    BY <1>2, <2>1, Entries
<1>4. \A v \in Wallets :
        /\ wallets'[v].available = IF v = w THEN wallets[v].available + a ELSE wallets[v].available
        /\ wallets'[v].locked = wallets[v].locked
        /\ wallets'[v].available \in Nat /\ wallets'[v].locked \in Nat
  BY <1>1, <1>3, BalanceFields, OnlyAt
<1>5. wallets' \in [Wallets -> Balance]
  BY <1>2, <1>4, EntryBalance
<1>6. history' \in [Wallets -> Books]
  BY <1>1, <1>2, BalanceFields, EntryType, OnlyAt
<1>7. Available(wallets') + Locked(wallets') <= MaxFunds
  <2>1. Available(wallets') + wallets[w].available = Available(wallets) + wallets'[w].available
    BY <1>1, <1>4, <1>5, AvailableMoves, BalanceFields
  <2>2. Locked(wallets') = Locked(wallets)
    BY <1>4, LockedSame
  <2>3. /\ Available(wallets') \in Nat /\ Available(wallets) \in Nat /\ Locked(wallets) \in Nat
        /\ wallets[w].available \in Nat /\ wallets'[w].available = wallets[w].available + a
    BY <1>1, <1>4, <1>5, LedgerSums, BalanceFields
  <2>4. Available(wallets') = Available(wallets) + a
    BY <2>1, <2>3
  <2>5. MaxFunds \in Nat
    BY ServiceAssumption
  <2> QED
    BY <2>2, <2>3, <2>4, <2>5
<1>8. Undisputed(escrows) => history' = wallets'
  BY <1>1, <1>2 DEF SoundLedger
<1>9. SoundLedger(wallets', history', escrows)
  BY <1>1, <1>4, <1>5, <1>6, <1>7, <1>8, SoundCash
<1> QED
  BY <1>2, <1>4, <1>5, <1>9, SavedInv

LEMMA DebitSound ==
  ASSUME LedgerInv, NEW w \in Wallets, NEW a \in Nat, Debit(w, a)
  PROVE  /\ LedgerInv' /\ escrows' = escrows
         /\ wallets' \in [Wallets -> Balance] /\ wallets[w].available >= a
         /\ \A v \in Wallets : wallets'[v].available
                                 = IF v = w THEN wallets[v].available - a ELSE wallets[v].available
<1>1. SoundLedger(wallets, history, escrows)
  BY DEF LedgerInv
<1>2. /\ wallets' = Apply(wallets, "debit", Only(w, a))
      /\ history' = Apply(history, "debit", Only(w, a))
      /\ escrows' = escrows /\ SaveLedger /\ wallets[w].available >= a
  BY DEF Debit, Book
<1>3. \A v \in Wallets :
        /\ wallets'[v].available = wallets[v].available - Only(w, a)[v]
        /\ wallets'[v].locked = wallets[v].locked
  <2> SUFFICES ASSUME NEW v \in Wallets
               PROVE  /\ wallets'[v].available = wallets[v].available - Only(w, a)[v]
                      /\ wallets'[v].locked = wallets[v].locked
    OBVIOUS
  <2>1. wallets \in [Wallets -> Books] /\ Only(w, a) \in [Wallets -> Nat]
    BY <1>1, BalanceFields, OnlyAt DEF Balance, Books
  <2> QED
    BY <1>2, <2>1, Entries
<1>4. \A v \in Wallets :
        /\ wallets'[v].available = IF v = w THEN wallets[v].available - a ELSE wallets[v].available
        /\ wallets'[v].locked = wallets[v].locked
        /\ wallets'[v].available \in Nat /\ wallets'[v].locked \in Nat
  BY <1>1, <1>2, <1>3, BalanceFields, OnlyAt
<1>5. wallets' \in [Wallets -> Balance]
  BY <1>2, <1>4, EntryBalance
<1>6. history' \in [Wallets -> Books]
  BY <1>1, <1>2, BalanceFields, EntryType, OnlyAt
<1>7. Available(wallets') + Locked(wallets') <= MaxFunds
  <2>1. Available(wallets') + wallets[w].available = Available(wallets) + wallets'[w].available
    BY <1>1, <1>4, <1>5, AvailableMoves, BalanceFields
  <2>2. Locked(wallets') = Locked(wallets)
    BY <1>4, LockedSame
  <2>3. /\ Available(wallets') \in Nat /\ Available(wallets) \in Nat /\ Locked(wallets) \in Nat
        /\ wallets[w].available \in Nat /\ wallets'[w].available = wallets[w].available - a
    BY <1>1, <1>4, <1>5, LedgerSums, BalanceFields
  <2>4. Available(wallets') <= Available(wallets)
    BY <2>1, <2>3
  <2>5. MaxFunds \in Nat /\ Available(wallets) + Locked(wallets) <= MaxFunds
    BY <1>1, ServiceAssumption DEF SoundLedger
  <2> QED
    BY <2>2, <2>3, <2>4, <2>5
<1>8. Undisputed(escrows) => history' = wallets'
  BY <1>1, <1>2 DEF SoundLedger
<1>9. SoundLedger(wallets', history', escrows)
  BY <1>1, <1>4, <1>5, <1>6, <1>7, <1>8, SoundCash
<1> QED
  BY <1>2, <1>4, <1>5, <1>9, SavedInv

LEMMA BooksOfBalance ==
  ASSUME NEW ws \in [Wallets -> Balance]
  PROVE  ws \in [Wallets -> Books]
BY DEF Balance, Books

\* What b may spend falls by the amount a that the escrow of j now holds.
LockedFor(j, b, a) ==
  /\ LedgerInv' /\ escrows' \in [Jobs -> Escrow]
  /\ escrows'[j].state = "locked" /\ escrows'[j].amount = a
  /\ \A i \in Jobs \ {j} : escrows'[i] = escrows[i]
  /\ wallets' \in [Wallets -> Balance]
  /\ \A v \in Wallets : wallets'[v].available
                          = IF v = b THEN wallets[v].available - a ELSE wallets[v].available

\* A job without an escrow locks the price.
LEMMA LockSound ==
  ASSUME LedgerInv, NEW j \in Jobs, NEW b \in Wallets, NEW a \in Nat, a > 0,
         escrows[j].state = "none", CanLock(j, b, a), LockForJob(j, b, a)
  PROVE  LockedFor(j, b, a)
<1> DEFINE e == [NoEscrow EXCEPT !.state = "locked", !.buyer = b, !.amount = a]
<1>1. SoundLedger(wallets, history, escrows)
  BY DEF LedgerInv
<1>2. /\ wallets' = Apply(wallets, "lock", Only(b, a))
      /\ history' = Apply(history, "lock", Only(b, a))
      /\ escrows' = [escrows EXCEPT ![j] = e] /\ SaveLedger /\ wallets[b].available >= a
  BY DEF LockForJob, Book, CanLock
<1>3. e \in Escrow /\ e.state = "locked" /\ e.buyer = b /\ e.amount = a
  BY Finite DEF Escrow, NoEscrow, NoShares
<1> HIDE DEF e
<1>4. /\ escrows' \in [Jobs -> Escrow] /\ escrows'[j] = e
      /\ \A i \in Jobs \ {j} : escrows'[i] = escrows[i]
  BY <1>1, <1>2, <1>3, BalanceFields
<1>5. \A v \in Wallets :
        /\ wallets'[v].available = wallets[v].available - Only(b, a)[v]
        /\ wallets'[v].locked = wallets[v].locked + Only(b, a)[v]
  <2> SUFFICES ASSUME NEW v \in Wallets
               PROVE  /\ wallets'[v].available = wallets[v].available - Only(b, a)[v]
                      /\ wallets'[v].locked = wallets[v].locked + Only(b, a)[v]
    OBVIOUS
  <2>1. wallets \in [Wallets -> Books] /\ Only(b, a) \in [Wallets -> Nat]
    BY <1>1, BalanceFields, BooksOfBalance, OnlyAt
  <2> QED
    BY <1>2, <2>1, Entries
<1>6. \A v \in Wallets :
        /\ wallets'[v].available = IF v = b THEN wallets[v].available - a ELSE wallets[v].available
        /\ wallets'[v].locked = IF v = b THEN wallets[v].locked + a ELSE wallets[v].locked
        /\ wallets'[v].available \in Nat /\ wallets'[v].locked \in Nat
  BY <1>1, <1>2, <1>5, BalanceFields, OnlyAt, SMTT(60)
<1>7. wallets' \in [Wallets -> Balance]
  BY <1>2, <1>6, EntryBalance
<1>8. history' \in [Wallets -> Books]
  BY <1>1, <1>2, BalanceFields, EntryType, OnlyAt
<1>9. Available(wallets') + Locked(wallets') <= MaxFunds
  <2>1. Available(wallets') + wallets[b].available = Available(wallets) + wallets'[b].available
    BY <1>1, <1>6, <1>7, AvailableMoves, BalanceFields
  <2>2. Locked(wallets') + wallets[b].locked = Locked(wallets) + wallets'[b].locked
    BY <1>1, <1>6, <1>7, LockedMoves, BalanceFields
  <2>3. /\ Available(wallets') \in Nat /\ Available(wallets) \in Nat
        /\ Locked(wallets') \in Nat /\ Locked(wallets) \in Nat
    BY <1>1, <1>7, LedgerSums, BalanceFields
  <2>4. /\ wallets[b].available \in Nat /\ wallets'[b].available = wallets[b].available - a
        /\ wallets[b].locked \in Nat /\ wallets'[b].locked = wallets[b].locked + a
    BY <1>1, <1>6, BalanceFields
  <2>5. Available(wallets') = Available(wallets) - a /\ Locked(wallets') = Locked(wallets) + a
    BY <2>1, <2>2, <2>3, <2>4
  <2>6. MaxFunds \in Nat /\ Available(wallets) + Locked(wallets) <= MaxFunds
    BY <1>1, ServiceAssumption DEF SoundLedger
  <2> QED
    BY <2>3, <2>5, <2>6
<1>10. Undisputed(escrows') => history' = wallets'
  <2>1. Undisputed(escrows') => Undisputed(escrows)
    BY <1>4 DEF Undisputed
  <2> QED
    BY <1>1, <1>2, <2>1 DEF SoundLedger
<1>11. \A v \in Wallets :
         wallets'[v].locked + HeldOf(escrows, v)[j] = wallets[v].locked + HeldOf(escrows', v)[j]
  <2> SUFFICES ASSUME NEW v \in Wallets
               PROVE  wallets'[v].locked + HeldOf(escrows, v)[j]
                        = wallets[v].locked + HeldOf(escrows', v)[j]
    OBVIOUS
  <2>1. HeldOf(escrows, v)[j] = 0 /\ HeldOf(escrows', v)[j] = IF v = b THEN a ELSE 0
    BY <1>3, <1>4 DEF HeldOf
  <2> QED
    BY <1>1, <1>6, <2>1, BalanceFields
<1>12. SoundLedger(wallets', history', escrows')
  BY <1>1, <1>3, <1>4, <1>7, <1>8, <1>9, <1>10, <1>11, SoundMove
<1> QED
  BY <1>2, <1>3, <1>4, <1>6, <1>7, <1>12, SavedInv DEF LockedFor

\* A lock is paid out: its buyer's lock and the total in locks fall by its
\* amount, and what the wallets may spend grows by it.
PaidOut(j) ==
  /\ LedgerInv' /\ escrows' \in [Jobs -> Escrow]
  /\ \A i \in Jobs \ {j} : escrows'[i] = escrows[i]
  /\ wallets' \in [Wallets -> Balance]
  /\ \A v \in Wallets : wallets'[v].available >= wallets[v].available
  /\ Available(wallets') = Available(wallets) + escrows[j].amount

\* What is left to show of a payout when its balances are known.
LEMMA PayOutSound ==
  ASSUME LedgerInv, NEW j \in Jobs, escrows[j].state = "locked",
         escrows' \in [Jobs -> Escrow], \A i \in Jobs \ {j} : escrows'[i] = escrows[i],
         escrows'[j].state \in {"released", "refunded"},
         wallets' \in [Wallets -> Balance], history' \in [Wallets -> Books],
         history = wallets => history' = wallets',
         \A v \in Wallets : wallets'[v].available >= wallets[v].available,
         \A v \in Wallets :
           wallets'[v].locked = wallets[v].locked - Only(escrows[j].buyer, escrows[j].amount)[v],
         Available(wallets') = Available(wallets) + escrows[j].amount,
         SaveLedger
  PROVE  PaidOut(j)
<1> DEFINE b == escrows[j].buyer
           a == escrows[j].amount
<1>1. SoundLedger(wallets, history, escrows)
  BY DEF LedgerInv
<1>2. b \in Wallets /\ a \in Nat /\ wallets[b].locked >= a
  BY <1>1, LockBacked
<1>3. \A v \in Wallets : wallets'[v].locked = IF v = b THEN wallets[v].locked - a
                                              ELSE wallets[v].locked
  <2> SUFFICES ASSUME NEW v \in Wallets
               PROVE  wallets'[v].locked = IF v = b THEN wallets[v].locked - a
                                           ELSE wallets[v].locked
    OBVIOUS
  <2>1. wallets'[v].locked = wallets[v].locked - Only(b, a)[v]
    OBVIOUS
  <2>2. Only(b, a)[v] = IF v = b THEN a ELSE 0
    BY <1>2, OnlyAt
  <2>3. wallets[v].locked \in Nat
    BY <1>1, BalanceFields
  <2> HIDE DEF a, b
  <2> QED
    BY <1>2, <2>1, <2>2, <2>3
<1>4. Available(wallets') + Locked(wallets') <= MaxFunds
  <2>1. Locked(wallets') + wallets[b].locked = Locked(wallets) + wallets'[b].locked
    <3> HIDE DEF a, b
    <3>1. \A w \in Wallets \ {b} : wallets'[w].locked = wallets[w].locked
      BY <1>3
    <3>2. wallets \in [Wallets -> Balance] /\ wallets' \in [Wallets -> Balance]
      BY <1>1, BalanceFields
    <3> QED
      BY <1>2, <3>1, <3>2, LockedMoves
  <2>2. /\ Available(wallets) \in Nat /\ Locked(wallets') \in Nat /\ Locked(wallets) \in Nat
        /\ wallets[b].locked \in Nat /\ wallets'[b].locked = wallets[b].locked - a
    BY <1>1, <1>2, <1>3, LedgerSums, BalanceFields
  <2>3. Available(wallets') = Available(wallets) + a
    OBVIOUS
  <2>4. MaxFunds \in Nat /\ Available(wallets) + Locked(wallets) <= MaxFunds
    BY <1>1, ServiceAssumption DEF SoundLedger
  <2> HIDE DEF a, b
  <2>5. Locked(wallets') = Locked(wallets) - a
    BY <1>2, <2>1, <2>2, SMTT(60)
  <2> QED
    BY <1>2, <2>2, <2>3, <2>4, <2>5
<1>5. Undisputed(escrows') => history' = wallets'
  <2>1. Undisputed(escrows') => Undisputed(escrows)
    BY DEF Undisputed
  <2> QED
    BY <1>1, <2>1 DEF SoundLedger
<1>6. \A v \in Wallets :
        wallets'[v].locked + HeldOf(escrows, v)[j] = wallets[v].locked + HeldOf(escrows', v)[j]
  <2> SUFFICES ASSUME NEW v \in Wallets
               PROVE  wallets'[v].locked + HeldOf(escrows, v)[j]
                        = wallets[v].locked + HeldOf(escrows', v)[j]
    OBVIOUS
  <2>1. HeldOf(escrows', v)[j] = 0 /\ HeldOf(escrows, v)[j] = IF v = b THEN a ELSE 0
    BY DEF HeldOf
  <2>2. wallets[v].locked \in Nat /\ wallets'[v].locked = IF v = b THEN wallets[v].locked - a
                                                         ELSE wallets[v].locked
    BY <1>1, <1>3, BalanceFields
  <2> HIDE DEF a, b
  <2> QED
    BY <1>2, <2>1, <2>2
<1>7. escrows'[j].state # "locked"
  OBVIOUS
<1>8. SoundLedger(wallets', history', escrows')
  BY <1>1, <1>4, <1>5, <1>6, <1>7, SoundMove
<1> QED
  BY <1>8, SavedInv DEF PaidOut

LEMMA RefundSound ==
  ASSUME LedgerInv, NEW j \in Jobs, escrows[j].state = "locked", RefundToBuyer(j)
  PROVE  PaidOut(j) /\ escrows'[j].state = "refunded"
<1> DEFINE b == escrows[j].buyer
           a == escrows[j].amount
<1>1. SoundLedger(wallets, history, escrows)
  BY DEF LedgerInv
<1>2. b \in Wallets /\ a \in Nat /\ wallets[b].locked >= a
  BY <1>1, LockBacked
<1>3. /\ wallets' = Apply(wallets, "refund", Only(b, a))
      /\ history' = Apply(history, "refund", Only(b, a))
      /\ escrows' = [escrows EXCEPT ![j].state = "refunded"] /\ SaveLedger
  BY DEF RefundToBuyer, Book
<1>4. /\ escrows' \in [Jobs -> Escrow] /\ \A i \in Jobs \ {j} : escrows'[i] = escrows[i]
      /\ escrows'[j].state = "refunded"
  BY <1>1, <1>3, BalanceFields DEF Escrow
<1>a. escrows[j].buyer = b /\ escrows[j].amount = a
  OBVIOUS
<1> HIDE DEF a, b
<1>5. \A v \in Wallets :
        /\ wallets'[v].available = wallets[v].available + Only(b, a)[v]
        /\ wallets'[v].locked = wallets[v].locked - Only(b, a)[v]
  <2> SUFFICES ASSUME NEW v \in Wallets
               PROVE  /\ wallets'[v].available = wallets[v].available + Only(b, a)[v]
                      /\ wallets'[v].locked = wallets[v].locked - Only(b, a)[v]
    OBVIOUS
  <2>1. wallets \in [Wallets -> Books] /\ Only(b, a) \in [Wallets -> Nat]
    BY <1>1, <1>2, BalanceFields, BooksOfBalance, OnlyAt
  <2> QED
    BY <1>3, <2>1, Entries
<1>6. \A v \in Wallets :
        /\ wallets'[v].available = IF v = b THEN wallets[v].available + a ELSE wallets[v].available
        /\ wallets'[v].available >= wallets[v].available
        /\ wallets'[v].available \in Nat /\ wallets'[v].locked \in Nat
  <2> SUFFICES ASSUME NEW v \in Wallets
               PROVE  /\ wallets'[v].available = IF v = b THEN wallets[v].available + a
                                                 ELSE wallets[v].available
                      /\ wallets'[v].available >= wallets[v].available
                      /\ wallets'[v].available \in Nat /\ wallets'[v].locked \in Nat
    OBVIOUS
  <2>1. Only(b, a)[v] = IF v = b THEN a ELSE 0
    BY <1>2, OnlyAt
  <2>2. wallets[v].available \in Nat /\ wallets[v].locked \in Nat
    BY <1>1, BalanceFields
  <2> QED
    BY <1>2, <1>5, <2>1, <2>2
<1>7. wallets' \in [Wallets -> Balance]
  BY <1>3, <1>6, EntryBalance
<1>8. history' \in [Wallets -> Books]
  BY <1>1, <1>2, <1>3, BalanceFields, EntryType, OnlyAt
<1>9. Available(wallets') = Available(wallets) + a
  <2>1. Available(wallets') + wallets[b].available = Available(wallets) + wallets'[b].available
    BY <1>1, <1>2, <1>6, <1>7, AvailableMoves, BalanceFields
  <2>2. /\ Available(wallets') \in Nat /\ Available(wallets) \in Nat
        /\ wallets[b].available \in Nat /\ wallets'[b].available = wallets[b].available + a
    BY <1>1, <1>2, <1>6, <1>7, LedgerSums, BalanceFields
  <2> QED
    BY <1>2, <2>1, <2>2
<1>10. history = wallets => history' = wallets'
  BY <1>3
<1>11. PaidOut(j)
  BY <1>a, <1>3, <1>4, <1>5, <1>6, <1>7, <1>8, <1>9, <1>10, PayOutSound
<1> QED
  BY <1>4, <1>11

\* The books after a split of shares: to refund to b, net to the providers.
Split(bs, b, paid, refund, net, cut) ==
  Apply(Apply(Apply(Apply(bs, "settle", Only(b, paid)), "refund", Only(b, refund)),
              "release", net), "commission", Only(Treasury, cut))

LEMMA SplitBooks ==
  ASSUME NEW bs, NEW b, NEW paid, NEW refund, NEW net, NEW cut,
         bs \in [Wallets -> Books], b \in Wallets, paid \in Nat, refund \in Nat,
         net \in [Wallets -> Nat], cut \in Nat
  PROVE  /\ Split(bs, b, paid, refund, net, cut) \in [Wallets -> Books]
         /\ \A w \in Wallets :
              /\ Split(bs, b, paid, refund, net, cut)[w].available
                   = ((bs[w].available + Only(b, refund)[w]) + net[w]) + Only(Treasury, cut)[w]
              /\ Split(bs, b, paid, refund, net, cut)[w].locked
                   = (bs[w].locked - Only(b, paid)[w]) - Only(b, refund)[w]
<1> DEFINE b1 == Apply(bs, "settle", Only(b, paid))
           b2 == Apply(b1, "refund", Only(b, refund))
           b3 == Apply(b2, "release", net)
           b4 == Apply(b3, "commission", Only(Treasury, cut))
<1>1. /\ Only(b, paid) \in [Wallets -> Nat] /\ Only(b, refund) \in [Wallets -> Nat]
      /\ Only(Treasury, cut) \in [Wallets -> Nat]
  BY OnlyAt, Finite
<1>2. b4 = Split(bs, b, paid, refund, net, cut)
  BY DEF Split
<1>3. b1 \in [Wallets -> Books]
  BY <1>1, EntryType
<1>4. \A w \in Wallets : /\ b1[w].available = bs[w].available
                         /\ b1[w].locked = bs[w].locked - Only(b, paid)[w]
  BY <1>1, Entries
<1> HIDE DEF b1
<1>5. b2 \in [Wallets -> Books]
  BY <1>1, <1>3, EntryType
<1>6. \A w \in Wallets : /\ b2[w].available = b1[w].available + Only(b, refund)[w]
                            /\ b2[w].locked = b1[w].locked - Only(b, refund)[w]
  BY <1>1, <1>3, Entries
<1> HIDE DEF b2
<1>7. b3 \in [Wallets -> Books]
  BY <1>5, EntryType
<1>8. \A w \in Wallets : /\ b3[w].available = b2[w].available + net[w]
                            /\ b3[w].locked = b2[w].locked
  BY <1>5, Entries
<1> HIDE DEF b3
<1>9. b4 \in [Wallets -> Books]
  BY <1>1, <1>7, EntryType
<1>10. \A w \in Wallets : /\ b4[w].available = b3[w].available + Only(Treasury, cut)[w]
                          /\ b4[w].locked = b3[w].locked
  BY <1>1, <1>7, Entries
<1> HIDE DEF b4
<1>11. ASSUME NEW w \in Wallets
       PROVE  /\ b4[w].available
                   = ((bs[w].available + Only(b, refund)[w]) + net[w]) + Only(Treasury, cut)[w]
              /\ b4[w].locked = (bs[w].locked - Only(b, paid)[w]) - Only(b, refund)[w]
  <2>1. /\ b1[w].available = bs[w].available
        /\ b2[w].available = b1[w].available + Only(b, refund)[w]
        /\ b3[w].available = b2[w].available + net[w]
        /\ b4[w].available = b3[w].available + Only(Treasury, cut)[w]
    BY <1>4, <1>6, <1>8, <1>10
  <2>2. /\ b1[w].locked = bs[w].locked - Only(b, paid)[w]
        /\ b2[w].locked = b1[w].locked - Only(b, refund)[w]
        /\ b3[w].locked = b2[w].locked
        /\ b4[w].locked = b3[w].locked
    BY <1>4, <1>6, <1>8, <1>10
  <2> QED
    BY <2>1, <2>2
<1> QED
  BY <1>2, <1>9, <1>11

\* What a split adds to the wallets.
LEMMA SplitAvailable ==
  ASSUME NEW ws, NEW vs, NEW r, NEW n, NEW c,
         ws \in [Wallets -> Balance], vs \in [Wallets -> Balance], \A w \in Wallets : r[w] \in Nat /\ n[w] \in Nat /\ c[w] \in Nat,
         \A w \in Wallets : vs[w].available = ((ws[w].available + r[w]) + n[w]) + c[w]
  PROVE  Available(vs) = ((Available(ws) + SumOver(r, Wallets)) + SumOver(n, Wallets))
                           + SumOver(c, Wallets)
<1> DEFINE f0 == [w \in Wallets |-> ws[w].available]
           f1 == [w \in Wallets |-> f0[w] + r[w]]
           f2 == [w \in Wallets |-> f1[w] + n[w]]
           f3 == [w \in Wallets |-> vs[w].available]
<1>1. \A w \in Wallets : f0[w] \in Nat
  BY DEF Balance
<1>2. \A w \in Wallets : f1[w] \in Nat /\ f1[w] = f0[w] + r[w]
  BY <1>1
<1>3. \A w \in Wallets : f2[w] \in Nat /\ f2[w] = f1[w] + n[w]
  BY <1>2
<1>4. \A w \in Wallets : f3[w] = f2[w] + c[w]
  OBVIOUS
<1>5. Available(ws) = SumOver(f0, Wallets) /\ Available(vs) = SumOver(f3, Wallets)
  BY DEF Available
<1> HIDE DEF f0, f1, f2, f3
<1>6. SumOver(f1, Wallets) = SumOver(f0, Wallets) + SumOver(r, Wallets)
  BY <1>1, <1>2, Finite, SumPlus
<1>7. SumOver(f2, Wallets) = SumOver(f1, Wallets) + SumOver(n, Wallets)
  BY <1>2, <1>3, Finite, SumPlus
<1>8. SumOver(f3, Wallets) = SumOver(f2, Wallets) + SumOver(c, Wallets)
  BY <1>3, <1>4, Finite, SumPlus
<1> QED
  BY <1>5, <1>6, <1>7, <1>8

LEMMA ReleaseSound ==
  ASSUME LedgerInv, NEW j \in Jobs, escrows[j].state = "locked",
         NEW shares \in [Wallets -> Nat], SumOver(shares, Wallets) <= escrows[j].amount,
         Release(j, shares)
  PROVE  PaidOut(j) /\ escrows'[j].state = "released"
<1> DEFINE b == escrows[j].buyer
           a == escrows[j].amount
           net == [w \in Wallets |-> shares[w] - Commission[shares[w]]]
           com == [w \in Wallets |-> Commission[shares[w]]]
           cut == SumOver(com, Wallets)
           paid == SumOver(shares, Wallets)
           left == a - paid
<1>1. SoundLedger(wallets, history, escrows)
  BY DEF LedgerInv
<1>2. b \in Wallets /\ a \in Nat /\ a <= MaxFunds /\ wallets[b].locked >= a
  BY <1>1, LockBacked
<1>3. /\ wallets' = Split(wallets, b, paid, left, net, cut)
      /\ history' = Split(history, b, paid, left, net, cut)
      /\ escrows' = [escrows EXCEPT ![j] = [@ EXCEPT !.state = "released", !.paid = net,
                                                      !.fee = cut]]
      /\ SaveLedger
  BY DEF Release, Split
<1>4. paid \in Nat /\ paid <= a /\ \A w \in Wallets : shares[w] <= paid
  BY Finite, SumNat, SumBounds
<1>5. \A w \in Wallets : com[w] \in Nat /\ com[w] <= shares[w]
  <2> SUFFICES ASSUME NEW w \in Wallets PROVE com[w] \in Nat /\ com[w] <= shares[w]
    OBVIOUS
  <2>1. shares[w] \in Nat /\ shares[w] <= MaxFunds /\ MaxFunds \in Nat
    BY <1>2, <1>4, ServiceAssumption
  <2>2. Commission[shares[w]] \in 0 .. shares[w]
    BY <2>1, ServiceAssumption
  <2> QED
    BY <2>1, <2>2
<1>6. \A w \in Wallets : net[w] \in Nat /\ shares[w] = net[w] + com[w]
  BY <1>5
<1>7. net \in [Wallets -> Nat] /\ com \in [Wallets -> Nat]
  BY <1>5, <1>6
<1> HIDE DEF net, com, paid
<1>8. paid = SumOver(net, Wallets) + cut
  BY <1>5, <1>6, Finite, SumPlus DEF paid
<1>9. cut \in Nat /\ SumOver(net, Wallets) \in Nat
  BY <1>7, Finite, SumNat
<1> HIDE DEF cut
<1>10. left \in Nat /\ left + paid = a
  BY <1>2, <1>4
<1>a. escrows[j].buyer = b /\ escrows[j].amount = a
  OBVIOUS
<1>11. /\ escrows' \in [Jobs -> Escrow] /\ \A i \in Jobs \ {j} : escrows'[i] = escrows[i]
       /\ escrows'[j].state = "released"
  <2> DEFINE e == [escrows[j] EXCEPT !.state = "released", !.paid = net, !.fee = cut]
  <2>1. e \in Escrow /\ e.state = "released"
    <3>1. escrows[j] \in Escrow
      BY <1>1, BalanceFields
    <3>2. net \in [Wallets -> Nat] /\ cut \in Nat
      BY <1>7, <1>9
    <3> QED
      BY <3>1, <3>2 DEF Escrow
  <2>2. escrows' = [escrows EXCEPT ![j] = e]
    BY <1>3
  <2> HIDE DEF e
  <2> QED
    BY <1>1, <2>1, <2>2, BalanceFields
<1> HIDE DEF a, b, left
<1>12. /\ Only(b, paid) \in [Wallets -> Nat] /\ Only(b, left) \in [Wallets -> Nat]
       /\ Only(Treasury, cut) \in [Wallets -> Nat] /\ Only(b, a) \in [Wallets -> Nat]
       /\ SumOver(Only(b, left), Wallets) = left /\ SumOver(Only(Treasury, cut), Wallets) = cut
  BY <1>2, <1>4, <1>9, <1>10, Finite, OnlyAt
<1>13. \A w \in Wallets :
         /\ wallets'[w].available
              = ((wallets[w].available + Only(b, left)[w]) + net[w]) + Only(Treasury, cut)[w]
         /\ wallets'[w].locked = (wallets[w].locked - Only(b, paid)[w]) - Only(b, left)[w]
  <2>1. wallets \in [Wallets -> Books]
    BY <1>1, BalanceFields, BooksOfBalance
  <2>2. \A w \in Wallets :
          /\ Split(wallets, b, paid, left, net, cut)[w].available
               = ((wallets[w].available + Only(b, left)[w]) + net[w]) + Only(Treasury, cut)[w]
          /\ Split(wallets, b, paid, left, net, cut)[w].locked
               = (wallets[w].locked - Only(b, paid)[w]) - Only(b, left)[w]
    <3>1. /\ b \in Wallets /\ paid \in Nat /\ left \in Nat /\ net \in [Wallets -> Nat]
          /\ cut \in Nat
      BY <1>2, <1>4, <1>7, <1>9, <1>10
    <3> QED
      BY <2>1, <3>1, SplitBooks
  <2> QED
    BY <1>3, <2>2
<1>14. \A w \in Wallets :
         /\ wallets'[w].available >= wallets[w].available
         /\ wallets'[w].locked = wallets[w].locked - Only(b, a)[w]
         /\ wallets'[w].available \in Nat /\ wallets'[w].locked \in Nat
  <2> SUFFICES ASSUME NEW w \in Wallets
               PROVE  /\ wallets'[w].available >= wallets[w].available
                      /\ wallets'[w].locked = wallets[w].locked - Only(b, a)[w]
                      /\ wallets'[w].available \in Nat /\ wallets'[w].locked \in Nat
    OBVIOUS
  <2>1. /\ Only(b, paid)[w] = IF w = b THEN paid ELSE 0
        /\ Only(b, left)[w] = IF w = b THEN left ELSE 0
        /\ Only(b, a)[w] = IF w = b THEN a ELSE 0
    BY <1>2, <1>4, <1>10, OnlyAt
  <2>2. wallets[w].available \in Nat /\ wallets[w].locked \in Nat
    BY <1>1, BalanceFields
  <2>3. net[w] \in Nat /\ Only(Treasury, cut)[w] \in Nat /\ Only(b, left)[w] \in Nat
    BY <1>7, <1>12
  <2>4. wallets'[w].available >= wallets[w].available /\ wallets'[w].available \in Nat
    BY <1>13, <2>2, <2>3
  <2>5. /\ wallets'[w].locked = wallets[w].locked - Only(b, a)[w]
        /\ wallets'[w].locked \in Nat
    BY <1>2, <1>4, <1>10, <1>13, <2>1, <2>2
  <2> QED
    BY <2>4, <2>5
<1>15. wallets' \in [Wallets -> Balance]
  BY <1>3, <1>14, EntryBalance DEF Split
<1>16. history' \in [Wallets -> Books]
  BY <1>1, <1>2, <1>3, <1>4, <1>7, <1>9, <1>10, SplitBooks, BalanceFields
<1>17. Available(wallets') = Available(wallets) + a
  <2>1. Available(wallets') = ((Available(wallets) + left) + SumOver(net, Wallets)) + cut
    <3>1. wallets \in [Wallets -> Balance]
      BY <1>1, BalanceFields
    <3>2. \A w \in Wallets :
            wallets'[w].available
              = ((wallets[w].available + Only(b, left)[w]) + net[w]) + Only(Treasury, cut)[w]
      BY <1>13
    <3> DEFINE r == Only(b, left)
               c == Only(Treasury, cut)
    <3>3. /\ r \in [Wallets -> Nat] /\ c \in [Wallets -> Nat]
          /\ SumOver(r, Wallets) = left /\ SumOver(c, Wallets) = cut
          /\ \A w \in Wallets :
               wallets'[w].available = ((wallets[w].available + r[w]) + net[w]) + c[w]
      BY <1>12, <3>2
    <3> HIDE DEF r, c
    <3>4. \A w \in Wallets : r[w] \in Nat /\ net[w] \in Nat /\ c[w] \in Nat
      BY <1>7, <3>3
    <3>5. Available(wallets') = ((Available(wallets) + SumOver(r, Wallets))
                                   + SumOver(net, Wallets)) + SumOver(c, Wallets)
      BY <1>15, <3>1, <3>3, <3>4, SplitAvailable
    <3> QED
      BY <3>3, <3>5
  <2>2. Available(wallets) \in Nat
    BY <1>1, BalanceFields, LedgerSums
  <2> QED
    BY <1>2, <1>4, <1>8, <1>9, <1>10, <2>1, <2>2
<1>18. history = wallets => history' = wallets'
  BY <1>3
<1>19. PaidOut(j)
  BY <1>a, <1>3, <1>11, <1>14, <1>15, <1>16, <1>17, <1>18, PayOutSound
<1> QED
  BY <1>11, <1>19

\* A dispute moves money between wallets, in memory only.
LEMMA ClawBackSound ==
  ASSUME LedgerInv, NEW j \in Jobs, job[j].buyer \in Wallets, escrows[j].state = "released",
         ClawBack(j)
  PROVE  /\ LedgerInv' /\ escrows' \in [Jobs -> Escrow]
         /\ escrows'[j].state = "disputed_refunded"
         /\ \A i \in Jobs \ {j} : escrows'[i] = escrows[i]
         /\ wallets' \in [Wallets -> Balance] /\ Available(wallets') = Available(wallets)
<1> DEFINE b == job[j].buyer
           pulls == [w \in Wallets |-> Pulled(j, w)]
           total == SumOver(pulls, Wallets)
           back == Only(b, total)
<1>1. SoundLedger(wallets, history, escrows)
  BY DEF LedgerInv
<1>2. \A w \in Wallets : pulls[w] \in Nat /\ pulls[w] <= wallets[w].available
  <2> SUFFICES ASSUME NEW w \in Wallets
               PROVE  Pulled(j, w) \in Nat /\ Pulled(j, w) <= wallets[w].available
    OBVIOUS
  <2>1. /\ wallets[w].available \in Nat /\ escrows[j].paid[w] \in Nat
        /\ escrows[j].fee \in Nat
    BY <1>1, BalanceFields
  <2> QED
    BY <2>1 DEF Pulled
<1>3. /\ wallets' = [w \in Wallets |-> [wallets[w] EXCEPT !.available = @ - pulls[w] + back[w]]]
      /\ history' = Apply(Apply(history, "settle", pulls), "refund", back)
      /\ escrows' = [escrows EXCEPT ![j].state = "disputed_refunded"]
      /\ saved' = saved
  BY DEF ClawBack
<1>4. b \in Wallets
  OBVIOUS
<1>a. pulls \in [Wallets -> Nat]
  BY <1>2
<1> HIDE DEF pulls, b
<1>5. total \in Nat
  BY <1>2, Finite, SumNat
<1>6. /\ back \in [Wallets -> Nat] /\ SumOver(back, Wallets) = total
      /\ \A w \in Wallets : back[w] \in Nat
  BY <1>4, <1>5, OnlyAt
<1> HIDE DEF total, back
<1>7. /\ escrows' \in [Jobs -> Escrow] /\ escrows'[j].state = "disputed_refunded"
      /\ \A i \in Jobs \ {j} : escrows'[i] = escrows[i]
  <2>1. escrows \in [Jobs -> Escrow] /\ escrows[j] \in Escrow
    BY <1>1, BalanceFields
  <2> QED
    BY <1>3, <2>1 DEF Escrow
<1>8. \A w \in Wallets :
        /\ wallets'[w].available = wallets[w].available - pulls[w] + back[w]
        /\ wallets'[w].locked = wallets[w].locked
        /\ wallets'[w].available \in Nat /\ wallets'[w] \in Balance
  <2> SUFFICES ASSUME NEW w \in Wallets
               PROVE  /\ wallets'[w].available = wallets[w].available - pulls[w] + back[w]
                      /\ wallets'[w].locked = wallets[w].locked
                      /\ wallets'[w].available \in Nat /\ wallets'[w] \in Balance
    OBVIOUS
  <2>1. wallets[w] \in Balance /\ wallets[w].available \in Nat
    BY <1>1, BalanceFields
  <2>2. wallets'[w] = [wallets[w] EXCEPT !.available = wallets[w].available - pulls[w] + back[w]]
    BY <1>3
  <2>3. wallets[w].available - pulls[w] + back[w] \in Nat
    BY <1>2, <1>6, <2>1
  <2> QED
    BY <2>1, <2>2, <2>3 DEF Balance
<1>9. wallets' \in [Wallets -> Balance]
  BY <1>3, <1>8
<1>10. history' \in [Wallets -> Books]
  <2> DEFINE h == Apply(history, "settle", pulls)
  <2>1. h \in [Wallets -> Books]
    BY <1>1, <1>a, BalanceFields, EntryType
  <2>2. history' = Apply(h, "refund", back)
    BY <1>3
  <2> HIDE DEF h
  <2> QED
    BY <1>6, <2>1, <2>2, EntryType
<1>11. Available(wallets') = Available(wallets)
  <2> DEFINE f == [w \in Wallets |-> wallets'[w].available]
             g == [w \in Wallets |-> wallets[w].available]
  <2>1. \A w \in Wallets : /\ f[w] \in Nat /\ pulls[w] \in Nat /\ g[w] \in Nat /\ back[w] \in Nat
                           /\ f[w] + pulls[w] = g[w] + back[w]
    <3> SUFFICES ASSUME NEW w \in Wallets
                 PROVE  /\ f[w] \in Nat /\ pulls[w] \in Nat /\ g[w] \in Nat /\ back[w] \in Nat
                        /\ f[w] + pulls[w] = g[w] + back[w]
      OBVIOUS
    <3>1. wallets[w].available \in Nat /\ pulls[w] \in Nat /\ back[w] \in Nat
      BY <1>1, <1>2, <1>6, BalanceFields
    <3> QED
      BY <1>8, <3>1
  <2>2. Available(wallets') = SumOver(f, Wallets) /\ Available(wallets) = SumOver(g, Wallets)
    BY DEF Available
  <2> HIDE DEF f, g
  <2>3. SumOver(f, Wallets) + SumOver(pulls, Wallets)
          = SumOver(g, Wallets) + SumOver(back, Wallets)
    BY <2>1, Finite, SumMoves
  <2>4. SumOver(f, Wallets) \in Nat /\ SumOver(g, Wallets) \in Nat
    BY <2>1, Finite, SumNat
  <2>5. SumOver(pulls, Wallets) = total
    BY DEF total
  <2> QED
    BY <1>5, <1>6, <2>2, <2>3, <2>4, <2>5
<1>12. SoundLedger(wallets', history', escrows')
  <2>1. Available(wallets') + Locked(wallets') <= MaxFunds
    <3>1. Locked(wallets') = Locked(wallets)
      BY <1>8, LockedSame
    <3> QED
      BY <1>1, <1>11, <3>1 DEF SoundLedger
  <2>2. ~Undisputed(escrows')
    BY <1>7 DEF Undisputed
  <2>3. \A w \in Wallets : wallets'[w].locked + HeldOf(escrows, w)[j]
                             = wallets[w].locked + HeldOf(escrows', w)[j]
    BY <1>7, <1>8 DEF HeldOf
  <2>4. escrows'[j].state # "locked"
    BY <1>7
  <2> QED
    BY <1>1, <1>7, <1>9, <1>10, <2>1, <2>2, <2>3, <2>4, SoundMove
<1>13. FileBehind'
  <2>1. /\ FileBehind /\ saved'.escrows = saved.escrows /\ saved'.wallets = saved.wallets
        /\ ~Undisputed(escrows')
    BY <1>3, <1>7 DEF LedgerInv, Undisputed
  <2>2. \A i \in Jobs : \/ saved.escrows[i] = escrows'[i]
                        \/ /\ saved.escrows[i].state = "released"
                           /\ escrows'[i].state = "disputed_refunded"
    BY <1>7, <2>1 DEF FileBehind
  <2>3. Available(saved.wallets) = Available(wallets')
    BY <1>11, <2>1 DEF FileBehind
  <2> QED
    BY <2>1, <2>2, <2>3 DEF FileBehind
<1>14. LedgerInv'
  BY <1>3, <1>12, <1>13 DEF LedgerInv
<1> QED
  BY <1>7, <1>9, <1>11, <1>14

\* A restart takes the ledger from its file.
LEMMA LoadSound ==
  ASSUME LedgerInv, LoadLedger
  PROVE  LedgerInv'
<1>1. /\ saved' = saved /\ wallets' = saved.wallets /\ history' = saved.history
      /\ escrows' = saved.escrows
  BY DEF LoadLedger
<1>2. FileBehind'
  BY <1>1 DEF FileBehind
<1> QED
  BY <1>1, <1>2 DEF LedgerInv

LEMMA IdleSound ==
  ASSUME LedgerInv, UNCHANGED ledgerVars
  PROVE  LedgerInv'
BY DEF LedgerInv, FileBehind, SoundLedger, ledgerVars

-----------------------------------------------------------------------------
(* The jobs. *)

LEMMA Constants ==
  /\ NoBuyer \notin Wallets /\ Buyers \subseteq Wallets \cup {NoBuyer}
  /\ Providers \subseteq Wallets \ {Treasury} /\ IsFiniteSet(Providers)
  /\ \A w \in Providers : Bid[w] \in Nat /\ Bid[w] > 0
<1>1. IsFiniteSet(Providers)
  BY Finite, ServiceAssumption, FS_Subset
<1> QED
  BY <1>1, ServiceAssumption

\* Two bids or more make a price above zero, whatever float sums do to it.
LEMMA ConsortiumPrice ==
  ASSUME NEW M \in SUBSET Providers, Cardinality(M) > 1, NEW r \in Rounding
  PROVE  SumOver(Bid, M) \in Nat /\ SumOver(Bid, M) + r \in Nat /\ SumOver(Bid, M) + r > 0
<1>1. IsFiniteSet(M) /\ \A w \in M : Bid[w] \in Nat
  BY Constants, FS_Subset
<1>2. M # {} /\ Cardinality(M) \in Nat
  BY <1>1, FS_EmptySet, FS_CardinalityType
<1>3. PICK p \in M : TRUE
  BY <1>2
<1>4. M \ {p} # {}
  <2> SUFFICES ASSUME M \ {p} = {} PROVE FALSE
    OBVIOUS
  <2>1. M = {p}
    BY <1>3
  <2>2. Cardinality(M) = 1
    BY <2>1, FS_Singleton
  <2> QED
    BY <2>2
<1>5. PICK q \in M : q # p
  BY <1>4
<1>6. SumOver(Bid, {p, q}) = Bid[p] + Bid[q]
  <2>1. IsFiniteSet({p}) /\ IsFiniteSet({q}) /\ {p} \cap {q} = {} /\ {p} \cup {q} = {p, q}
    BY <1>5, FS_Singleton
  <2>2. SumOver(Bid, {p} \cup {q}) = SumOver(Bid, {p}) + SumOver(Bid, {q})
    BY <1>1, <1>3, <1>5, <2>1, SumUnion
  <2>3. SumOver(Bid, {p}) = Bid[p] /\ SumOver(Bid, {q}) = Bid[q]
    BY <1>1, <1>3, <1>5, SumSingle
  <2> QED
    BY <2>1, <2>2, <2>3
<1>7. SumOver(Bid, {p, q}) <= SumOver(Bid, M)
  BY <1>1, <1>3, <1>5, SumSubset
<1>8. SumOver(Bid, M) \in Nat /\ r \in Int /\ Bid[p] \in Nat /\ Bid[q] \in Nat
  BY <1>1, <1>3, <1>5, SumNat, ServiceAssumption
<1>9. Bid[p] + Bid[q] + r > 0
  BY <1>3, <1>5, ServiceAssumption
<1> QED
  BY <1>6, <1>7, <1>8, <1>9

LEMMA OfferFacts ==
  ASSUME NEW o \in Offers
  PROVE  /\ o.kind \in {"single", "consortium"} /\ o.members \in SUBSET Providers
         /\ o.price \in Nat /\ o.price > 0
         /\ Rounding \subseteq Nat /\ o.kind = "consortium" => SumOver(Bid, o.members) <= o.price
<1>1. ASSUME NEW w \in Providers, o = [kind |-> "single", members |-> {w}, price |-> Bid[w]]
      PROVE  /\ o.kind = "single" /\ o.members \in SUBSET Providers
             /\ o.price \in Nat /\ o.price > 0
  BY <1>1, Constants
<1>2. ASSUME NEW M \in SUBSET Providers, Cardinality(M) > 1, NEW r \in Rounding,
             o = [kind |-> "consortium", members |-> M, price |-> SumOver(Bid, M) + r]
      PROVE  /\ o.kind = "consortium" /\ o.members \in SUBSET Providers
             /\ o.price \in Nat /\ o.price > 0
             /\ Rounding \subseteq Nat => SumOver(Bid, o.members) <= o.price
  <2>1. o.kind = "consortium" /\ o.members = M /\ o.price = SumOver(Bid, M) + r
    BY <1>2
  <2>2. SumOver(Bid, M) \in Nat /\ SumOver(Bid, M) + r \in Nat /\ SumOver(Bid, M) + r > 0
    BY <1>2, ConsortiumPrice
  <2>3. Rounding \subseteq Nat => SumOver(Bid, M) <= SumOver(Bid, M) + r
    BY <2>2
  <2> QED
    BY <2>1, <2>2, <2>3
<1> QED
  BY <1>1, <1>2 DEF Offers

\* The shares of some of the members are within the bids of all.
LEMMA SharesFacts ==
  ASSUME NEW M \in SUBSET Providers, NEW S \in SUBSET M
  PROVE  /\ SharesOf(S) \in [Wallets -> Nat]
         /\ SumOver(SharesOf(S), Wallets) <= SumOver(Bid, M)
<1>1. S \in SUBSET Wallets /\ \A w \in M : Bid[w] \in Nat
  BY Constants
<1>2. SharesOf(S) \in [Wallets -> Nat]
  BY <1>1 DEF SharesOf
<1>3. SumOver(SharesOf(S), Wallets) = SumOver(Bid, S)
  <2>1. /\ \A x \in S : SharesOf(S)[x] = Bid[x]
        /\ \A x \in Wallets \ S : SharesOf(S)[x] = 0
    BY <1>1 DEF SharesOf
  <2> QED
    BY <1>1, <2>1, SumSkip
<1>4. IsFiniteSet(M)
  BY Constants, FS_Subset
<1>5. SumOver(Bid, S) <= SumOver(Bid, M)
  BY <1>1, <1>4, SumSubset
<1> QED
  BY <1>2, <1>3, <1>5

LEMMA ResultFacts ==
  ASSUME IInv, NEW j \in Jobs, NEW r \in Results(j)
  PROVE  /\ r.outcome \in Delivered \cup {"failed", "timeout"}
         /\ r.shares \in [Wallets -> Nat]
         /\ r.outcome \in Delivered =>
              SumOver(r.shares, Wallets) <= IF job[j].kind = "single" THEN escrows[j].amount
                                            ELSE SumOver(Bid, job[j].members)
<1>1. job[j].members \in SUBSET Providers /\ escrows[j].amount \in Nat
  BY BalanceFields DEF IInv, LedgerInv, JobsInv, JobType
<1>2. NoShares \in [Wallets -> Nat]
  BY DEF NoShares
<1>3. CASE job[j].kind = "single"
  <2>1. CASE r \in [outcome : {"completed"}, shares : {Only(w, escrows[j].amount) : w \in Providers}]
    <3>1. PICK w \in Providers : r.shares = Only(w, escrows[j].amount) /\ r.outcome = "completed"
      BY <2>1
    <3>2. w \in Wallets
      BY Constants
    <3>3. /\ r.shares \in [Wallets -> Nat] /\ SumOver(r.shares, Wallets) = escrows[j].amount
      BY <1>1, <3>1, <3>2, OnlyAt
    <3> QED
      BY <1>1, <1>3, <3>1, <3>3 DEF Delivered
  <2>2. CASE r \in [outcome : {"failed", "timeout"}, shares : {NoShares}]
    BY <1>2, <2>2 DEF Delivered
  <2> QED
    BY <1>3, <2>1, <2>2 DEF Results
<1>4. CASE job[j].kind # "single"
  <2>1. ASSUME NEW S \in SUBSET job[j].members, r.shares = SharesOf(S),
               r.outcome \in Delivered
        PROVE  /\ r.shares \in [Wallets -> Nat]
               /\ SumOver(r.shares, Wallets) <= SumOver(Bid, job[j].members)
    BY <1>1, <2>1, SharesFacts
  <2>2. \/ \E S \in SUBSET job[j].members : r.shares = SharesOf(S) /\ r.outcome \in Delivered
        \/ r.shares = NoShares /\ r.outcome = "failed"
    BY <1>4 DEF Results, Delivered
  <2> QED
    BY <1>2, <1>4, <2>1, <2>2 DEF Delivered
<1> QED
  BY <1>3, <1>4

LEMMA JobFields ==
  ASSUME JobsInv, NEW j \in Jobs
  PROVE  /\ job \in [Jobs -> JobType] /\ job[j] \in JobType
         /\ job[j].state \in JobState /\ job[j].kind \in {"single", "consortium"}
         /\ job[j].buyer \in Wallets \cup {NoBuyer} /\ job[j].members \in SUBSET Providers
         /\ stored[j] \in JobState /\ budget \in [Jobs -> Hold] /\ budget[j] \in Hold
         /\ JobOK(job[j], stored[j], escrows[j], budget[j])
BY DEF JobsInv, JobType

\* A job moves, with its store, its escrow and its hold; the others stay.
LEMMA JobStep ==
  ASSUME JobsInv, NEW j \in Jobs, NEW rec, NEW bg, rec \in JobType, bg \in Hold, Push(j, rec),
         budget' = [budget EXCEPT ![j] = bg], \A i \in Jobs \ {j} : escrows'[i] = escrows[i],
         JobOK(rec, rec.state, escrows'[j], bg)
  PROVE  JobsInv'
<1>1. job' \in [Jobs -> JobType] /\ stored' \in [Jobs -> JobState] /\ budget' \in [Jobs -> Hold]
  BY DEF JobsInv, Push, JobType
<1>2. ASSUME NEW i \in Jobs PROVE JobOK(job'[i], stored'[i], escrows'[i], budget'[i])
  <2>1. CASE i = j
    <3>1. job'[i] = rec /\ stored'[i] = rec.state /\ budget'[i] = bg
      BY <2>1 DEF JobsInv, Push
    <3> QED
      BY <2>1, <3>1
  <2>2. CASE i # j
    <3>1. /\ job'[i] = job[i] /\ stored'[i] = stored[i] /\ budget'[i] = budget[i]
          /\ escrows'[i] = escrows[i]
      BY <2>2 DEF JobsInv, Push
    <3>2. JobOK(job[i], stored[i], escrows[i], budget[i])
      BY DEF JobsInv
    <3> QED
      BY <3>1, <3>2
  <2> QED
    BY <2>1, <2>2
<1> QED
  BY <1>1, <1>2 DEF JobsInv

LEMMA SameHold ==
  ASSUME JobsInv, NEW j \in Jobs, UNCHANGED budget
  PROVE  budget' = [budget EXCEPT ![j] = budget[j]]
BY DEF JobsInv

LEMMA SameEscrows ==
  ASSUME UNCHANGED ledgerVars
  PROVE  escrows' = escrows /\ wallets' = wallets
BY DEF ledgerVars

\* The store holds no state of another kind than a job's.
LEMMA StatesDiffer ==
  /\ "none" \notin OpenStates /\ "interrupted" \notin OpenStates \cup Delivered \cup {"none"}
  /\ OpenStates \cap Delivered = {} /\ "none" \notin Delivered
  /\ OpenStates \cup Delivered \cup {"interrupted", "none"} \subseteq JobState
BY DEF OpenStates, Delivered, JobState

\* A new process: nothing runs, and what the store and the escrows say of a
\* job still agrees with its hold.
LEMMA RebootStep ==
  ASSUME JobsInv, NEW b, b \in [Jobs -> Hold], Reboot(b),
         \A i \in Jobs :
           /\ stored[i] = "none" => escrows'[i].state = "none"
           /\ escrows'[i].state \in {"released", "disputed_refunded"} =>
                b[i] \in {"held", "charged", "gone"}
           /\ Rounding \subseteq Nat /\ stored[i] \in Delivered =>
                escrows'[i].state \in {"none", "released"}
  PROVE  JobsInv'
<1> DEFINE fresh == [NoJob EXCEPT !.state = "interrupted"]
<1>1. /\ NoJob \in JobType /\ fresh \in JobType
      /\ \A jb \in {NoJob, fresh} : /\ jb.pc = "none" /\ jb.buyer = NoBuyer
                                    /\ jb.state \in {"none", "interrupted"}
  BY StatesDiffer DEF NoJob, JobType
<1>2. /\ job' = [i \in Jobs |-> IF stored[i] \in OpenStates THEN fresh ELSE NoJob]
      /\ stored' = [i \in Jobs |-> IF stored[i] \in OpenStates THEN "interrupted" ELSE stored[i]]
      /\ budget' = [i \in Jobs |-> IF b[i] = "held" THEN "gone" ELSE b[i]]
  BY DEF Reboot
<1> HIDE DEF fresh
<1>3. job' \in [Jobs -> JobType] /\ stored' \in [Jobs -> JobState] /\ budget' \in [Jobs -> Hold]
  BY <1>1, <1>2, StatesDiffer DEF JobsInv, Hold
<1>4. ASSUME NEW i \in Jobs PROVE JobOK(job'[i], stored'[i], escrows'[i], budget'[i])
  <2>1. job'[i] \in {NoJob, fresh}
    BY <1>2
  <2>2. /\ job'[i].pc = "none" /\ job'[i].buyer = NoBuyer
        /\ job'[i].state \in {"none", "interrupted"}
    BY <1>1, <2>1
  <2>3. /\ stored'[i] = "none" => stored[i] = "none"
        /\ stored'[i] \in Delivered => stored[i] \in Delivered
    BY <1>2, StatesDiffer
  <2>4. b[i] \in {"held", "charged", "gone"} => budget'[i] \in {"charged", "gone"}
    BY <1>2
  <2>5. Rounding \subseteq Nat => JobPaid(job'[i], stored'[i], escrows'[i])
    BY <2>2, <2>3 DEF JobPaid
  <2> QED
    BY <2>2, <2>3, <2>4, <2>5 DEF JobOK
<1> QED
  BY <1>3, <1>4 DEF JobsInv

\* What a job's escrow and its hold make of a settlement.
LEMMA BudgetAfterFacts ==
  ASSUME JobsInv, NEW j \in Jobs, NEW outcome
  PROVE  /\ BudgetAfter(j, outcome) \in [Jobs -> Hold]
         /\ \A i \in Jobs \ {j} : BudgetAfter(j, outcome)[i] = budget[i]
         /\ BudgetAfter(j, outcome) = [budget EXCEPT ![j] = BudgetAfter(j, outcome)[j]]
         /\ budget[j] # "held" => BudgetAfter(j, outcome)[j] = budget[j]
         /\ budget[j] = "held" => BudgetAfter(j, outcome)[j]
                                    = IF outcome \in Delivered THEN "charged" ELSE "released"
BY DEF JobsInv, BudgetAfter, Hold

\* The ledger's part of a settlement: nothing, when there is no buyer or the
\* shares exceed the lock, or the lock is paid out.
Settled(j, outcome, shares) ==
  \/ /\ UNCHANGED ledgerVars
     /\ \/ job[j].buyer = NoBuyer
        \/ outcome \in Delivered /\ ~(SumOver(shares, Wallets) <= escrows[j].amount)
  \/ /\ PaidOut(j) /\ escrows[j].state = "locked" /\ job[j].buyer # NoBuyer
     /\ escrows'[j].state = IF outcome \in Delivered THEN "released" ELSE "refunded"

LEMMA SettleEscrowSound ==
  ASSUME LedgerInv, NEW j \in Jobs, NEW outcome, NEW shares, shares \in [Wallets -> Nat],
         job[j].buyer # NoBuyer => escrows[j].state = "locked",
         SettleEscrow(j, outcome, shares)
  PROVE  /\ Settled(j, outcome, shares) /\ LedgerInv'
         /\ \A i \in Jobs \ {j} : escrows'[i] = escrows[i]
<1>1. SumOver(shares, Wallets) \in Nat /\ escrows[j].amount \in Nat
  BY Finite, SumNat, BalanceFields DEF LedgerInv
<1>2. CASE job[j].buyer = NoBuyer
  <2>1. UNCHANGED ledgerVars
    BY <1>2 DEF SettleEscrow
  <2> QED
    BY <1>2, <2>1, IdleSound, SameEscrows DEF Settled
<1>3. CASE job[j].buyer # NoBuyer /\ outcome \notin Delivered
  <2>1. escrows[j].state = "locked" /\ RefundToBuyer(j)
    BY <1>3 DEF SettleEscrow, Settleable
  <2> QED
    BY <1>3, <2>1, RefundSound DEF Settled, PaidOut
<1>4. CASE job[j].buyer # NoBuyer /\ outcome \in Delivered
           /\ SumOver(shares, Wallets) > escrows[j].amount
  <2>1. UNCHANGED ledgerVars
    BY <1>4 DEF SettleEscrow, Settleable
  <2> QED
    BY <1>1, <1>4, <2>1, IdleSound, SameEscrows DEF Settled
<1>5. CASE job[j].buyer # NoBuyer /\ outcome \in Delivered
           /\ ~(SumOver(shares, Wallets) > escrows[j].amount)
  <2>1. escrows[j].state = "locked" /\ Release(j, shares)
    BY <1>5 DEF SettleEscrow, Settleable
  <2>2. SumOver(shares, Wallets) <= escrows[j].amount
    BY <1>1, <1>5
  <2> QED
    BY <1>5, <2>1, <2>2, ReleaseSound DEF Settled, PaidOut
<1> QED
  BY <1>2, <1>3, <1>4, <1>5

LEMMA ToType ==
  ASSUME JobsInv, NEW j \in Jobs, NEW s, NEW pc, s \in JobState,
         pc \in {"none", "auction", "spawned", "executing"}
  PROVE  /\ To(j, s, pc) \in JobType /\ To(j, s, pc).state = s /\ To(j, s, pc).pc = pc
         /\ To(j, s, pc).kind = job[j].kind /\ To(j, s, pc).buyer = job[j].buyer
         /\ To(j, s, pc).members = job[j].members
<1>1. job[j] \in JobType
  BY JobFields
<1> QED
  BY <1>1 DEF To, JobType

LEMMA WinnersType ==
  ASSUME JobsInv, NEW j \in Jobs, NEW o \in Offers
  PROVE  /\ Winners(j, o) \in JobType /\ Winners(j, o).state = "matched"
         /\ Winners(j, o).pc = "spawned" /\ Winners(j, o).kind = o.kind
         /\ Winners(j, o).buyer = job[j].buyer /\ Winners(j, o).members = o.members
<1>1. "matched" \in JobState
  BY DEF JobState, OpenStates
<1>2. /\ To(j, "matched", "spawned") \in JobType
      /\ To(j, "matched", "spawned").state = "matched"
      /\ To(j, "matched", "spawned").pc = "spawned"
      /\ To(j, "matched", "spawned").buyer = job[j].buyer
  BY <1>1, ToType
<1>3. o.kind \in {"single", "consortium"} /\ o.members \in SUBSET Providers
  BY OfferFacts
<1> QED
  BY <1>2, <1>3 DEF Winners, JobType

\* The price of an offer is locked, or the job has no buyer.
LEMMA LockPriceSound ==
  ASSUME IInv, NEW j \in Jobs, NEW o \in Offers, LockPrice(j, o)
  PROVE  /\ LedgerInv' /\ \A i \in Jobs \ {j} : escrows'[i] = escrows[i]
         /\ escrows[j].state = "none"
         /\ \/ job[j].buyer = NoBuyer /\ UNCHANGED ledgerVars
            \/ job[j].buyer \in Wallets /\ LockedFor(j, job[j].buyer, o.price)
<1>1. LedgerInv /\ JobsInv /\ At(j, "auction")
  BY DEF IInv, LockPrice
<1>2. escrows[j].state = "none" /\ job[j].buyer \in Wallets \cup {NoBuyer}
  BY <1>1, JobFields DEF JobOK, At
<1>3. CASE job[j].buyer = NoBuyer
  <2>1. UNCHANGED ledgerVars
    BY <1>3 DEF LockPrice, Lock
  <2> QED
    BY <1>1, <1>2, <1>3, <2>1, IdleSound, SameEscrows
<1>4. CASE job[j].buyer # NoBuyer
  <2>1. CanLock(j, job[j].buyer, o.price) /\ LockForJob(j, job[j].buyer, o.price)
    BY <1>4 DEF LockPrice, Lock, Funded
  <2>2. job[j].buyer \in Wallets /\ o.price \in Nat /\ o.price > 0
    BY <1>2, <1>4, OfferFacts
  <2>3. LockedFor(j, job[j].buyer, o.price)
    BY <1>1, <1>2, <2>1, <2>2, LockSound
  <2> QED
    BY <1>2, <2>2, <2>3 DEF LockedFor
<1> QED
  BY <1>3, <1>4

LEMMA RefuseInv ==
  ASSUME IInv, NEW j \in Jobs, Refuse(j)
  PROVE  IInv'
<1> DEFINE rec == [NoJob EXCEPT !.state = "failed"]
<1>1. LedgerInv /\ JobsInv /\ stored[j] = "none" /\ Push(j, rec) /\ UNCHANGED <<budget, ledgerVars>>
  BY DEF IInv, Refuse
<1>2. rec \in JobType /\ rec.pc = "none" /\ rec.state = "failed"
  BY DEF NoJob, JobType, JobState
<1> HIDE DEF rec
<1>3. escrows' = escrows /\ escrows[j].state = "none" /\ budget[j] \in Hold
  BY <1>1, SameEscrows, JobFields DEF JobOK
<1>4. JobOK(rec, rec.state, escrows'[j], budget[j])
  BY <1>2, <1>3 DEF JobOK, JobPaid
<1>5. JobsInv'
  BY <1>1, <1>2, <1>3, <1>4, JobStep, SameHold
<1> QED
  BY <1>1, <1>5, IdleSound DEF IInv

LEMMA SubmitInv ==
  ASSUME IInv, NEW j \in Jobs, NEW b \in Buyers, Submit(j, b)
  PROVE  IInv'
<1> DEFINE rec == [NoJob EXCEPT !.state = "queued", !.pc = "auction", !.buyer = b]
<1>1. /\ LedgerInv /\ JobsInv /\ stored[j] = "none" /\ Push(j, rec) /\ UNCHANGED ledgerVars
      /\ budget' = [budget EXCEPT ![j] = "held"]
  BY DEF IInv, Submit
<1>2. rec \in JobType /\ rec.pc = "auction" /\ rec.state = "queued"
  BY Constants DEF NoJob, JobType, JobState, OpenStates
<1> HIDE DEF rec
<1>3. escrows' = escrows /\ escrows[j].state = "none" /\ "held" \in Hold
  BY <1>1, SameEscrows, JobFields DEF JobOK, Hold
<1>4. JobOK(rec, rec.state, escrows'[j], "held")
  BY <1>2, <1>3 DEF JobOK, JobPaid, Delivered
<1>5. JobsInv'
  BY <1>1, <1>2, <1>3, <1>4, JobStep
<1> QED
  BY <1>1, <1>5, IdleSound DEF IInv

LEMMA NoMatchInv ==
  ASSUME IInv, NEW j \in Jobs, NEW kind, NoMatch(j, kind)
  PROVE  IInv'
<1> DEFINE rec == To(j, "failed", "none")
           bg == IF kind = "single" THEN BudgetAfter(j, "failed")[j] ELSE budget[j]
<1>1. LedgerInv /\ JobsInv /\ At(j, "auction") /\ Push(j, rec) /\ UNCHANGED ledgerVars
  BY DEF IInv, NoMatch
<1>2. rec \in JobType /\ rec.pc = "none" /\ rec.state = "failed"
  BY <1>1, ToType DEF JobState
<1>3. budget' = [budget EXCEPT ![j] = bg] /\ bg \in Hold
  BY <1>1, BudgetAfterFacts, SameHold, JobFields DEF NoMatch
<1> HIDE DEF rec, bg
<1>4. escrows' = escrows /\ escrows[j].state = "none"
  BY <1>1, SameEscrows, JobFields DEF JobOK, At
<1>5. JobOK(rec, rec.state, escrows'[j], bg)
  BY <1>2, <1>4 DEF JobOK, JobPaid, Delivered
<1>6. JobsInv'
  BY <1>1, <1>2, <1>3, <1>4, <1>5, JobStep
<1> QED
  BY <1>1, <1>6, IdleSound DEF IInv

LEMMA MatchInv ==
  ASSUME IInv, NEW j \in Jobs, NEW o \in Offers, Match(j, o)
  PROVE  IInv'
<1> DEFINE rec == Winners(j, o)
<1>1. JobsInv /\ LockPrice(j, o) /\ Push(j, rec) /\ UNCHANGED budget
  BY DEF IInv, Match
<1>2. /\ rec \in JobType /\ rec.state = "matched" /\ rec.pc = "spawned" /\ rec.kind = o.kind
      /\ rec.buyer = job[j].buyer /\ rec.members = o.members
  BY <1>1, WinnersType
<1> HIDE DEF rec
<1>3. budget[j] \in {"held", "gone"} /\ budget[j] \in Hold
  BY <1>1, JobFields DEF JobOK, LockPrice, At
<1>4. /\ LedgerInv' /\ \A i \in Jobs \ {j} : escrows'[i] = escrows[i]
      /\ \/ rec.buyer = NoBuyer /\ escrows'[j].state = "none"
         \/ rec.buyer # NoBuyer /\ escrows'[j].state = "locked" /\ escrows'[j].amount = o.price
  BY <1>1, <1>2, LockPriceSound, SameEscrows, Constants DEF LockedFor
<1>5. Rounding \subseteq Nat => JobPaid(rec, rec.state, escrows'[j])
  BY <1>2, <1>4, OfferFacts DEF JobPaid, Delivered
<1>6. JobOK(rec, rec.state, escrows'[j], budget[j])
  BY <1>2, <1>3, <1>4, <1>5 DEF JobOK, Delivered
<1>7. JobsInv'
  BY <1>1, <1>2, <1>3, <1>4, <1>6, JobStep, SameHold
<1> QED
  BY <1>4, <1>7 DEF IInv

LEMMA UnderfundedInv ==
  ASSUME IInv, NEW j \in Jobs, NEW o \in Offers, Underfunded(j, o)
  PROVE  IInv'
<1> DEFINE s == IF o.kind = "single" THEN "paused_funding" ELSE "failed"
           rec == [Winners(j, o) EXCEPT !.state = s, !.pc = "none"]
<1>1. /\ LedgerInv /\ JobsInv /\ At(j, "auction") /\ Push(j, rec)
      /\ UNCHANGED <<budget, ledgerVars>> /\ ~Funded(job[j].buyer, j, o.price)
  BY DEF IInv, Underfunded
<1>2. /\ rec \in JobType /\ rec.state = s /\ rec.pc = "none" /\ rec.kind = o.kind
      /\ rec.buyer = job[j].buyer
  <2>1. Winners(j, o) \in JobType /\ Winners(j, o).kind = o.kind
          /\ Winners(j, o).buyer = job[j].buyer
    BY <1>1, WinnersType
  <2>2. s \in JobState
    BY DEF JobState, OpenStates
  <2> HIDE DEF s
  <2> QED
    BY <2>1, <2>2 DEF JobType
<1> HIDE DEF rec
<1>3. job[j].buyer # NoBuyer
  BY <1>1 DEF Funded
<1>4. escrows' = escrows /\ escrows[j].state = "none" /\ budget[j] \in {"held", "gone"}
        /\ budget[j] \in Hold
  BY <1>1, SameEscrows, JobFields DEF JobOK, At
<1>5. JobOK(rec, rec.state, escrows'[j], budget[j])
  BY <1>2, <1>3, <1>4 DEF JobOK, JobPaid, Delivered
<1>6. JobsInv'
  BY <1>1, <1>2, <1>4, <1>5, JobStep, SameHold
<1> QED
  BY <1>1, <1>6, IdleSound DEF IInv

\* A job that moves on while its escrow and its hold stay.
LEMMA MoveOnInv ==
  ASSUME IInv, NEW j \in Jobs, NEW s, NEW pc, s \in JobState,
         pc \in {"none", "auction", "spawned", "executing"}, Push(j, To(j, s, pc)),
         UNCHANGED <<budget, ledgerVars>>,
         JobOK(To(j, s, pc), s, escrows[j], budget[j])
  PROVE  IInv'
<1> DEFINE rec == To(j, s, pc)
<1>1. LedgerInv /\ JobsInv
  BY DEF IInv
<1>2. rec \in JobType /\ rec.state = s
  BY <1>1, ToType
<1>3. escrows' = escrows /\ budget[j] \in Hold
  BY <1>1, SameEscrows, JobFields
<1>4. Push(j, rec) /\ UNCHANGED budget /\ JobOK(rec, rec.state, escrows'[j], budget[j])
  BY <1>2, <1>3
<1> HIDE DEF rec
<1>5. JobsInv'
  BY <1>1, <1>2, <1>3, <1>4, JobStep, SameHold
<1> QED
  BY <1>1, <1>5, IdleSound DEF IInv

LEMMA StartRunInv ==
  ASSUME IInv, NEW j \in Jobs, StartRun(j)
  PROVE  IInv'
<1>1. JobsInv /\ At(j, "spawned") /\ JobOK(job[j], stored[j], escrows[j], budget[j])
  BY JobFields DEF IInv, StartRun
<1>2. "running" \in JobState
  BY DEF JobState, OpenStates
<1> DEFINE rec == To(j, "running", "executing")
<1>3. /\ rec.state = "running" /\ rec.pc = "executing" /\ rec.kind = job[j].kind
      /\ rec.buyer = job[j].buyer /\ rec.members = job[j].members
  BY <1>1, <1>2, ToType
<1> HIDE DEF rec
<1>4. JobOK(rec, "running", escrows[j], budget[j])
  BY <1>1, <1>3 DEF JobOK, JobPaid, At, Delivered
<1> QED
  BY <1>2, <1>4, MoveOnInv DEF rec, StartRun

LEMMA ConsortiumLostInv ==
  ASSUME IInv, NEW j \in Jobs, ConsortiumLost(j)
  PROVE  IInv'
<1>1. /\ JobsInv /\ At(j, "executing") /\ job[j].kind = "consortium"
      /\ JobOK(job[j], stored[j], escrows[j], budget[j])
  BY JobFields DEF IInv, ConsortiumLost
<1>2. "failed" \in JobState
  BY DEF JobState
<1> DEFINE rec == To(j, "failed", "none")
<1>3. rec.state = "failed" /\ rec.pc = "none" /\ rec.kind = "consortium" /\ rec.buyer = job[j].buyer
  BY <1>1, <1>2, ToType
<1> HIDE DEF rec
<1>4. JobOK(rec, "failed", escrows[j], budget[j])
  BY <1>1, <1>3 DEF JobOK, JobPaid, At, Delivered
<1> QED
  BY <1>2, <1>4, MoveOnInv DEF rec, ConsortiumLost

\* cancel and abandon leave the coroutine, the escrow and the hold alone.
LEMMA CancelInv ==
  ASSUME IInv, NEW j \in Jobs, Cancel(j) \/ Abandon(j)
  PROVE  IInv'
<1>1. PICK s \in {"cancelled", "abandoned"} :
        Push(j, To(j, s, job[j].pc)) /\ UNCHANGED <<budget, ledgerVars>>
  BY DEF Cancel, Abandon
<1>2. JobsInv /\ JobOK(job[j], stored[j], escrows[j], budget[j])
  BY JobFields DEF IInv
<1>3. ~At(j, "auction") /\ job[j].state # "failed"
        /\ job[j].pc \in {"none", "auction", "spawned", "executing"}
  BY <1>2, JobFields DEF Cancel, Abandon, Known, JobType
<1>4. s \in JobState
  BY DEF JobState
<1> DEFINE rec == To(j, s, job[j].pc)
<1>5. /\ rec.state = s /\ rec.pc = job[j].pc /\ rec.kind = job[j].kind
      /\ rec.buyer = job[j].buyer /\ rec.members = job[j].members
  BY <1>2, <1>3, <1>4, ToType
<1> HIDE DEF rec
<1>6. Rounding \subseteq Nat => JobPaid(rec, s, escrows[j])
  BY <1>2, <1>3, <1>5 DEF JobOK, JobPaid, Delivered
<1>7. JobOK(rec, s, escrows[j], budget[j])
  BY <1>2, <1>3, <1>5, <1>6 DEF JobOK, Delivered
<1> QED
  BY <1>1, <1>3, <1>4, <1>7, MoveOnInv DEF rec

LEMMA ResumeInv ==
  ASSUME IInv, NEW j \in Jobs, ResumeFunding(j)
  PROVE  /\ IInv' /\ escrows[j].state = "none"
         /\ \E b \in Wallets, a \in Nat \ {0} : LockedFor(j, b, a)
<1> DEFINE rec == To(j, "matched", "spawned")
           b == job[j].buyer
<1>1. /\ LedgerInv /\ JobsInv /\ job[j].state = "paused_funding" /\ Push(j, rec)
      /\ UNCHANGED budget /\ JobOK(job[j], stored[j], escrows[j], budget[j])
  BY JobFields DEF IInv, ResumeFunding
<1>2. PICK w \in job[j].members : CanLock(j, b, Bid[w]) /\ LockForJob(j, b, Bid[w])
  BY DEF ResumeFunding
<1>3. Bid[w] \in Nat /\ Bid[w] > 0 /\ b \in Wallets /\ b # NoBuyer
  BY <1>1, Constants, JobFields DEF JobOK
<1>4. LockedFor(j, b, Bid[w])
  BY <1>1, <1>2, <1>3, LockSound DEF JobOK
<1>5. /\ rec \in JobType /\ rec.state = "matched" /\ rec.pc = "spawned"
      /\ rec.kind = job[j].kind /\ rec.buyer = b
  BY <1>1, ToType DEF JobState, OpenStates
<1> HIDE DEF rec, b
<1>6. /\ LedgerInv' /\ escrows'[j].state = "locked"
      /\ \A i \in Jobs \ {j} : escrows'[i] = escrows[i]
  BY <1>4 DEF LockedFor
<1>7. rec.kind = "single" /\ budget[j] \in {"held", "gone"} /\ escrows[j].state = "none"
        /\ budget[j] \in Hold
  BY <1>1, <1>5, JobFields DEF JobOK
<1>8. JobOK(rec, rec.state, escrows'[j], budget[j])
  BY <1>3, <1>5, <1>6, <1>7 DEF JobOK, JobPaid, Delivered
<1>9. JobsInv'
  BY <1>1, <1>5, <1>6, <1>7, <1>8, JobStep, SameHold
<1> QED
  BY <1>3, <1>4, <1>6, <1>7, <1>9 DEF IInv

\* A coroutine at its settlement: its escrow holds a lock if it has a buyer.
LEMMA AtSettlement ==
  ASSUME IInv, NEW j \in Jobs, At(j, "spawned") \/ At(j, "executing")
  PROVE  /\ escrows[j].state = IF job[j].buyer = NoBuyer THEN "none" ELSE "locked"
         /\ budget[j] \in {"held", "gone"} /\ stored[j] \notin Delivered \cup {"none"}
         /\ Rounding \subseteq Nat /\ job[j].kind = "consortium" /\ job[j].buyer # NoBuyer =>
              SumOver(Bid, job[j].members) <= escrows[j].amount
BY JobFields DEF IInv, JobOK, JobPaid, At

LEMMA SettleInv ==
  ASSUME IInv, NEW j \in Jobs, At(j, "spawned") \/ At(j, "executing"), NEW outcome, NEW shares,
         outcome \in Delivered \cup {"failed", "timeout"}, shares \in [Wallets -> Nat],
         Rounding \subseteq Nat /\ job[j].buyer # NoBuyer /\ outcome \in Delivered =>
           SumOver(shares, Wallets) <= escrows[j].amount,
         Settle(j, outcome, shares)
  PROVE  IInv' /\ Settled(j, outcome, shares)
<1> DEFINE rec == To(j, outcome, "none")
           bg == BudgetAfter(j, outcome)[j]
<1>1. /\ LedgerInv /\ JobsInv /\ Push(j, rec) /\ SettleEscrow(j, outcome, shares)
      /\ budget' = BudgetAfter(j, outcome)
  BY DEF IInv, Settle
<1>2. /\ escrows[j].state = IF job[j].buyer = NoBuyer THEN "none" ELSE "locked"
      /\ budget[j] \in {"held", "gone"}
  BY AtSettlement
<1>3. /\ Settled(j, outcome, shares) /\ LedgerInv'
      /\ \A i \in Jobs \ {j} : escrows'[i] = escrows[i]
  BY <1>1, <1>2, SettleEscrowSound
<1>4. /\ rec \in JobType /\ rec.state = outcome /\ rec.pc = "none" /\ rec.buyer = job[j].buyer
  BY <1>1, ToType DEF JobState, Delivered
<1>5. /\ budget' = [budget EXCEPT ![j] = bg] /\ bg \in Hold
      /\ outcome \in Delivered => bg \in {"charged", "gone"}
  BY <1>1, <1>2, BudgetAfterFacts
<1> HIDE DEF rec, bg
<1>6. \/ escrows'[j].state = "none" /\ rec.buyer = NoBuyer
      \/ /\ escrows'[j].state = "locked" /\ outcome \in Delivered
         /\ ~(Rounding \subseteq Nat)
      \/ escrows'[j].state = "released" /\ outcome \in Delivered
      \/ escrows'[j].state = "refunded" /\ outcome \notin Delivered
  BY <1>2, <1>3, <1>4, SameEscrows DEF Settled
<1>7. outcome \notin {"none", "paused_funding"}
  BY DEF Delivered
<1>8. Rounding \subseteq Nat => JobPaid(rec, rec.state, escrows'[j])
  BY <1>4, <1>6 DEF JobPaid
<1>9. JobOK(rec, rec.state, escrows'[j], bg)
  BY <1>4, <1>5, <1>6, <1>7, <1>8 DEF JobOK
<1>10. JobsInv'
  BY <1>1, <1>3, <1>4, <1>5, <1>9, JobStep
<1> QED
  BY <1>3, <1>10 DEF IInv

LEMMA WinnerGoneInv ==
  ASSUME IInv, NEW j \in Jobs, WinnerGone(j)
  PROVE  IInv' /\ Settled(j, "failed", NoShares)
<1>1. "failed" \notin Delivered /\ NoShares \in [Wallets -> Nat]
  BY DEF Delivered, NoShares
<1> QED
  BY <1>1, SettleInv DEF WinnerGone

\* What the members earned is within the lock, when no lock is below the bids.
LEMMA ResultInLock ==
  ASSUME IInv, NEW j \in Jobs, NEW r \in Results(j), At(j, "executing")
  PROVE  Rounding \subseteq Nat /\ job[j].buyer # NoBuyer /\ r.outcome \in Delivered =>
           SumOver(r.shares, Wallets) <= escrows[j].amount
<1>1. JobsInv /\ LedgerInv
  BY DEF IInv
<1>2. /\ escrows[j].amount \in Nat /\ job[j].members \in SUBSET Providers
      /\ job[j].kind \in {"single", "consortium"}
  BY <1>1, BalanceFields, JobFields DEF LedgerInv
<1>3. SumOver(Bid, job[j].members) \in Nat /\ SumOver(r.shares, Wallets) \in Nat
  <2>1. IsFiniteSet(job[j].members) /\ \A w \in job[j].members : Bid[w] \in Nat
    BY <1>2, Constants, FS_Subset
  <2>2. r.shares \in [Wallets -> Nat]
    BY ResultFacts
  <2> QED
    BY <2>1, <2>2, Finite, SumNat
<1> QED
  BY <1>2, <1>3, ResultFacts, AtSettlement

LEMMA FinishInv ==
  ASSUME IInv, NEW j \in Jobs, NEW r \in Results(j), Finish(j, r)
  PROVE  IInv' /\ Settled(j, r.outcome, r.shares)
BY ResultFacts, ResultInLock, SettleInv DEF Finish

LEMMA CrashAfterSettleInv ==
  ASSUME IInv, NEW j \in Jobs, NEW r \in Results(j), CrashAfterSettle(j, r)
  PROVE  IInv' /\ Settled(j, r.outcome, r.shares)
<1> DEFINE b == BudgetAfter(j, r.outcome)
<1>1. /\ LedgerInv /\ JobsInv /\ At(j, "executing") /\ SettleEscrow(j, r.outcome, r.shares)
      /\ Reboot(b)
  BY DEF IInv, CrashAfterSettle
<1>2. /\ escrows[j].state = IF job[j].buyer = NoBuyer THEN "none" ELSE "locked"
      /\ budget[j] \in {"held", "gone"} /\ stored[j] \notin Delivered \cup {"none"}
  BY <1>1, AtSettlement
<1>3. /\ Settled(j, r.outcome, r.shares) /\ LedgerInv'
      /\ \A i \in Jobs \ {j} : escrows'[i] = escrows[i]
  BY <1>1, <1>2, ResultFacts, SettleEscrowSound
<1>4. /\ b \in [Jobs -> Hold] /\ \A i \in Jobs \ {j} : b[i] = budget[i]
      /\ r.outcome \in Delivered => b[j] \in {"charged", "gone"}
  BY <1>1, <1>2, BudgetAfterFacts
<1> HIDE DEF b
<1>5. \/ escrows'[j].state \in {"none", "locked", "refunded"}
      \/ escrows'[j].state = "released" /\ r.outcome \in Delivered
  BY <1>2, <1>3, SameEscrows DEF Settled
<1>6. ASSUME NEW i \in Jobs
      PROVE  /\ stored[i] = "none" => escrows'[i].state = "none"
             /\ escrows'[i].state \in {"released", "disputed_refunded"} =>
                  b[i] \in {"held", "charged", "gone"}
             /\ Rounding \subseteq Nat /\ stored[i] \in Delivered =>
                  escrows'[i].state \in {"none", "released"}
  <2>1. CASE i = j
    BY <1>2, <1>4, <1>5, <2>1
  <2>2. CASE i # j
    <3>1. escrows'[i] = escrows[i] /\ b[i] = budget[i]
      BY <1>3, <1>4, <2>2
    <3>2. JobOK(job[i], stored[i], escrows[i], budget[i])
      BY <1>1, JobFields
    <3> QED
      BY <3>1, <3>2 DEF JobOK, JobPaid
  <2> QED
    BY <2>1, <2>2
<1>7. JobsInv'
  BY <1>1, <1>4, <1>6, RebootStep
<1> QED
  BY <1>3, <1>7 DEF IInv

LEMMA CrashInMatchInv ==
  ASSUME IInv, NEW j \in Jobs, NEW o \in Offers, CrashInMatch(j, o)
  PROVE  IInv'
<1>1. /\ LedgerInv /\ JobsInv /\ LockPrice(j, o) /\ At(j, "auction") /\ job[j].buyer # NoBuyer
      /\ Reboot(budget) /\ budget \in [Jobs -> Hold]
  BY DEF IInv, CrashInMatch, LockPrice, JobsInv
<1>2. /\ LedgerInv' /\ \A i \in Jobs \ {j} : escrows'[i] = escrows[i]
      /\ escrows'[j].state = "locked"
  BY <1>1, LockPriceSound DEF LockedFor
<1>3. ASSUME NEW i \in Jobs
      PROVE  /\ stored[i] = "none" => escrows'[i].state = "none"
             /\ escrows'[i].state \in {"released", "disputed_refunded"} =>
                  budget[i] \in {"held", "charged", "gone"}
             /\ Rounding \subseteq Nat /\ stored[i] \in Delivered =>
                  escrows'[i].state \in {"none", "released"}
  <2>1. JobOK(job[i], stored[i], escrows[i], budget[i])
    BY <1>1, JobFields
  <2>2. CASE i = j
    BY <1>1, <1>2, <2>1, <2>2 DEF JobOK, At
  <2>3. CASE i # j
    <3>1. escrows'[i] = escrows[i]
      BY <1>2, <2>3
    <3> QED
      BY <2>1, <3>1 DEF JobOK, JobPaid
  <2> QED
    BY <2>2, <2>3
<1>4. JobsInv'
  BY <1>1, <1>3, RebootStep
<1> QED
  BY <1>2, <1>4 DEF IInv

\* The process stops with nothing under way in the ledger.
LEMMA LoadInv ==
  ASSUME IInv, LoadLedger, NEW b, b \in [Jobs -> Hold], Reboot(b),
         \A i \in Jobs : budget[i] \in {"charged", "gone"} => b[i] = budget[i]
  PROVE  IInv'
<1>1. LedgerInv /\ JobsInv /\ escrows' = saved.escrows
  BY DEF IInv, LoadLedger
<1>2. ASSUME NEW i \in Jobs
      PROVE  /\ stored[i] = "none" => escrows'[i].state = "none"
             /\ escrows'[i].state \in {"released", "disputed_refunded"} =>
                  b[i] \in {"held", "charged", "gone"}
             /\ Rounding \subseteq Nat /\ stored[i] \in Delivered =>
                  escrows'[i].state \in {"none", "released"}
  <2>1. JobOK(job[i], stored[i], escrows[i], budget[i])
    BY <1>1, JobFields
  <2>2. \/ escrows'[i] = escrows[i]
        \/ escrows'[i].state = "released" /\ escrows[i].state = "disputed_refunded"
    BY <1>1 DEF LedgerInv, FileBehind
  <2> QED
    BY <2>1, <2>2 DEF JobOK, JobPaid
<1>3. JobsInv'
  BY <1>1, <1>2, RebootStep
<1> QED
  BY <1>1, <1>3, LoadSound DEF IInv

LEMMA RestartInv ==
  ASSUME IInv, Restart \/ \E j \in Jobs : \E r \in Results(j) : CrashInSettle(j, r)
  PROVE  IInv' /\ LoadLedger
<1>1. JobsInv /\ budget \in [Jobs -> Hold]
  BY DEF IInv, JobsInv
<1>2. CASE Restart
  BY <1>1, <1>2, LoadInv DEF Restart
<1>3. ASSUME NEW j \in Jobs, NEW r \in Results(j), CrashInSettle(j, r)
      PROVE  IInv' /\ LoadLedger
  <2> DEFINE b == BudgetAfter(j, r.outcome)
  <2>1. LoadLedger /\ Reboot(b)
    BY <1>3 DEF CrashInSettle
  <2>2. b \in [Jobs -> Hold] /\ \A i \in Jobs : budget[i] \in {"charged", "gone"} => b[i] = budget[i]
    BY <1>1, BudgetAfterFacts
  <2> HIDE DEF b
  <2> QED
    BY <2>1, <2>2, LoadInv
<1> QED
  BY <1>2, <1>3

\* What a dispute does to the ledger: nothing, or it takes back a payment.
Disputed(j) ==
  \/ UNCHANGED ledgerVars
  \/ /\ LedgerInv' /\ escrows[j].state = "released"
     /\ escrows' \in [Jobs -> Escrow] /\ escrows'[j].state = "disputed_refunded"
     /\ \A i \in Jobs \ {j} : escrows'[i] = escrows[i]
     /\ wallets' \in [Wallets -> Balance] /\ Available(wallets') = Available(wallets)

LEMMA DisputeInv ==
  ASSUME IInv, NEW j \in Jobs, Dispute(j)
  PROVE  IInv' /\ Disputed(j)
<1> DEFINE rec == To(j, "disputed_refunded", "none")
<1>1. /\ LedgerInv /\ JobsInv /\ job[j].state \in Delivered /\ Push(j, rec) /\ UNCHANGED budget
      /\ JobOK(job[j], stored[j], escrows[j], budget[j])
  BY JobFields DEF IInv, Dispute
<1>2. /\ rec \in JobType /\ rec.state = "disputed_refunded" /\ rec.pc = "none"
      /\ rec.buyer = job[j].buyer
  BY <1>1, ToType DEF JobState
<1> HIDE DEF rec
<1>3. /\ LedgerInv' /\ Disputed(j) /\ \A i \in Jobs \ {j} : escrows'[i] = escrows[i]
      /\ \/ escrows'[j] = escrows[j]
         \/ escrows[j].state = "released" /\ escrows'[j].state = "disputed_refunded"
  <2>1. CASE job[j].buyer # NoBuyer /\ escrows[j].state = "released"
    <3>1. job[j].buyer \in Wallets /\ ClawBack(j)
      BY <1>1, <2>1, JobFields DEF Dispute
    <3> QED
      BY <1>1, <2>1, <3>1, ClawBackSound DEF Disputed
  <2>2. CASE ~(job[j].buyer # NoBuyer /\ escrows[j].state = "released")
    <3>1. UNCHANGED ledgerVars
      BY <2>2 DEF Dispute
    <3> QED
      BY <1>1, <3>1, IdleSound, SameEscrows DEF Disputed
  <2> QED
    BY <2>1, <2>2
<1>4. Rounding \subseteq Nat => JobPaid(rec, rec.state, escrows'[j])
  BY <1>1, <1>2, <1>3 DEF JobOK, JobPaid, Delivered
<1>5. JobOK(rec, rec.state, escrows'[j], budget[j])
  BY <1>1, <1>2, <1>3, <1>4 DEF JobOK, Delivered
<1>6. budget[j] \in Hold
  BY <1>1, JobFields
<1>7. JobsInv'
  BY <1>1, <1>2, <1>3, <1>5, <1>6, JobStep, SameHold
<1> QED
  BY <1>3, <1>7 DEF IInv

LEMMA HoldExpiresInv ==
  ASSUME IInv, NEW j \in Jobs, HoldExpires(j)
  PROVE  IInv'
<1>1. /\ LedgerInv /\ JobsInv /\ budget[j] = "held" /\ budget' = [budget EXCEPT ![j] = "gone"]
      /\ UNCHANGED <<job, stored, ledgerVars>>
  BY DEF IInv, HoldExpires
<1>2. job' = job /\ stored' = stored /\ escrows' = escrows
  BY <1>1, SameEscrows
<1>3. budget' \in [Jobs -> Hold]
  BY <1>1 DEF JobsInv, Hold
<1>4. ASSUME NEW i \in Jobs PROVE JobOK(job'[i], stored'[i], escrows'[i], budget'[i])
  <2>1. JobOK(job[i], stored[i], escrows[i], budget[i])
    BY <1>1, JobFields
  <2>2. budget'[i] = budget[i] \/ budget'[i] = "gone"
    BY <1>1 DEF JobsInv
  <2> QED
    BY <1>2, <2>1, <2>2 DEF JobOK
<1>5. JobsInv'
  BY <1>1, <1>2, <1>3, <1>4 DEF JobsInv
<1> QED
  BY <1>1, <1>5, IdleSound DEF IInv

\* The bound on money is one on what all wallets hold.
LEMMA FundsAre ==
  ASSUME LedgerInv
  PROVE  Funds = Available(wallets) + Locked(wallets)
<1> DEFINE f == [w \in Wallets |-> wallets[w].available]
           g == [w \in Wallets |-> wallets[w].locked]
           h == [w \in Wallets |-> wallets[w].available + wallets[w].locked]
<1>1. \A w \in Wallets : f[w] \in Nat /\ g[w] \in Nat /\ h[w] = f[w] + g[w]
  BY DEF LedgerInv, SoundLedger, Balance
<1>2. Funds = SumOver(h, Wallets)
  BY DEF Funds
<1>3. Available(wallets) = SumOver(f, Wallets) /\ Locked(wallets) = SumOver(g, Wallets)
  BY DEF Available, Locked
<1> HIDE DEF f, g, h
<1>4. SumOver(h, Wallets) = SumOver(f, Wallets) + SumOver(g, Wallets)
  BY <1>1, Finite, SumPlus
<1> QED
  BY <1>2, <1>3, <1>4

\* What the wallet endpoints change is one balance, by an amount.
Cashed(w, a) ==
  /\ escrows' = escrows /\ wallets' \in [Wallets -> Balance]
  /\ \/ \A v \in Wallets : wallets'[v].available = IF v = w THEN wallets[v].available + a
                                                   ELSE wallets[v].available
     \/ /\ wallets[w].available >= a
        /\ \A v \in Wallets : wallets'[v].available = IF v = w THEN wallets[v].available - a
                                                      ELSE wallets[v].available

LEMMA CashInv ==
  ASSUME IInv, NEW w \in Wallets, NEW a \in Cash, TopUp(w, a) \/ Withdraw(w, a)
  PROVE  IInv' /\ Cashed(w, a) /\ a \in Nat /\ a > 0
<1>1. LedgerInv /\ JobsInv /\ UNCHANGED <<job, stored, budget>>
  BY DEF IInv, TopUp, Withdraw
<1>2. a \in Nat /\ a > 0
  BY ServiceAssumption
<1>3. LedgerInv' /\ Cashed(w, a)
  <2>1. CASE TopUp(w, a)
    <3>1. Available(wallets) + Locked(wallets) + a <= MaxFunds /\ Credit(w, a)
      BY <1>1, <2>1, FundsAre DEF TopUp
    <3> QED
      BY <1>1, <1>2, <3>1, CreditSound DEF Cashed
  <2>2. CASE Withdraw(w, a)
    BY <1>1, <1>2, <2>2, DebitSound DEF Withdraw, Cashed
  <2> QED
    BY <2>1, <2>2
<1>4. JobsInv'
  BY <1>1, <1>3 DEF JobsInv, Cashed
<1> QED
  BY <1>2, <1>3, <1>4 DEF IInv

-----------------------------------------------------------------------------
(* The invariant holds of every run. *)

LEMMA InitInv ==
  ASSUME Init
  PROVE  IInv
<1>1. /\ wallets = [w \in Wallets |-> [available |-> 0, locked |-> 0]] /\ history = wallets
      /\ escrows = [j \in Jobs |-> NoEscrow]
      /\ saved = [wallets |-> wallets, history |-> history, escrows |-> escrows]
      /\ job = [j \in Jobs |-> NoJob] /\ stored = [j \in Jobs |-> "none"]
      /\ budget = [j \in Jobs |-> "none"]
  BY DEF Init, LedgerInit
<1>2. NoEscrow \in Escrow /\ NoEscrow.state = "none"
  BY Finite DEF NoEscrow, Escrow, NoShares
<1>3. /\ wallets \in [Wallets -> Balance] /\ history \in [Wallets -> Books]
      /\ escrows \in [Jobs -> Escrow]
  BY <1>1, <1>2 DEF Balance, Books
<1>4. \A w \in Wallets : wallets[w].locked = SumOver(HeldOf(escrows, w), Jobs)
  <2> SUFFICES ASSUME NEW w \in Wallets PROVE 0 = SumOver(HeldOf(escrows, w), Jobs)
    BY <1>1
  <2>1. \A j \in Jobs : HeldOf(escrows, w)[j] = 0
    BY <1>1, <1>2 DEF HeldOf
  <2>2. SumOver(HeldOf(escrows, w), Jobs) = SumOver(HeldOf(escrows, w), {})
    BY <2>1, SumSkip
  <2> QED
    BY <2>2, SumEmpty
<1>5. Available(wallets) = 0 /\ Locked(wallets) = 0
  <2> DEFINE z == [w \in Wallets |-> 0]
  <2>1. SumOver(z, Wallets) = 0
    <3>1. \A w \in Wallets : z[w] = 0
      OBVIOUS
    <3> HIDE DEF z
    <3>2. SumOver(z, Wallets) = SumOver(z, {})
      BY <3>1, SumSkip
    <3> QED
      BY <3>2, SumEmpty
  <2>2. /\ [w \in Wallets |-> wallets[w].available] = z
        /\ [w \in Wallets |-> wallets[w].locked] = z
    BY <1>1
  <2> HIDE DEF z
  <2> QED
    BY <2>1, <2>2 DEF Available, Locked
<1>6. SoundLedger(wallets, history, escrows)
  BY <1>1, <1>2, <1>3, <1>4, <1>5, ServiceAssumption DEF SoundLedger
<1>7. LedgerInv
  <2>1. saved.wallets = wallets /\ saved.history = history /\ saved.escrows = escrows
    BY <1>1
  <2>2. saved \in [wallets : [Wallets -> Balance], history : [Wallets -> Books],
                   escrows : [Jobs -> Escrow]]
    BY <1>1, <1>3
  <2> QED
    BY <1>6, <2>1, <2>2 DEF LedgerInv, FileBehind
<1>8. JobsInv
  <2>1. NoJob \in JobType /\ NoJob.pc = "none" /\ NoJob.state = "none"
    BY StatesDiffer DEF NoJob, JobType
  <2>2. "none" \in JobState /\ "none" \notin Delivered
    BY StatesDiffer
  <2>3. JobOK(NoJob, "none", NoEscrow, "none")
    BY <1>2, <2>1, <2>2 DEF JobOK, JobPaid, NoJob
  <2>4. "none" \in Hold
    BY DEF Hold
  <2> HIDE DEF NoJob, NoEscrow
  <2> QED
    BY <1>1, <2>1, <2>2, <2>3, <2>4 DEF JobsInv
<1> QED
  BY <1>7, <1>8 DEF IInv

\* Every step keeps it.
LEMMA StepInv ==
  ASSUME IInv, [Next]_vars
  PROVE  IInv'
<1>1. ASSUME NEW j \in Jobs, Refuse(j) PROVE IInv'
  BY <1>1, RefuseInv
<1>2. ASSUME NEW j \in Jobs, NEW b \in Buyers, Submit(j, b) PROVE IInv'
  BY <1>2, SubmitInv
<1>3. ASSUME NEW j \in Jobs, NEW kind \in {"single", "consortium"}, NoMatch(j, kind) PROVE IInv'
  BY <1>3, NoMatchInv
<1>4. ASSUME NEW j \in Jobs, NEW o \in Offers,
             Match(j, o) \/ Underfunded(j, o) \/ CrashInMatch(j, o)
      PROVE  IInv'
  BY <1>4, MatchInv, UnderfundedInv, CrashInMatchInv
<1>5. ASSUME NEW j \in Jobs, StartRun(j) \/ WinnerGone(j) PROVE IInv'
  BY <1>5, StartRunInv, WinnerGoneInv
<1>6. ASSUME NEW j \in Jobs, NEW r \in Results(j),
             Finish(j, r) \/ CrashInSettle(j, r) \/ CrashAfterSettle(j, r)
      PROVE  IInv'
  BY <1>6, FinishInv, RestartInv, CrashAfterSettleInv
<1>7. ASSUME NEW j \in Jobs, ConsortiumLost(j) \/ Cancel(j) \/ Abandon(j) PROVE IInv'
  BY <1>7, ConsortiumLostInv, CancelInv
<1>8. ASSUME NEW j \in Jobs, ResumeFunding(j) \/ Dispute(j) \/ HoldExpires(j) PROVE IInv'
  BY <1>8, ResumeInv, DisputeInv, HoldExpiresInv
<1>9. ASSUME NEW w \in Wallets \ {Treasury}, NEW a \in Cash, TopUp(w, a) \/ Withdraw(w, a)
      PROVE  IInv'
  BY <1>9, CashInv
<1>10. CASE Restart
  BY <1>10, RestartInv
<1>11. CASE UNCHANGED vars
  <2>1. UNCHANGED ledgerVars /\ UNCHANGED <<job, stored, budget>>
    BY <1>11 DEF vars
  <2>2. LedgerInv' /\ escrows' = escrows
    BY <2>1, IdleSound, SameEscrows DEF IInv
  <2> QED
    BY <2>1, <2>2 DEF IInv, JobsInv
<1> QED
  BY <1>1, <1>2, <1>3, <1>4, <1>5, <1>6, <1>7, <1>8, <1>9, <1>10, <1>11 DEF Next

LEMMA Invariant == Spec => []IInv
BY InitInv, StepInv, PTL DEF Spec

LEMMA LocksBacked ==
  ASSUME LedgerInv
  PROVE  LockedIsBacked
<1> SUFFICES ASSUME NEW w \in Wallets
             PROVE  wallets[w].locked
                      = SumOver([j \in Jobs |-> escrows[j].amount],
                                {j \in Jobs : escrows[j].state = "locked" /\ escrows[j].buyer = w})
  BY DEF LockedIsBacked
<1> DEFINE f == [j \in Jobs |-> escrows[j].amount]
           T == {j \in Jobs : escrows[j].state = "locked" /\ escrows[j].buyer = w}
           g == HeldOf(escrows, w)
<1>1. /\ \A x \in T : g[x] = f[x]
      /\ \A x \in Jobs \ T : g[x] = 0
  BY DEF HeldOf
<1>2. T \in SUBSET Jobs
  OBVIOUS
<1>3. wallets[w].locked = SumOver(g, Jobs)
  BY DEF LedgerInv, SoundLedger
<1> HIDE DEF f, g, T
<1>4. SumOver(g, Jobs) = SumOver(f, T)
  BY <1>1, <1>2, SumSkip
<1> QED
  BY <1>3, <1>4 DEF f, T

\* Every variable keeps its type: no balance of a wallet goes below zero, in
\* memory or on file, and no escrow is paid what is not a natural amount.
\* Concerns every method of buyer_ledger.py that takes from a balance.
THEOREM TypeCorrect == Spec => []TypeOK
<1>1. IInv => TypeOK
  BY DEF IInv, LedgerInv, SoundLedger, JobsInv, JobType, Hold, TypeOK, LedgerTypeOK
<1> QED
  BY <1>1, Invariant, PTL

\* What a wallet has locked is what its open escrows hold, and until a dispute
\* every balance is what its entries add up to: locks, releases, splits and
\* refunds of buyer_ledger.py, the crashes between them and the restarts.
THEOREM LedgerAlwaysAddsUp == Spec => []LedgerAddsUp
<1>1. IInv => LedgerAddsUp
  <2> SUFFICES ASSUME IInv PROVE LedgerAddsUp
    OBVIOUS
  <2>1. LockedIsBacked
    BY LocksBacked DEF IInv
  <2>2. (\A j \in Jobs : escrows[j].state # "disputed_refunded") => BalancesVerify
    BY DEF IInv, LedgerInv, SoundLedger, Undisputed, BalancesVerify
  <2> QED
    BY <2>1, <2>2 DEF LedgerAddsUp
<1> QED
  BY <1>1, Invariant, PTL

\* Escrow is released only for a job whose budget hold was charged or had
\* expired: _settle_terminal over its two ledgers, with a crash at any point.
THEOREM PaymentIsCharged == Spec => []PaidIsCharged
<1>1. IInv => PaidIsCharged
  BY DEF IInv, JobsInv, JobOK, PaidIsCharged
<1> QED
  BY <1>1, Invariant, PTL

\* A lock that no coroutine is about to settle belongs to a job a restart
\* interrupted or to a consortium that failed, provided a float sum of bids is
\* never below the bids: cancel, abandon and dispute strand no lock.
THEOREM LocksHaveOwners ==
  ASSUME Rounding \subseteq Nat
  PROVE  Spec => []LockHasOwner
<1>1. IInv => LockHasOwner
  BY DEF IInv, JobsInv, JobOK, JobPaid, LockHasOwner, Orphaned
<1> QED
  BY <1>1, Invariant, PTL

\* A job its store calls delivered has paid its providers or had nothing
\* locked, under the same proviso: _settle_terminal goes before _push_event.
THEOREM DeliveriesArePaid ==
  ASSUME Rounding \subseteq Nat
  PROVE  Spec => []DeliveredIsPaid
<1>1. IInv => DeliveredIsPaid
  BY DEF IInv, JobsInv, JobOK, JobPaid, DeliveredIsPaid
<1> QED
  BY <1>1, Invariant, PTL

-----------------------------------------------------------------------------
(* The refinement: each step of the service is a step of the contract. *)

\* The contract's variables, of wallets ws and escrows es.
Spendable(ws) == [w \in Wallets |-> ws[w].available]
Pots(es)      == [j \in Jobs |-> IF es[j].state = "locked" THEN es[j].amount ELSE 0]
Ended(es)     == {j \in Jobs : es[j].state \notin {"none", "locked"}}

LEMMA ContractTotal ==
  Contract!Total(Spendable(wallets)) = Available(wallets)
    /\ Contract!Total(Spendable(wallets')) = Available(wallets')
<1>1. \A f, S : Contract!SumOver(f, S) = SumOver(f, S)
  BY DEF Contract!SumOver, SumOver, Contract!Units, Units, Contract!Cardinality, Cardinality
<1> QED
  BY <1>1 DEF Contract!Total, Available, Spendable

\* Where a job's pot and its place among the settled come from.
LEMMA PotFacts ==
  ASSUME NEW es \in [Jobs -> Escrow]
  PROVE  /\ Pots(es) \in [Jobs -> Nat]
         /\ \A j \in Jobs : /\ Pots(es)[j] = IF es[j].state = "locked" THEN es[j].amount ELSE 0
                            /\ j \in Ended(es) <=> es[j].state \notin {"none", "locked"}
         /\ Ended(es) \subseteq Jobs
BY DEF Pots, Ended, Escrow

LEMMA SpendableFacts ==
  ASSUME NEW ws \in [Wallets -> Balance]
  PROVE  /\ Spendable(ws) \in [Wallets -> Nat]
         /\ \A w \in Wallets : Spendable(ws)[w] = ws[w].available
BY DEF Spendable, Balance

LEMMA KeptIdle ==
  ASSUME UNCHANGED ledgerVars
  PROVE  UNCHANGED Contract!vars
BY DEF ledgerVars, Contract!vars

LEMMA KeptHold ==
  ASSUME IInv, NEW j \in Jobs, NEW b \in Wallets, NEW a \in Nat, a > 0,
         escrows[j].state = "none", LockedFor(j, b, a)
  PROVE  Contract!Next
<1>1. /\ wallets \in [Wallets -> Balance] /\ wallets' \in [Wallets -> Balance]
      /\ escrows \in [Jobs -> Escrow] /\ escrows' \in [Jobs -> Escrow]
  BY BalanceFields DEF IInv, LedgerInv, LockedFor
<1>2. /\ Pots(escrows)[j] = 0 /\ Pots(escrows')[j] = a
      /\ Pots(escrows') = [Pots(escrows) EXCEPT ![j] = a]
      /\ Ended(escrows') = Ended(escrows) /\ j \notin Ended(escrows)
  BY <1>1 DEF LockedFor, Pots, Ended
<1>3. Spendable(wallets') = [Spendable(wallets) EXCEPT ![b] = @ - a]
  BY DEF LockedFor, Spendable
<1>4. \A w \in Wallets : Spendable(wallets')[w] >= 0
  BY <1>1, SpendableFacts
<1> QED
  BY <1>2, <1>3, <1>4 DEF Contract!Next, Contract!Hold, Pots, Ended, Spendable

LEMMA KeptPayOut ==
  ASSUME IInv, NEW j \in Jobs, escrows[j].state = "locked", PaidOut(j),
         escrows'[j].state \in {"released", "refunded"}
  PROVE  Contract!Next
<1> DEFINE a == escrows[j].amount
<1>1. /\ wallets \in [Wallets -> Balance] /\ wallets' \in [Wallets -> Balance]
      /\ escrows \in [Jobs -> Escrow] /\ escrows' \in [Jobs -> Escrow]
      /\ a > 0
  BY BalanceFields DEF IInv, LedgerInv, SoundLedger, PaidOut
<1>2. /\ Pots(escrows)[j] = a /\ Pots(escrows')[j] = 0
      /\ Pots(escrows') = [Pots(escrows) EXCEPT ![j] = 0]
      /\ Ended(escrows') = Ended(escrows) \cup {j}
  BY <1>1 DEF PaidOut, Pots, Ended
<1>3. \A w \in Wallets : /\ Spendable(wallets')[w] >= 0
                         /\ Spendable(wallets')[w] >= Spendable(wallets)[w]
  BY <1>1, SpendableFacts DEF PaidOut
<1>4. Contract!Total(Spendable(wallets')) = Contract!Total(Spendable(wallets)) + a
  BY ContractTotal DEF PaidOut
<1> QED
  BY <1>1, <1>2, <1>3, <1>4 DEF Contract!Next, Contract!PayOut, Pots, Ended, Spendable

LEMMA KeptCash ==
  ASSUME IInv, LedgerInv', NEW w \in Wallets, NEW a \in Nat, a > 0, Cashed(w, a)
  PROVE  Contract!Next
<1>1. wallets \in [Wallets -> Balance] /\ wallets' \in [Wallets -> Balance]
        /\ escrows' = escrows
  BY BalanceFields DEF IInv, LedgerInv, Cashed
<1>2. \A v \in Wallets : Spendable(wallets')[v] >= 0
  BY <1>1, SpendableFacts
<1>3. \A v \in Wallets \ {w} : wallets'[v].available = wallets[v].available
  BY DEF Cashed
<1>4. Spendable(wallets') = [Spendable(wallets) EXCEPT ![w] = Spendable(wallets')[w]]
  BY <1>3 DEF Spendable
<1>5. \/ Spendable(wallets')[w] > Spendable(wallets)[w]
      \/ Spendable(wallets')[w] < Spendable(wallets)[w]
  BY <1>1, SpendableFacts DEF Cashed
<1> QED
  BY <1>1, <1>2, <1>4, <1>5
     DEF Contract!Next, Contract!Move, Contract!Credit, Contract!Debit, Contract!OnlyBalance,
         Spendable

\* A dispute, or a restart that takes one back.
LEMMA KeptReverse ==
  ASSUME IInv, LedgerInv', Available(wallets') = Available(wallets),
         \A i \in Jobs : \/ escrows'[i] = escrows[i]
                         \/ /\ escrows[i].state \in {"released", "disputed_refunded"}
                            /\ escrows'[i].state \in {"released", "disputed_refunded"},
         \E i \in Jobs : escrows[i].state \in {"released", "disputed_refunded"}
  PROVE  Contract!Next
<1>1. wallets' \in [Wallets -> Balance]
  BY BalanceFields DEF LedgerInv
<1>2. \A w \in Wallets : Spendable(wallets')[w] >= 0
  BY <1>1, SpendableFacts
<1>3. Pots(escrows') = Pots(escrows) /\ Ended(escrows') = Ended(escrows) /\ Ended(escrows) # {}
  BY DEF Pots, Ended
<1>4. Contract!Total(Spendable(wallets')) = Contract!Total(Spendable(wallets))
  BY ContractTotal
<1> QED
  BY <1>2, <1>3, <1>4 DEF Contract!Next, Contract!Move, Contract!Reverse, Pots, Ended, Spendable

\* A settlement pays a pot out or leaves the ledger alone.
LEMMA KeptSettled ==
  ASSUME IInv, NEW j \in Jobs, NEW outcome, NEW shares, Settled(j, outcome, shares)
  PROVE  [Contract!Next]_(Contract!vars)
BY KeptIdle, KeptPayOut DEF Settled

\* A match locks a price or, without a buyer, leaves the ledger alone.
LEMMA KeptLockPrice ==
  ASSUME IInv, NEW j \in Jobs, NEW o \in Offers, LockPrice(j, o)
  PROVE  [Contract!Next]_(Contract!vars)
<1>1. o.price \in Nat /\ o.price > 0
  BY OfferFacts
<1> QED
  BY <1>1, LockPriceSound, KeptIdle, KeptHold

\* A restart finds the ledger as it was, or as it was before disputes.
LEMMA KeptLoad ==
  ASSUME IInv, IInv', LoadLedger
  PROVE  [Contract!Next]_(Contract!vars)
<1>1. /\ wallets' = saved.wallets /\ escrows' = saved.escrows /\ FileBehind
      /\ LedgerInv'
  BY DEF LoadLedger, IInv, LedgerInv
<1>2. CASE Undisputed(escrows)
  <2>1. \A i \in Jobs : escrows'[i] = escrows[i]
    BY <1>1, <1>2 DEF FileBehind, Undisputed
  <2>2. wallets' = wallets
    BY <1>1, <1>2 DEF FileBehind
  <2> QED
    BY <2>1, <2>2 DEF Contract!vars
<1>3. CASE ~Undisputed(escrows)
  <2>1. \A i \in Jobs : \/ escrows'[i] = escrows[i]
                        \/ /\ escrows[i].state \in {"released", "disputed_refunded"}
                           /\ escrows'[i].state \in {"released", "disputed_refunded"}
    BY <1>1 DEF FileBehind
  <2>2. Available(wallets') = Available(wallets)
    BY <1>1 DEF FileBehind
  <2>3. \E i \in Jobs : escrows[i].state \in {"released", "disputed_refunded"}
    BY <1>3 DEF Undisputed
  <2> QED
    BY <1>1, <2>1, <2>2, <2>3, KeptReverse
<1> QED
  BY <1>2, <1>3

LEMMA KeptDispute ==
  ASSUME IInv, IInv', NEW j \in Jobs, Disputed(j)
  PROVE  [Contract!Next]_(Contract!vars)
<1>1. CASE UNCHANGED ledgerVars
  BY <1>1, KeptIdle
<1>2. CASE ~UNCHANGED ledgerVars
  <2>1. /\ LedgerInv' /\ Available(wallets') = Available(wallets)
        /\ escrows[j].state = "released" /\ escrows'[j].state = "disputed_refunded"
        /\ \A i \in Jobs \ {j} : escrows'[i] = escrows[i]
    BY <1>2 DEF Disputed
  <2>2. \A i \in Jobs : \/ escrows'[i] = escrows[i]
                        \/ /\ escrows[i].state \in {"released", "disputed_refunded"}
                           /\ escrows'[i].state \in {"released", "disputed_refunded"}
    BY <2>1
  <2> QED
    BY <2>1, <2>2, KeptReverse
<1> QED
  BY <1>1, <1>2

LEMMA StepKept ==
  ASSUME IInv, IInv', [Next]_vars
  PROVE  [Contract!Next]_(Contract!vars)
<1>1. ASSUME NEW j \in Jobs,
             \/ Refuse(j) \/ (\E b \in Buyers : Submit(j, b))
             \/ (\E kind \in {"single", "consortium"} : NoMatch(j, kind))
             \/ (\E o \in Offers : Underfunded(j, o))
             \/ StartRun(j) \/ ConsortiumLost(j) \/ Cancel(j) \/ Abandon(j) \/ HoldExpires(j)
      PROVE  [Contract!Next]_(Contract!vars)
  <2>1. UNCHANGED ledgerVars
    BY <1>1 DEF Refuse, Submit, NoMatch, Underfunded, StartRun, ConsortiumLost, Cancel, Abandon,
                HoldExpires
  <2> QED
    BY <2>1, KeptIdle
<1>2. ASSUME NEW j \in Jobs, NEW o \in Offers, Match(j, o) \/ CrashInMatch(j, o)
      PROVE  [Contract!Next]_(Contract!vars)
  BY <1>2, KeptLockPrice DEF Match, CrashInMatch
<1>3. ASSUME NEW j \in Jobs, WinnerGone(j)
      PROVE  [Contract!Next]_(Contract!vars)
  BY <1>3, WinnerGoneInv, KeptSettled
<1>4. ASSUME NEW j \in Jobs, NEW r \in Results(j), Finish(j, r) \/ CrashAfterSettle(j, r)
      PROVE  [Contract!Next]_(Contract!vars)
  BY <1>4, FinishInv, CrashAfterSettleInv, KeptSettled
<1>5. ASSUME Restart \/ \E j \in Jobs : \E r \in Results(j) : CrashInSettle(j, r)
      PROVE  [Contract!Next]_(Contract!vars)
  BY <1>5, RestartInv, KeptLoad
<1>6. ASSUME NEW j \in Jobs, ResumeFunding(j)
      PROVE  [Contract!Next]_(Contract!vars)
  <2>1. escrows[j].state = "none" /\ \E b \in Wallets, a \in Nat \ {0} : LockedFor(j, b, a)
    BY <1>6, ResumeInv
  <2>2. PICK b \in Wallets, a \in Nat \ {0} : LockedFor(j, b, a)
    BY <2>1
  <2> QED
    BY <2>1, <2>2, KeptHold
<1>7. ASSUME NEW j \in Jobs, Dispute(j)
      PROVE  [Contract!Next]_(Contract!vars)
  BY <1>7, DisputeInv, KeptDispute
<1>8. ASSUME NEW w \in Wallets \ {Treasury}, NEW a \in Cash, TopUp(w, a) \/ Withdraw(w, a)
      PROVE  [Contract!Next]_(Contract!vars)
  <2>1. LedgerInv' /\ Cashed(w, a) /\ a \in Nat /\ a > 0
    BY <1>8, CashInv DEF IInv
  <2> QED
    BY <2>1, KeptCash
<1>9. CASE UNCHANGED vars
  <2>1. UNCHANGED ledgerVars
    BY <1>9 DEF vars
  <2> QED
    BY <2>1, KeptIdle
<1> QED
  BY <1>1, <1>2, <1>3, <1>4, <1>5, <1>6, <1>7, <1>8, <1>9 DEF Next

\* The service keeps the escrow contract of buyer_ledger.py: a price leaves its
\* buyer before the job runs, waits in a pot nobody else touches, and is paid
\* out once and in full; a dispute only moves money between wallets, and a
\* crash or a restart at any point is none of these or undoes a dispute.
THEOREM EscrowIsKept == Spec => ContractHolds
<1>1. Init => Contract!Init
  <2> SUFFICES ASSUME Init PROVE Contract!Init
    OBVIOUS
  <2>1. wallets \in [Wallets -> Balance] /\ \A j \in Jobs : escrows[j].state = "none"
    BY InitInv, BalanceFields DEF IInv, LedgerInv, Init, LedgerInit, NoEscrow
  <2>2. Spendable(wallets) \in [Wallets -> Nat]
    BY <2>1, SpendableFacts
  <2> QED
    BY <2>1, <2>2 DEF Contract!Init, Spendable
<1>2. IInv /\ IInv' /\ [Next]_vars => [Contract!Next]_(Contract!vars)
  BY StepKept
<1> QED
  BY <1>1, <1>2, Invariant, PTL DEF Spec, ContractHolds, Contract!Spec
=============================================================================
