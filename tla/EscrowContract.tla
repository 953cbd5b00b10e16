--------------------------- MODULE EscrowContract ---------------------------
(***************************************************************************)
(* What core/buyer_ledger.py promises of escrow (its invariants 1 to 5):   *)
(* a job's price leaves its buyer before the job runs, waits in a pot, and *)
(* is paid out once and in full.  Money enters only as a credit and leaves *)
(* only as a debit.                                                        *)
(***************************************************************************)
EXTENDS Naturals, Sums

CONSTANTS Jobs, Wallets

VARIABLES
  balance,  \* what each wallet may spend
  pot,      \* what each job holds in escrow
  settled   \* jobs whose pot was paid out

vars == <<balance, pot, settled>>

Init == /\ balance \in [Wallets -> Nat]
        /\ pot = [j \in Jobs |-> 0]
        /\ settled = {}

Total(b) == SumOver(b, Wallets)

\* What wallet w may spend changes, and nothing else does.
OnlyBalance(w) == balance' = [balance EXCEPT ![w] = balance'[w]]

Credit(w) == balance'[w] > balance[w] /\ OnlyBalance(w)

Debit(w) == balance'[w] < balance[w] /\ OnlyBalance(w)

\* A dispute moves money between wallets, for a job already paid out.
Reverse == settled # {} /\ Total(balance') = Total(balance)

Move == /\ UNCHANGED <<pot, settled>>
        /\ (\E w \in Wallets : Credit(w) \/ Debit(w)) \/ Reverse

Hold(j, w) == /\ pot[j] = 0 /\ pot'[j] > 0
              /\ pot' = [pot EXCEPT ![j] = pot'[j]]
              /\ j \notin settled /\ UNCHANGED settled
              /\ balance' = [balance EXCEPT ![w] = @ - pot'[j]]

\* The whole pot goes to wallets, and no wallet pays for it.
PayOut(j) == /\ pot[j] > 0 /\ pot'[j] = 0
             /\ pot' = [pot EXCEPT ![j] = 0]
             /\ settled' = settled \cup {j}
             /\ \A w \in Wallets : balance'[w] >= balance[w]
             /\ Total(balance') = Total(balance) + pot[j]

\* Balances stay natural: nobody holds or withdraws what is not there.
Next == /\ \A w \in Wallets : balance'[w] >= 0
        /\ \/ Move
           \/ \E j \in Jobs : PayOut(j) \/ \E w \in Wallets : Hold(j, w)

Spec == Init /\ [][Next]_vars
=============================================================================
