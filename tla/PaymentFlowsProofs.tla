------------------------- MODULE PaymentFlowsProofs -------------------------
(***************************************************************************)
(* Proofs about PaymentFlows, for any wallets, requests, threads and       *)
(* withdrawals: its types, that a withdrawal is closed once, that a retry  *)
(* of a charged deposit is credited, and that the books balance.           *)
(*                                                                         *)
(* The argument rests on three facts about the state between the steps:    *)
(* the files are what memory holds; charges are numbered apart and what is *)
(* credited, or about to be, was charged; and what the gateway's store     *)
(* calls a failure was not charged, or its answer was lost.                *)
(***************************************************************************)
EXTENDS PaymentFlows, SumLemmas

\* No call ends with the files behind the memory.
FilesCurrent ==
  files = [wallet |-> wallet, deposits |-> deposits, withdrawals |-> withdrawals]

\* Stripe numbers its charges apart.
ChargesNumbered ==
  /\ IsFiniteSet(charges)
  /\ \A t \in charges : t.id <= Cardinality(charges)
  /\ \A s, t \in charges : s.id = t.id => s = t

\* Whatever was credited, or is answered and about to be, was charged.
CreditsCharged ==
  /\ deposits \subseteq charges
  /\ \A c \in Callers : calls[c].pc = "credit" => calls[c].tx \in charges
  /\ \A k \in Keys : cache[k] \in Charge => cache[k] \in charges

\* A request asked again was charged, and a failure the gateway remembers of a
\* charge that was made is of one that went unanswered.
RefusalsKnown ==
  /\ \A c \in Callers :
       calls[c].pc = "charge" /\ calls[c].again =>
         calls[c].req.key # NoKey /\ \E t \in charges : t.req.key = calls[c].req.key
  /\ \A k \in Keys :
       cache[k] = Failed /\ (\E t \in charges : t.req.key = k) => k \in torn.unanswered

-----------------------------------------------------------------------------
(* Types *)

LEMMA KindsDiffer ==
  /\ \A t \in Charge : t # Idle /\ t # Failed /\ t.req \in Requests /\ t.id \in Nat
  /\ \A r \in Requests : r.amount \in Nat /\ r.wallet \in Wallets /\ r.key \in STRING
  /\ Idle # Failed
<1>1. DOMAIN Idle = {"pc"} /\ DOMAIN Failed = {"id"}
  BY DEF Idle, Failed
<1>2. \A t \in Charge : DOMAIN t = {"id", "req"}
  BY DEF Charge
<1>3. {"pc"} # {"id"} /\ {"id", "req"} # {"id"} /\ {"id", "req"} # {"pc"}
  <2>1. "pc" # "id" /\ "req" # "id" /\ "req" # "pc"
    OBVIOUS
  <2> QED
    BY <2>1
<1>4. \A t \in Charge : t.req \in Requests /\ t.id \in Nat
  BY FlowsAssumption DEF Charge
<1>5. \A r \in Requests : r.amount \in Nat /\ r.wallet \in Wallets /\ r.key \in STRING
  BY RequestsAssumption
<1> QED
  BY <1>1, <1>2, <1>3, <1>4, <1>5

\* What a withdrawal that is not absent holds.
LEMMA WithdrawalFields ==
  ASSUME TypeOK, NEW wid \in Wids, withdrawals[wid].state # "none"
  PROVE  /\ withdrawals[wid].wallet \in Wallets
         /\ withdrawals[wid].amount \in Withdrawn /\ withdrawals[wid].amount \in Nat
         /\ withdrawals[wid] \in [state : {"pending", "paid", "cancelled"},
                                  wallet : Wallets, amount : Withdrawn]
<1>1. withdrawals[wid] \in Withdrawal /\ withdrawals[wid] # NoWithdrawal
  BY DEF TypeOK, NoWithdrawal
<1> QED
  BY <1>1, FlowsAssumption DEF Withdrawal

LEMMA PlusMinusType ==
  ASSUME TypeOK, NEW w \in Wallets, NEW a \in Nat
  PROVE  /\ Plus(w, a) \in [Wallets -> Nat]
         /\ wallet[w] >= a => Minus(w, a) \in [Wallets -> Nat]
BY DEF TypeOK, Plus, Minus

LEMMA ClosedType ==
  ASSUME TypeOK, NEW wid \in Wids, withdrawals[wid].state = "pending",
         NEW s \in {"paid", "cancelled"}
  PROVE  State(wid, s) \in [Wids -> Withdrawal]
<1>1. [withdrawals[wid] EXCEPT !.state = s]
        \in [state : {"pending", "paid", "cancelled"}, wallet : Wallets, amount : Withdrawn]
  BY WithdrawalFields
<1> QED
  BY <1>1 DEF State, TypeOK, Withdrawal

\* A process that starts has typed files, and an idle thread for each caller.
LEMMA BootType ==
  ASSUME TypeOK, Boot, files' \in [wallet : [Wallets -> Nat], deposits : SUBSET Charge,
                                   withdrawals : [Wids -> Withdrawal]],
         torn' \in [twice : Nat, lost : Nat, unanswered : SUBSET Keys]
  PROVE  TypeOK'
BY DEF TypeOK, Boot, Call

LEMMA GapType ==
  ASSUME TypeOK, NEW op, NEW moved \in [Wallets -> Nat], NEW fate \in {"twice", "lost"},
         NEW amount \in Nat, Gap(op, moved, fate, amount)
  PROVE  TypeOK'
<1>1. files' \in [wallet : [Wallets -> Nat], deposits : SUBSET Charge,
                  withdrawals : [Wids -> Withdrawal]]
  BY DEF Gap, TypeOK
<1>2. torn' \in [twice : Nat, lost : Nat, unanswered : SUBSET Keys]
  BY DEF Gap, TypeOK
<1> QED
  BY <1>1, <1>2, BootType DEF Gap

\* A charge and its answer.
LEMMA AcceptType ==
  ASSUME TypeOK, NEW r \in Requests, NEW t \in Charge, Accept(r, t)
  PROVE  charges' \subseteq Charge
BY DEF TypeOK, Accept

LEMMA RememberType ==
  ASSUME TypeOK, NEW r \in Requests, NEW answer \in Charge \cup {Failed}, Remember(r, answer)
  PROVE  cache' \in [Keys -> Charge \cup {Failed, Idle}]
BY DEF TypeOK, Remember, Keys

\* The call of a thread, by where it is.
LEMMA CallFields ==
  ASSUME TypeOK, NEW c \in Callers
  PROVE  /\ calls[c].pc \in {"charge", "refused"} =>
              /\ calls[c].req \in Requests /\ calls[c].again \in BOOLEAN
              /\ calls[c] \in [pc : {"charge", "refused"}, req : Requests, again : BOOLEAN]
         /\ calls[c].pc = "credit" => calls[c].tx \in Charge
         /\ calls[c].pc \in {"payout", "complete"} =>
              /\ calls[c].wid \in Wids
              /\ calls[c] \in [pc : {"payout", "complete"}, wid : Wids]
<1>1. calls[c] \in Call
  BY DEF TypeOK
<1> QED
  BY <1>1 DEF Call, Idle

LEMMA DepositType ==
  ASSUME TypeOK, NEW c \in Callers, NEW r \in Requests, Deposit(c, r)
  PROVE  TypeOK'
<1> DEFINE known == IF r.key = NoKey THEN Idle ELSE cache[r.key]
           again == Charged(r) # {}
           where == CASE known = Idle   -> [pc |-> "charge", req |-> r, again |-> again]
                      [] known = Failed -> [pc |-> "refused", req |-> r, again |-> again]
                      [] OTHER          -> [pc |-> "credit", tx |-> known]
<1>1. known \in Charge \cup {Failed, Idle}
  BY RequestsAssumption DEF TypeOK, Keys
<1>2. calls' = [calls EXCEPT ![c] = where]
  BY DEF Deposit
<1>3. where \in Call
  <2> HIDE DEF known
  <2> QED
    BY <1>1, KindsDiffer DEF Call
<1> HIDE DEF where
<1> QED
  BY <1>2, <1>3 DEF TypeOK, Deposit, ledger, gateway

LEMMA ChargeType ==
  ASSUME TypeOK, NEW c \in Callers, Accepted(c) \/ Declined(c) \/ Unanswered(c)
  PROVE  TypeOK'
<1> DEFINE r == calls[c].req
<1>1. r \in Requests /\ calls[c] \in [pc : {"charge", "refused"}, req : Requests, again : BOOLEAN]
  BY CallFields DEF Accepted, Declined, Unanswered
<1>2. [calls[c] EXCEPT !.pc = "refused"] \in Call
  BY <1>1 DEF Call
<1>3. CASE Accepted(c)
  <2>1. PICK t \in Charge : /\ Accept(r, t) /\ Remember(r, t)
                            /\ calls' = [calls EXCEPT ![c] = [pc |-> "credit", tx |-> t]]
    BY <1>3 DEF Accepted
  <2>2. charges' \subseteq Charge /\ cache' \in [Keys -> Charge \cup {Failed, Idle}]
    BY <1>1, <2>1, AcceptType, RememberType
  <2>3. calls' \in [Callers -> Call]
    BY <2>1 DEF TypeOK, Call
  <2> QED
    BY <1>3, <2>2, <2>3 DEF TypeOK, Accepted, ledger
<1>4. CASE Declined(c)
  <2>1. cache' \in [Keys -> Charge \cup {Failed, Idle}]
    BY <1>1, <1>4, RememberType DEF Declined
  <2>2. calls' \in [Callers -> Call]
    BY <1>2, <1>4 DEF TypeOK, Declined
  <2> QED
    BY <1>4, <2>1, <2>2 DEF TypeOK, Declined, ledger
<1>5. CASE Unanswered(c)
  <2>1. charges' \subseteq Charge
    BY <1>1, <1>5, AcceptType DEF Unanswered
  <2>2. cache' \in [Keys -> Charge \cup {Failed, Idle}]
    BY <1>1, <1>5, RememberType DEF Unanswered
  <2>3. calls' \in [Callers -> Call]
    BY <1>2, <1>5 DEF TypeOK, Unanswered
  <2>4. torn' \in [twice : Nat, lost : Nat, unanswered : SUBSET Keys]
    BY <1>5 DEF TypeOK, Unanswered
  <2> QED
    BY <1>5, <2>1, <2>2, <2>3, <2>4 DEF TypeOK, Unanswered
<1> QED
  BY <1>3, <1>4, <1>5

\* A call that ends with typed memory ends with typed files.
LEMMA SaveType ==
  ASSUME TypeOK, wallet' \in [Wallets -> Nat], deposits' \subseteq Charge,
         withdrawals' \in [Wids -> Withdrawal], Save
  PROVE  files' \in [wallet : [Wallets -> Nat], deposits : SUBSET Charge,
                     withdrawals : [Wids -> Withdrawal]]
BY DEF Save

LEMMA CreditType ==
  ASSUME TypeOK, NEW c \in Callers, Credit(c) \/ CrashInCredit(c)
  PROVE  TypeOK'
<1> DEFINE t == calls[c].tx
           r == t.req
<1>1. t \in Charge /\ r \in Requests /\ r.wallet \in Wallets /\ r.amount \in Nat
  BY CallFields, KindsDiffer DEF Credit, CrashInCredit
<1>2. Plus(r.wallet, r.amount) \in [Wallets -> Nat]
  BY <1>1, PlusMinusType
<1>3. CASE Credit(c)
  <2>1. calls' \in [Callers -> Call]
    BY <1>3 DEF Credit, Return, TypeOK, Call
  <2>2. CASE New(t)
    <3>1. wallet' \in [Wallets -> Nat] /\ deposits' \subseteq Charge
            /\ withdrawals' \in [Wids -> Withdrawal] /\ Save
      BY <1>1, <1>2, <1>3, <2>2 DEF Credit, TypeOK
    <3>2. files' \in [wallet : [Wallets -> Nat], deposits : SUBSET Charge,
                      withdrawals : [Wids -> Withdrawal]]
      BY <3>1, SaveType
    <3> QED
      BY <1>3, <2>1, <3>1, <3>2 DEF Credit, TypeOK, gateway
  <2>3. CASE ~New(t)
    BY <1>3, <2>1, <2>3 DEF Credit, TypeOK, gateway
  <2> QED
    BY <2>2, <2>3
<1>4. CASE CrashInCredit(c)
  BY <1>1, <1>2, <1>4, GapType DEF CrashInCredit
<1> QED
  BY <1>3, <1>4

LEMMA RequestType ==
  ASSUME TypeOK, NEW c \in Callers, NEW wid \in Wids, NEW w \in Wallets, NEW a \in Withdrawn,
         RequestWithdrawal(c, wid, w, a) \/ CrashInRequest(c, wid, w, a)
  PROVE  TypeOK'
<1>1. a \in Nat /\ wallet[w] >= a
  BY FlowsAssumption DEF RequestWithdrawal, CrashInRequest, MayRequest
<1>2. Minus(w, a) \in [Wallets -> Nat]
  BY <1>1, PlusMinusType
<1>3. CASE RequestWithdrawal(c, wid, w, a)
  <2>1. [state |-> "pending", wallet |-> w, amount |-> a] \in Withdrawal
    BY DEF Withdrawal
  <2>2. wallet' \in [Wallets -> Nat] /\ deposits' \subseteq Charge
          /\ withdrawals' \in [Wids -> Withdrawal] /\ Save
    BY <1>2, <1>3, <2>1 DEF RequestWithdrawal, TypeOK
  <2>3. calls' \in [Callers -> Call]
    BY <1>3 DEF RequestWithdrawal, TypeOK, Call
  <2>4. files' \in [wallet : [Wallets -> Nat], deposits : SUBSET Charge,
                    withdrawals : [Wids -> Withdrawal]]
    BY <2>2, SaveType
  <2> QED
    BY <1>3, <2>2, <2>3, <2>4 DEF RequestWithdrawal, TypeOK, gateway
<1>4. CASE CrashInRequest(c, wid, w, a)
  BY <1>1, <1>2, <1>4, GapType DEF CrashInRequest
<1> QED
  BY <1>3, <1>4

LEMMA PayoutType ==
  ASSUME TypeOK, NEW c \in Callers, Payout(c)
  PROVE  TypeOK'
<1>1. calls[c].wid \in Wids /\ calls[c] \in [pc : {"payout", "complete"}, wid : Wids]
  BY CallFields DEF Payout
<1>2. [calls[c] EXCEPT !.pc = "complete"] \in Call /\ Idle \in Call
  BY <1>1 DEF Call
<1>3. calls' \in [Callers -> Call]
  BY <1>2 DEF Payout, Return, TypeOK
<1>4. sent' \subseteq Wids \X {"gateway", "hand"}
  BY <1>1 DEF Payout, TypeOK
<1> QED
  BY <1>3, <1>4 DEF Payout, TypeOK, ledger

\* Closing a withdrawal: paid automatically, paid by hand, cancelled.
LEMMA PaidType ==
  ASSUME TypeOK, NEW wid \in Wids, MayClose(wid), ToPaid(wid)
  PROVE  /\ wallet' \in [Wallets -> Nat] /\ deposits' \subseteq Charge
         /\ withdrawals' \in [Wids -> Withdrawal]
         /\ files' \in [wallet : [Wallets -> Nat], deposits : SUBSET Charge,
                        withdrawals : [Wids -> Withdrawal]]
<1>1. wallet' \in [Wallets -> Nat] /\ deposits' \subseteq Charge
        /\ withdrawals' \in [Wids -> Withdrawal] /\ Save
  BY ClosedType DEF MayClose, ToPaid, TypeOK
<1> QED
  BY <1>1, SaveType

LEMMA CloseType ==
  ASSUME TypeOK,
         \/ \E c \in Callers : CompletePayout(c)
         \/ \E wid \in Wids : CompleteByHand(wid) \/ CancelWithdrawal(wid) \/ CrashInCancel(wid)
  PROVE  TypeOK'
<1>1. ASSUME NEW c \in Callers, CompletePayout(c) PROVE TypeOK'
  <2>1. calls[c].wid \in Wids
    BY <1>1, CallFields DEF CompletePayout
  <2>2. calls' \in [Callers -> Call]
    BY <1>1 DEF CompletePayout, Return, TypeOK, Call
  <2>3. CASE Sure /\ MayClose(calls[c].wid)
    BY <1>1, <2>1, <2>2, <2>3, PaidType DEF CompletePayout, TypeOK, gateway
  <2>4. CASE ~(Sure /\ MayClose(calls[c].wid))
    BY <1>1, <2>2, <2>4 DEF CompletePayout, TypeOK, gateway
  <2> QED
    BY <2>3, <2>4
<1>2. ASSUME NEW wid \in Wids, CompleteByHand(wid) PROVE TypeOK'
  BY <1>2, PaidType DEF CompleteByHand, TypeOK
<1>3. ASSUME NEW wid \in Wids, MayClose(wid)
      PROVE  Returned(wid) \in [Wallets -> Nat] /\ withdrawals[wid].amount \in Nat
  BY <1>3, WithdrawalFields, PlusMinusType DEF MayClose, Returned
<1>4. ASSUME NEW wid \in Wids, CancelWithdrawal(wid) PROVE TypeOK'
  <2>1. wallet' \in [Wallets -> Nat] /\ deposits' \subseteq Charge
          /\ withdrawals' \in [Wids -> Withdrawal] /\ Save
    BY <1>3, <1>4, ClosedType DEF CancelWithdrawal, MayClose, TypeOK
  <2>2. files' \in [wallet : [Wallets -> Nat], deposits : SUBSET Charge,
                    withdrawals : [Wids -> Withdrawal]]
    BY <2>1, SaveType
  <2> QED
    BY <1>4, <2>1, <2>2 DEF CancelWithdrawal, TypeOK, gateway
<1>5. ASSUME NEW wid \in Wids, CrashInCancel(wid) PROVE TypeOK'
  BY <1>3, <1>5, GapType DEF CrashInCancel
<1> QED
  BY <1>1, <1>2, <1>4, <1>5

LEMMA TypeStep == TypeOK /\ [Next]_vars => TypeOK'
<1> SUFFICES ASSUME TypeOK, [Next]_vars PROVE TypeOK'
  OBVIOUS
<1>1. CASE UNCHANGED vars
  BY <1>1 DEF vars, TypeOK
<1>2. ASSUME NEW k \in Keys, Evict(k) PROVE TypeOK'
  BY <1>2 DEF Evict, TypeOK, ledger
<1>3. ASSUME Restart PROVE TypeOK'
  BY <1>3, BootType DEF Restart, TypeOK
<1> QED
  BY <1>1, <1>2, <1>3, DepositType, ChargeType, CreditType, RequestType, PayoutType, CloseType
  DEF Next

\* Every field of the flows, the calls, the gateway's store and the two files
\* has its type, whatever stops and starts.  States TypeOK of PaymentFlows.
THEOREM TypeCorrect == Spec => []TypeOK
<1>1. ASSUME Init PROVE TypeOK
  <2>1. wallet \in [Wallets -> Nat] /\ deposits \subseteq Charge /\ charges \subseteq Charge
          /\ withdrawals \in [Wids -> Withdrawal] /\ calls \in [Callers -> Call]
    BY <1>1, FlowsAssumption DEF Init, Withdrawal, Call
  <2>2. files \in [wallet : [Wallets -> Nat], deposits : SUBSET Charge,
                   withdrawals : [Wids -> Withdrawal]]
    BY <1>1, <2>1 DEF Init
  <2>3. torn \in [twice : Nat, lost : Nat, unanswered : SUBSET Keys]
    BY <1>1 DEF Init
  <2>4. cache \in [Keys -> Charge \cup {Failed, Idle}]
    BY <1>1 DEF Init
  <2> QED
    BY <1>1, <2>1, <2>2, <2>3, <2>4 DEF Init, TypeOK
<1> QED
  BY <1>1, TypeStep, PTL DEF Spec
-----------------------------------------------------------------------------
(* A withdrawal is closed once *)

\* Doubt begins with a restart, which ends the payouts under way.
NoPayoutInDoubt == doubt => \A c \in Callers : calls[c].pc # "payout"

LEMMA FilesStep == FilesCurrent /\ [Next]_vars => FilesCurrent'
<1> SUFFICES ASSUME FilesCurrent, [Next]_vars PROVE FilesCurrent'
  OBVIOUS
<1>1. CASE UNCHANGED vars
  BY <1>1 DEF vars, FilesCurrent
<1>2. ASSUME NEW c \in Callers, NEW r \in Requests, Deposit(c, r) PROVE FilesCurrent'
  BY <1>2 DEF Deposit, ledger, FilesCurrent
<1>3. ASSUME NEW c \in Callers, Accepted(c) \/ Declined(c) \/ Unanswered(c) \/ Payout(c)
      PROVE  FilesCurrent'
  BY <1>3 DEF Accepted, Declined, Unanswered, Payout, ledger, FilesCurrent
<1>4. ASSUME NEW c \in Callers, Credit(c) PROVE FilesCurrent'
  BY <1>4 DEF Credit, Save, FilesCurrent
<1>5. ASSUME NEW op, NEW moved, NEW fate, NEW amount, Gap(op, moved, fate, amount)
      PROVE  FilesCurrent'
  BY <1>5 DEF Gap, Boot, FilesCurrent
<1>6. ASSUME NEW c \in Callers, CompletePayout(c) PROVE FilesCurrent'
  BY <1>6 DEF CompletePayout, ToPaid, Save, FilesCurrent
<1>7. ASSUME NEW c \in Callers, NEW wid \in Wids, NEW w \in Wallets, NEW a \in Withdrawn,
             RequestWithdrawal(c, wid, w, a)
      PROVE  FilesCurrent'
  BY <1>7 DEF RequestWithdrawal, Save, FilesCurrent
<1>8. ASSUME NEW wid \in Wids, CompleteByHand(wid) \/ CancelWithdrawal(wid) PROVE FilesCurrent'
  BY <1>8 DEF CompleteByHand, CancelWithdrawal, ToPaid, Save, FilesCurrent
<1>9. ASSUME NEW k \in Keys, Evict(k) PROVE FilesCurrent'
  BY <1>9 DEF Evict, ledger, FilesCurrent
<1>10. ASSUME Restart PROVE FilesCurrent'
  BY <1>10 DEF Restart, Boot, FilesCurrent
<1> QED
  BY <1>1, <1>2, <1>3, <1>4, <1>5, <1>6, <1>7, <1>8, <1>9, <1>10
  DEF Next, CrashInCredit, CrashInRequest, CrashInCancel

LEMMA DoubtStep == TypeOK /\ NoPayoutInDoubt /\ [Next]_vars => NoPayoutInDoubt'
<1> SUFFICES ASSUME TypeOK, NoPayoutInDoubt, [Next]_vars, NEW c \in Callers, doubt'
             PROVE  calls'[c].pc # "payout"
  BY DEF NoPayoutInDoubt
<1>1. ASSUME NEW d \in Callers, NEW call, call.pc # "payout",
             calls' = [calls EXCEPT ![d] = call], doubt' = doubt
      PROVE  calls'[c].pc # "payout"
  <2>1. calls[c].pc # "payout"
    BY <1>1 DEF NoPayoutInDoubt
  <2>2. calls'[c] = IF c = d THEN call ELSE calls[c]
    BY <1>1 DEF TypeOK
  <2> QED
    BY <1>1, <2>1, <2>2
<1>2. CASE UNCHANGED vars
  BY <1>2 DEF vars, NoPayoutInDoubt
<1>3. ASSUME Boot PROVE calls'[c].pc # "payout"
  BY <1>3 DEF Boot, Idle
<1>4. ASSUME NEW d \in Callers, NEW r \in Requests, Deposit(d, r) PROVE calls'[c].pc # "payout"
  <2> DEFINE known == IF r.key = NoKey THEN Idle ELSE cache[r.key]
             again == Charged(r) # {}
             where == CASE known = Idle   -> [pc |-> "charge", req |-> r, again |-> again]
                        [] known = Failed -> [pc |-> "refused", req |-> r, again |-> again]
                        [] OTHER          -> [pc |-> "credit", tx |-> known]
  <2>1. where.pc # "payout"
    <3> HIDE DEF known
    <3> QED
      OBVIOUS
  <2>2. calls' = [calls EXCEPT ![d] = where] /\ doubt' = doubt
    BY <1>4 DEF Deposit, ledger
  <2> HIDE DEF where
  <2> QED
    BY <1>1, <2>1, <2>2
<1>5. ASSUME NEW d \in Callers, Accepted(d) \/ Declined(d) \/ Unanswered(d) \/ Payout(d)
      PROVE  calls'[c].pc # "payout"
  <2>1. calls[d].pc \in {"charge", "payout"}
    BY <1>5 DEF Accepted, Declined, Unanswered, Payout
  <2>2. [calls[d] EXCEPT !.pc = "refused"].pc # "payout"
          /\ [calls[d] EXCEPT !.pc = "complete"].pc # "payout" /\ Idle.pc # "payout"
    BY <2>1, CallFields DEF Idle
  <2>3. \E call : /\ calls' = [calls EXCEPT ![d] = call] /\ call.pc # "payout"
                  /\ doubt' = doubt
    <3>1. CASE Accepted(d)
      BY <1>5, <3>1 DEF Accepted, ledger
    <3>2. CASE Declined(d) \/ Unanswered(d)
      BY <2>2, <3>2 DEF Declined, Unanswered, ledger
    <3>3. CASE Payout(d)
      BY <2>2, <3>3 DEF Payout, Return, ledger
    <3> QED
      BY <1>5, <3>1, <3>2, <3>3
  <2> QED
    BY <1>1, <2>3
<1>6. ASSUME NEW d \in Callers, Credit(d) \/ CompletePayout(d) PROVE calls'[c].pc # "payout"
  <2>1. Idle.pc # "payout"
    BY DEF Idle
  <2> QED
    BY <1>1, <1>6, <2>1 DEF Credit, CompletePayout, Return
<1>7. ASSUME NEW d \in Callers, NEW wid \in Wids, NEW w \in Wallets, NEW a \in Withdrawn,
             RequestWithdrawal(d, wid, w, a)
      PROVE  calls'[c].pc # "payout"
  BY <1>7 DEF RequestWithdrawal, MayRequest, Sure
<1>8. ASSUME NEW wid \in Wids, CompleteByHand(wid) \/ CancelWithdrawal(wid)
      PROVE  calls'[c].pc # "payout"
  BY <1>8 DEF CompleteByHand, CancelWithdrawal, NoPayoutInDoubt
<1>9. ASSUME NEW k \in Keys, Evict(k) PROVE calls'[c].pc # "payout"
  BY <1>9 DEF Evict, ledger, NoPayoutInDoubt
<1> QED
  BY <1>2, <1>3, <1>4, <1>5, <1>6, <1>7, <1>8, <1>9
  DEF Next, CrashInCredit, CrashInRequest, CrashInCancel, Gap, Restart

\* What one step may do to the withdrawals and to the payouts.
MovesOn ==
  /\ \A wid \in InState({"paid", "cancelled"}) : withdrawals'[wid] = withdrawals[wid]
  /\ doubt => /\ sent' = sent
              /\ \A wid \in Wids : withdrawals'[wid] # withdrawals[wid]
                                     => withdrawals'[wid].state = "cancelled"

LEMMA StepMovesOn ==
  ASSUME TypeOK, FilesCurrent, NoPayoutInDoubt, Next
  PROVE  MovesOn
<1>1. ASSUME withdrawals' = withdrawals, sent' = sent PROVE MovesOn
  BY <1>1 DEF MovesOn, InState
<1>2. ASSUME NEW c \in Callers, Payout(c) PROVE MovesOn
  BY <1>2 DEF Payout, ledger, NoPayoutInDoubt, MovesOn, InState
<1>3. ASSUME NEW c \in Callers, NEW wid \in Wids, NEW w \in Wallets, NEW a \in Withdrawn,
             RequestWithdrawal(c, wid, w, a)
      PROVE  MovesOn
  BY <1>3 DEF RequestWithdrawal, MayRequest, Sure, NoWithdrawal, TypeOK, MovesOn, InState
<1>4. ASSUME NEW wid \in Wids, MayClose(wid), Sure, ToPaid(wid) PROVE MovesOn
  BY <1>4 DEF MayClose, Sure, ToPaid, State, TypeOK, MovesOn, InState
<1>5. ASSUME NEW c \in Callers, CompletePayout(c) PROVE MovesOn
  <2>1. calls[c].wid \in Wids
    BY <1>5, CallFields DEF CompletePayout
  <2> QED
    BY <1>1, <1>4, <1>5, <2>1 DEF CompletePayout, gateway
<1>6. ASSUME NEW wid \in Wids, CompleteByHand(wid) PROVE MovesOn
  BY <1>4, <1>6 DEF CompleteByHand
<1>7. ASSUME NEW wid \in Wids, CancelWithdrawal(wid) PROVE MovesOn
  <2>1. [withdrawals[wid] EXCEPT !.state = "cancelled"].state = "cancelled"
    BY <1>7, WithdrawalFields DEF CancelWithdrawal, MayClose
  <2> QED
    BY <1>7, <2>1 DEF CancelWithdrawal, MayClose, State, gateway, TypeOK, MovesOn, InState
<1>8. ASSUME NEW op, NEW moved, NEW fate, NEW amount, Gap(op, moved, fate, amount) PROVE MovesOn
  BY <1>1, <1>8 DEF Gap, Boot, FilesCurrent
<1>9. ASSUME Restart PROVE MovesOn
  BY <1>1, <1>9 DEF Restart, Boot, FilesCurrent
<1>10. ASSUME NEW c \in Callers,
              \/ Accepted(c) \/ Declined(c) \/ Unanswered(c) \/ Credit(c)
              \/ \E r \in Requests : Deposit(c, r)
       PROVE  MovesOn
  BY <1>1, <1>10 DEF Accepted, Declined, Unanswered, Credit, Deposit, ledger, gateway
<1>11. ASSUME NEW k \in Keys, Evict(k) PROVE MovesOn
  BY <1>1, <1>11 DEF Evict, ledger
<1> QED
  BY <1>2, <1>3, <1>5, <1>6, <1>7, <1>8, <1>9, <1>10, <1>11
  DEF Next, CrashInCredit, CrashInRequest, CrashInCancel

\* A withdrawal is closed once, across every call, thread, crash and restart,
\* and in doubt no cash leaves.  States WithdrawalsMoveOn of PaymentFlows.
THEOREM WithdrawalsAlwaysMoveOn == Spec => WithdrawalsMoveOn
<1> DEFINE I == TypeOK /\ FilesCurrent /\ NoPayoutInDoubt
<1>1. Init => FilesCurrent /\ NoPayoutInDoubt
  BY DEF Init, FilesCurrent, NoPayoutInDoubt
<1>2. Spec => [](FilesCurrent /\ NoPayoutInDoubt)
  BY <1>1, FilesStep, DoubtStep, TypeCorrect, PTL DEF Spec
<1>3. I /\ [Next]_vars => [MovesOn]_vars
  BY StepMovesOn
<1> QED
  BY <1>2, <1>3, TypeCorrect, PTL DEF Spec, WithdrawalsMoveOn, MovesOn
-----------------------------------------------------------------------------
(* What is credited was charged, and a charged retry is credited *)

ChargesInv == ChargesNumbered /\ CreditsCharged /\ RefusalsKnown /\ RetriesAreCredited

\* An accepted request leaves the charges numbered, with one for the request.
LEMMA AcceptNumbers ==
  ASSUME TypeOK, ChargesNumbered, NEW r \in Requests, NEW t \in Charge, Accept(r, t)
  PROVE  /\ ChargesNumbered' /\ charges \subseteq charges' /\ t \in charges'
         /\ \A u \in charges' : u \in charges \/ u.req = r
<1>1. IsFiniteSet(charges) /\ Cardinality(charges) \in Nat
  BY FS_CardinalityType DEF ChargesNumbered
<1>2. CASE Charged(r) # {}
  <2>1. charges' = charges /\ t \in charges
    BY <1>2 DEF Accept, Charged
  <2> QED
    BY <2>1 DEF ChargesNumbered
<1>3. CASE Charged(r) = {}
  <2>1. t = [id |-> Cardinality(charges) + 1, req |-> r] /\ charges' = charges \cup {t}
    BY <1>3 DEF Accept
  <2>2. t.id = Cardinality(charges) + 1 /\ t.req = r
    BY <2>1
  <2>3. \A u \in charges : u.id < t.id /\ u.id \in Nat
    BY <1>1, <2>2, KindsDiffer DEF ChargesNumbered, TypeOK
  <2>4. t \notin charges
    BY <1>1, <2>2, <2>3
  <2>5. IsFiniteSet(charges') /\ Cardinality(charges') = Cardinality(charges) + 1
    BY <1>1, <2>1, <2>4, FS_AddElement
  <2>6. \A u \in charges' : u.id <= Cardinality(charges')
    BY <1>1, <2>1, <2>2, <2>3, <2>5
  <2>7. \A u, v \in charges' : u.id = v.id => u = v
    BY <1>1, <2>1, <2>2, <2>3 DEF ChargesNumbered
  <2> QED
    BY <2>1, <2>2, <2>5, <2>6, <2>7 DEF ChargesNumbered
<1> QED
  BY <1>2, <1>3

\* What was charged for a request has its key, and stays charged.
LEMMA ChargedFacts ==
  ASSUME TypeOK, NEW r \in Requests
  PROVE  /\ Charged(r) # {} <=> r.key # NoKey /\ \E t \in charges : t.req.key = r.key
         /\ r.key # NoKey => r.key \in Keys
BY DEF Charged, Keys

LEMMA DepositCharges ==
  ASSUME TypeOK, ChargesInv, NEW c \in Callers, NEW r \in Requests, Deposit(c, r)
  PROVE  ChargesInv'
<1> USE DEF ChargesInv
<1> DEFINE known == IF r.key = NoKey THEN Idle ELSE cache[r.key]
           again == Charged(r) # {}
           where == CASE known = Idle   -> [pc |-> "charge", req |-> r, again |-> again]
                      [] known = Failed -> [pc |-> "refused", req |-> r, again |-> again]
                      [] OTHER          -> [pc |-> "credit", tx |-> known]
<1>1. calls' = [calls EXCEPT ![c] = where]
  BY DEF Deposit
<1>2. UNCHANGED <<charges, deposits, cache, torn>>
  BY DEF Deposit, ledger, gateway
<1>3. known \in Charge \cup {Failed, Idle}
  BY RequestsAssumption DEF TypeOK, Keys
<1>4. known \in Charge => known \in charges
  BY ChargedFacts, KindsDiffer DEF CreditsCharged
<1>5. known = Failed /\ again => r.key \in torn.unanswered
  BY ChargedFacts, KindsDiffer DEF RefusalsKnown
<1>6. again => r.key # NoKey /\ \E t \in charges : t.req.key = r.key
  BY ChargedFacts
<1> HIDE DEF known, again
<1>7. /\ where.pc = "credit" => where.tx \in charges
      /\ where.pc = "charge" /\ where.again =>
           where.req.key # NoKey /\ \E t \in charges : t.req.key = where.req.key
      /\ where.pc = "refused" /\ where.again => where.req.key \in torn.unanswered
  <2>1. CASE known = Idle
    <3>1. where = [pc |-> "charge", req |-> r, again |-> again]
      BY <2>1, KindsDiffer
    <3> QED
      BY <1>6, <3>1
  <2>2. CASE known = Failed
    <3>1. where = [pc |-> "refused", req |-> r, again |-> again]
      BY <2>2, KindsDiffer
    <3> QED
      BY <1>5, <2>2, <3>1
  <2>3. CASE known \in Charge
    <3>1. where = [pc |-> "credit", tx |-> known]
      BY <2>3, KindsDiffer
    <3> QED
      BY <1>4, <2>3, <3>1
  <2> QED
    BY <1>3, <2>1, <2>2, <2>3
<1> HIDE DEF where
<1>8. \A d \in Callers : calls'[d] = IF d = c THEN where ELSE calls[d]
  BY <1>1 DEF TypeOK
<1> QED
  BY <1>2, <1>7, <1>8
  DEF ChargesNumbered, CreditsCharged, RefusalsKnown, RetriesAreCredited

\* The answer of Stripe: a charge, a refusal, or silence.
LEMMA AnswerCharges ==
  ASSUME TypeOK, ChargesInv, NEW c \in Callers, Accepted(c) \/ Declined(c) \/ Unanswered(c)
  PROVE  ChargesInv'
<1> USE DEF ChargesInv
<1> DEFINE r == calls[c].req
           refused == [calls[c] EXCEPT !.pc = "refused"]
<1>1. /\ r \in Requests /\ calls[c].pc = "charge"
      /\ calls[c] \in [pc : {"charge", "refused"}, req : Requests, again : BOOLEAN]
  BY CallFields DEF Accepted, Declined, Unanswered
<1>2. /\ refused.pc = "refused" /\ refused.req = r
      /\ refused.again = calls[c].again
  BY <1>1
<1>3. r.key # NoKey => r.key \in Keys
  BY <1>1, ChargedFacts
<1>4. calls[c].again => r.key # NoKey /\ Charged(r) # {}
  BY <1>1, ChargedFacts DEF RefusalsKnown
<1>5. CASE Accepted(c)
  <2>1. PICK t \in Charge : /\ Accept(r, t) /\ Remember(r, t)
                            /\ calls' = [calls EXCEPT ![c] = [pc |-> "credit", tx |-> t]]
    BY <1>5 DEF Accepted
  <2>2. /\ ChargesNumbered' /\ charges \subseteq charges' /\ t \in charges'
        /\ \A u \in charges' : u \in charges \/ u.req = r
    BY <1>1, <2>1, AcceptNumbers
  <2>3. deposits' = deposits /\ torn' = torn
    BY <1>5 DEF Accepted, ledger
  <2>4. \A d \in Callers : calls'[d] = IF d = c THEN [pc |-> "credit", tx |-> t] ELSE calls[d]
    BY <2>1 DEF TypeOK
  <2>5. \A k \in Keys : cache'[k] = IF k = r.key THEN t ELSE cache[k]
    BY <1>3, <2>1 DEF Remember, TypeOK, Keys
  <2>6. CreditsCharged'
    BY <2>2, <2>3, <2>4, <2>5 DEF CreditsCharged
  <2>7. RefusalsKnown'
    <3>1. \A d \in Callers : calls'[d].pc = "charge" /\ calls'[d].again
                              => /\ calls'[d].req.key # NoKey
                                 /\ \E u \in charges' : u.req.key = calls'[d].req.key
      BY <2>2, <2>4 DEF RefusalsKnown
    <3>2. \A k \in Keys : cache'[k] = Failed /\ (\E u \in charges' : u.req.key = k)
                           => k \in torn'.unanswered
      BY <2>2, <2>3, <2>5, KindsDiffer DEF RefusalsKnown
    <3> QED
      BY <3>1, <3>2 DEF RefusalsKnown
  <2>8. RetriesAreCredited'
    BY <2>3, <2>4 DEF RetriesAreCredited
  <2> QED
    BY <2>2, <2>6, <2>7, <2>8
<1>6. CASE Declined(c)
  <2>1. UNCHANGED <<charges, deposits, torn>> /\ Charged(r) = {} /\ Remember(r, Failed)
    BY <1>6 DEF Declined, ledger
  <2>2. \A d \in Callers : calls'[d] = IF d = c THEN refused ELSE calls[d]
    BY <1>6 DEF Declined, TypeOK
  <2>3. \A k \in Keys : cache'[k] = IF k = r.key THEN Failed ELSE cache[k]
    BY <1>3, <2>1 DEF Remember, TypeOK, Keys
  <2>4. ~calls[c].again /\ \A u \in charges : u.req.key = r.key => r.key = NoKey
    BY <1>1, <1>4, <2>1, ChargedFacts
  <2> HIDE DEF refused
  <2>5. ChargesNumbered'
    BY <2>1 DEF ChargesNumbered
  <2>6. CreditsCharged'
    BY <1>2, <2>1, <2>2, <2>3, KindsDiffer DEF CreditsCharged
  <2>7. RefusalsKnown'
    <3>1. \A d \in Callers : calls'[d].pc = "charge" /\ calls'[d].again
                              => /\ calls'[d].req.key # NoKey
                                 /\ \E u \in charges' : u.req.key = calls'[d].req.key
      BY <1>2, <2>1, <2>2 DEF RefusalsKnown
    <3>2. \A k \in Keys : cache'[k] = Failed /\ (\E u \in charges' : u.req.key = k)
                           => k \in torn'.unanswered
      BY <2>1, <2>3, <2>4 DEF RefusalsKnown, Keys
    <3> QED
      BY <3>1, <3>2 DEF RefusalsKnown
  <2>8. RetriesAreCredited'
    BY <1>2, <2>1, <2>2, <2>4 DEF RetriesAreCredited
  <2> QED
    BY <2>5, <2>6, <2>7, <2>8
<1>7. CASE Unanswered(c)
  <2>1. PICK t \in Charge : Accept(r, t)
    BY <1>7 DEF Unanswered
  <2>2. /\ ChargesNumbered' /\ charges \subseteq charges'
        /\ \A u \in charges' : u \in charges \/ u.req = r
    BY <1>1, <2>1, AcceptNumbers
  <2>3. deposits' = deposits /\ torn'.unanswered = torn.unanswered \cup ({r.key} \cap Keys)
    BY <1>7 DEF Unanswered, TypeOK
  <2>4. \A d \in Callers : calls'[d] = IF d = c THEN refused ELSE calls[d]
    BY <1>7 DEF Unanswered, TypeOK
  <2>5. \A k \in Keys : cache'[k] = IF k = r.key THEN Failed ELSE cache[k]
    BY <1>3, <1>7 DEF Unanswered, Remember, TypeOK, Keys
  <2> HIDE DEF refused
  <2>6. CreditsCharged'
    BY <1>2, <2>2, <2>3, <2>4, <2>5, KindsDiffer DEF CreditsCharged
  <2>7. RefusalsKnown'
    <3>1. \A d \in Callers : calls'[d].pc = "charge" /\ calls'[d].again
                              => /\ calls'[d].req.key # NoKey
                                 /\ \E u \in charges' : u.req.key = calls'[d].req.key
      BY <1>2, <2>2, <2>4 DEF RefusalsKnown
    <3>2. \A k \in Keys : cache'[k] = Failed /\ (\E u \in charges' : u.req.key = k)
                           => k \in torn'.unanswered
      BY <2>2, <2>3, <2>5 DEF RefusalsKnown
    <3> QED
      BY <3>1, <3>2 DEF RefusalsKnown
  <2>8. RetriesAreCredited'
    BY <1>2, <1>3, <1>4, <2>3, <2>4 DEF RetriesAreCredited
  <2> QED
    BY <2>2, <2>6, <2>7, <2>8
<1> QED
  BY <1>5, <1>6, <1>7
\* A process that starts has forgotten its calls and the gateway's answers.
LEMMA BootCharges ==
  ASSUME ChargesInv, FilesCurrent, Boot, files'.deposits = files.deposits,
         torn'.unanswered = torn.unanswered
  PROVE  ChargesInv'
<1>1. deposits' = deposits /\ charges' = charges
  BY DEF Boot, FilesCurrent
<1>2. \A c \in Callers : calls'[c].pc = "idle"
  BY DEF Boot, Idle
<1>3. \A k \in Keys : cache'[k] \notin Charge /\ cache'[k] # Failed
  BY KindsDiffer DEF Boot
<1> QED
  BY <1>1, <1>2, <1>3
  DEF ChargesInv, ChargesNumbered, CreditsCharged, RefusalsKnown, RetriesAreCredited

LEMMA GapCharges ==
  ASSUME TypeOK, ChargesInv, FilesCurrent, NEW op, NEW moved, NEW fate \in {"twice", "lost"},
         NEW amount, Gap(op, moved, fate, amount)
  PROVE  ChargesInv'
<1>1. files'.deposits = files.deposits /\ torn'.unanswered = torn.unanswered
  BY DEF Gap, TypeOK
<1> QED
  BY <1>1, BootCharges DEF Gap

LEMMA ChargesStep == TypeOK /\ FilesCurrent /\ ChargesInv /\ [Next]_vars => ChargesInv'
<1> SUFFICES ASSUME TypeOK, FilesCurrent, ChargesInv, [Next]_vars PROVE ChargesInv'
  OBVIOUS
<1> USE DEF ChargesInv, ChargesNumbered, CreditsCharged, RefusalsKnown, RetriesAreCredited
\* A thread that goes on to neither of the steps of a deposit.
<1>1. ASSUME NEW c \in Callers, NEW call, call.pc \notin {"charge", "credit", "refused"},
             calls' = [calls EXCEPT ![c] = call],
             deposits' \subseteq charges, UNCHANGED <<charges, cache, torn>>
      PROVE  ChargesInv'
  <2>1. \A d \in Callers : calls'[d] = IF d = c THEN call ELSE calls[d]
    BY <1>1 DEF TypeOK
  <2> QED
    BY <1>1, <2>1
<1>2. Idle.pc = "idle"
  BY DEF Idle
<1>3. CASE UNCHANGED vars
  BY <1>3 DEF vars
<1>4. ASSUME NEW c \in Callers, Credit(c) PROVE ChargesInv'
  <2>1. deposits' \subseteq charges /\ calls' = [calls EXCEPT ![c] = Idle]
    BY <1>4 DEF Credit, Return
  <2> QED
    BY <1>1, <1>2, <1>4, <2>1 DEF Credit, gateway
<1>5. ASSUME NEW c \in Callers, CrashInCredit(c) PROVE ChargesInv'
  BY <1>5, GapCharges DEF CrashInCredit
<1>6. ASSUME NEW c \in Callers, NEW wid \in Wids, NEW w \in Wallets, NEW a \in Withdrawn,
             RequestWithdrawal(c, wid, w, a)
      PROVE  ChargesInv'
  <2> DEFINE call == IF AutoPayout THEN [pc |-> "payout", wid |-> wid] ELSE Idle
  <2>1. call.pc \in {"payout", "idle"}
    BY <1>2
  <2>2. /\ calls' = [calls EXCEPT ![c] = call] /\ deposits' = deposits
        /\ UNCHANGED <<charges, cache, torn>>
    BY <1>6 DEF RequestWithdrawal, gateway
  <2> HIDE DEF call
  <2> QED
    BY <1>1, <2>1, <2>2
<1>7. ASSUME NEW c \in Callers, NEW wid \in Wids, NEW w \in Wallets, NEW a \in Withdrawn,
             CrashInRequest(c, wid, w, a)
      PROVE  ChargesInv'
  BY <1>7, GapCharges DEF CrashInRequest
<1>8. ASSUME NEW c \in Callers, Payout(c) PROVE ChargesInv'
  <2>1. [calls[c] EXCEPT !.pc = "complete"].pc = "complete"
    BY <1>8, CallFields DEF Payout
  <2>2. UNCHANGED <<charges, cache, torn, deposits>>
    BY <1>8 DEF Payout, ledger
  <2>3. \/ calls' = [calls EXCEPT ![c] = Idle]
        \/ calls' = [calls EXCEPT ![c] = [calls[c] EXCEPT !.pc = "complete"]]
    BY <1>8 DEF Payout, Return
  <2>4. CASE calls' = [calls EXCEPT ![c] = Idle]
    BY <1>1, <1>2, <2>2, <2>4
  <2>5. CASE calls' = [calls EXCEPT ![c] = [calls[c] EXCEPT !.pc = "complete"]]
    BY <1>1, <2>1, <2>2, <2>5
  <2> QED
    BY <2>3, <2>4, <2>5
<1>9. ASSUME NEW c \in Callers, CompletePayout(c) PROVE ChargesInv'
  <2>1. deposits' = deposits /\ calls' = [calls EXCEPT ![c] = Idle]
    BY <1>9 DEF CompletePayout, ToPaid, Return
  <2> QED
    BY <1>1, <1>2, <1>9, <2>1 DEF CompletePayout, gateway
<1>10. ASSUME NEW wid \in Wids, CompleteByHand(wid) \/ CancelWithdrawal(wid) PROVE ChargesInv'
  BY <1>10 DEF CompleteByHand, CancelWithdrawal, ToPaid, gateway
<1>11. ASSUME NEW wid \in Wids, CrashInCancel(wid) PROVE ChargesInv'
  BY <1>11, GapCharges DEF CrashInCancel
<1>12. ASSUME NEW k \in Keys, Evict(k) PROVE ChargesInv'
  <2>1. \A i \in Keys : cache'[i] = IF i = k THEN Idle ELSE cache[i]
    BY <1>12 DEF Evict, TypeOK
  <2> QED
    BY <1>12, <2>1, KindsDiffer DEF Evict, ledger
<1>13. ASSUME Restart PROVE ChargesInv'
  BY <1>13, BootCharges DEF Restart
<1> QED
  BY <1>3, <1>4, <1>5, <1>6, <1>7, <1>8, <1>9, <1>10, <1>11, <1>12, <1>13,
     DepositCharges, AnswerCharges
  DEF Next

LEMMA ChargesAlways == Spec => [](FilesCurrent /\ ChargesInv)
<1>1. ASSUME Init PROVE FilesCurrent /\ ChargesInv
  <2>1. \A c \in Callers : calls[c].pc = "idle"
    BY <1>1 DEF Init, Idle
  <2>2. \A k \in Keys : cache[k] \notin Charge /\ cache[k] # Failed
    BY <1>1, KindsDiffer DEF Init
  <2>3. ChargesNumbered /\ FilesCurrent
    BY <1>1, FS_EmptySet DEF Init, ChargesNumbered, FilesCurrent
  <2> QED
    BY <1>1, <2>1, <2>2, <2>3
    DEF Init, ChargesInv, CreditsCharged, RefusalsKnown, RetriesAreCredited
<1> QED
  BY <1>1, FilesStep, ChargesStep, TypeCorrect, PTL DEF Spec

\* A retry of a deposit that was charged is refused only if the charge went
\* unanswered, whatever threads, evictions and restarts do.  States
\* RetriesAreCredited of PaymentFlows.
THEOREM RetriesAreAlwaysCredited == Spec => []RetriesAreCredited
<1>1. ChargesInv => RetriesAreCredited
  BY DEF ChargesInv
<1> QED
  BY <1>1, ChargesAlways, PTL
-----------------------------------------------------------------------------
(* The books balance *)

LEMMA WalletSum ==
  ASSUME TypeOK, NEW w \in Wallets, NEW a \in Nat
  PROVE  /\ SumOver(Plus(w, a), Wallets) = SumOver(wallet, Wallets) + a
         /\ wallet[w] >= a => SumOver(Minus(w, a), Wallets) + a = SumOver(wallet, Wallets)
<1>1. /\ IsFiniteSet(Wallets) /\ wallet \in [Wallets -> Nat] /\ wallet[w] \in Nat
      /\ SumOver(wallet, Wallets) \in Nat
  BY FlowsAssumption, SumNat DEF TypeOK
<1>2. SumOver(Plus(w, a), Wallets) + wallet[w] = SumOver(wallet, Wallets) + Plus(w, a)[w]
  <2>1. \A y \in Wallets : Plus(w, a)[y] = IF y = w THEN wallet[w] + a ELSE wallet[y]
    BY <1>1 DEF Plus
  <2> QED
    BY <1>1, <2>1, SumPut
<1>3. /\ Plus(w, a)[w] = wallet[w] + a
      /\ SumOver(Plus(w, a), Wallets) \in Nat
  <2>1. Plus(w, a)[w] = wallet[w] + a
    BY <1>1 DEF Plus
  <2>2. \A y \in Wallets : Plus(w, a)[y] \in Nat
    BY PlusMinusType
  <2> QED
    BY <1>1, <2>1, <2>2, SumNat
<1>4. ASSUME wallet[w] >= a
      PROVE  SumOver(Minus(w, a), Wallets) + a = SumOver(wallet, Wallets)
  <2>1. \A y \in Wallets : Minus(w, a)[y] = IF y = w THEN wallet[w] - a ELSE wallet[y]
    BY <1>1 DEF Minus
  <2>2. \A y \in Wallets : Minus(w, a)[y] \in Nat
    BY <1>4, PlusMinusType
  <2>3. SumOver(Minus(w, a), Wallets) \in Nat
    BY <1>1, <2>2, SumNat
  <2>4. SumOver(Minus(w, a), Wallets) + wallet[w] = SumOver(wallet, Wallets) + Minus(w, a)[w]
    BY <1>1, <2>1, <2>2, SumPut
  <2>5. Minus(w, a)[w] = wallet[w] - a
    BY <2>1
  <2> QED
    BY <1>1, <2>3, <2>4, <2>5
<1> QED
  BY <1>1, <1>2, <1>3, <1>4

\* What withdrawals ws hold back, wid by wid.
HeldBy(ws) ==
  [wid \in Wids |-> IF ws[wid].state \in {"pending", "paid"} THEN ws[wid].amount ELSE 0]

Held == SumOver(HeldBy(withdrawals), Wids)

LEMMA HeldByType ==
  ASSUME NEW ws \in [Wids -> Withdrawal]
  PROVE  \A wid \in Wids : HeldBy(ws)[wid] \in Nat
<1> SUFFICES ASSUME NEW wid \in Wids, ws[wid].state \in {"pending", "paid"}
             PROVE  ws[wid].amount \in Nat
  BY DEF HeldBy
<1>1. ws[wid] \in Withdrawal /\ ws[wid] # NoWithdrawal
  BY DEF NoWithdrawal
<1> QED
  BY <1>1, FlowsAssumption DEF Withdrawal

LEMMA HeldNat ==
  ASSUME TypeOK
  PROVE  /\ Held \in Nat /\ \A wid \in Wids : HeldBy(withdrawals)[wid] \in Nat
         /\ Placed = SumOver(wallet, Wallets) + Held
<1>1. \A wid \in Wids : HeldBy(withdrawals)[wid] \in Nat
  BY HeldByType DEF TypeOK
<1>2. Held \in Nat
  BY <1>1, FlowsAssumption, SumNat DEF Held
<1> DEFINE some == InState({"pending", "paid"})
           amounts == [wid \in Wids |-> Amount(wid)]
<1>3. /\ some \in SUBSET Wids
      /\ \A wid \in some : HeldBy(withdrawals)[wid] = amounts[wid]
      /\ \A wid \in Wids \ some : HeldBy(withdrawals)[wid] = 0
  BY DEF HeldBy, InState, Amount
<1>4. Held = SumOver(amounts, some)
  BY <1>3, SumSkip DEF Held
<1> QED
  BY <1>1, <1>2, <1>4 DEF Placed

\* A withdrawal that moves on changes what is held by its own amount.
LEMMA HeldStep ==
  ASSUME TypeOK, TypeOK', NEW wid \in Wids,
         \A v \in Wids \ {wid} : withdrawals'[v] = withdrawals[v]
  PROVE  Held' + HeldBy(withdrawals)[wid] = Held + HeldBy(withdrawals')[wid]
<1>1. \A v \in Wids : HeldBy(withdrawals')[v] \in Nat
  BY HeldByType DEF TypeOK
<1>2. \A v \in Wids : HeldBy(withdrawals)[v] \in Nat
  BY HeldByType DEF TypeOK
<1>3. \A v \in Wids \ {wid} : HeldBy(withdrawals)[v] = HeldBy(withdrawals')[v]
  BY DEF HeldBy
<1>4. IsFiniteSet(Wids)
  BY FlowsAssumption
<1> QED
  BY <1>1, <1>2, <1>3, <1>4, SumPut DEF Held

DepositAmounts == [i \in DepositIds |-> DepositOf(i).req.amount]

\* The charges credited are finitely many, and each is found by its number.
LEMMA CreditedFacts ==
  ASSUME TypeOK, ChargesInv
  PROVE  /\ IsFiniteSet(DepositIds) /\ Credited \in Nat
         /\ \A i \in DepositIds : DepositAmounts[i] \in Nat /\ \E u \in deposits : i = u.id
         /\ \A u \in deposits : u.id \in DepositIds /\ DepositAmounts[u.id] = u.req.amount
<1>1. \A u \in deposits : DepositOf(u.id) = u
  <2> SUFFICES ASSUME NEW u \in deposits PROVE DepositOf(u.id) = u
    OBVIOUS
  <2>1. \A v \in deposits : v.id = u.id <=> v = u
    BY DEF ChargesInv, ChargesNumbered, CreditsCharged
  <2> QED
    BY <2>1 DEF DepositOf
<1>2. \A u \in deposits : u.id \in DepositIds /\ DepositAmounts[u.id] = u.req.amount
  BY <1>1 DEF DepositIds, DepositAmounts
<1>3. IsFiniteSet(DepositIds)
  <2>1. IsFiniteSet(1 .. MaxCharges)
    BY FlowsAssumption, FS_Interval
  <2>2. DepositIds \subseteq 1 .. MaxCharges
    BY DEF DepositIds, TypeOK, Charge
  <2> QED
    BY <2>1, <2>2, FS_Subset
<1>4. \A i \in DepositIds : DepositAmounts[i] \in Nat /\ \E u \in deposits : i = u.id
  BY <1>2, KindsDiffer DEF DepositIds, TypeOK
<1>5. Credited \in Nat
  <2>1. Credited = SumOver(DepositAmounts, DepositIds)
    BY DEF Credited, DepositAmounts
  <2> QED
    BY <1>3, <1>4, <2>1, SumNat
<1> QED
  BY <1>2, <1>3, <1>4, <1>5

\* A charge credited for the first time adds its amount to what was credited.
LEMMA CreditedStep ==
  ASSUME TypeOK, ChargesInv, NEW t \in charges, t \notin deposits,
         deposits' = deposits \cup {t}
  PROVE  Credited' = Credited + t.req.amount
<1>1. \A u, v \in deposits' : u.id = v.id => u = v
  BY DEF ChargesInv, ChargesNumbered, CreditsCharged
<1>2. DepositIds' = DepositIds \cup {t.id} /\ t.id \notin DepositIds
  BY <1>1 DEF DepositIds
<1> DEFINE f == DepositAmounts
           g == DepositAmounts'
<1>3. \A u \in deposits' : DepositOf(u.id)' = u
  <2> SUFFICES ASSUME NEW u \in deposits' PROVE DepositOf(u.id)' = u
    OBVIOUS
  <2>1. \A v \in deposits' : v.id = u.id <=> v = u
    BY <1>1
  <2> QED
    BY <2>1 DEF DepositOf
<1>4. \A u \in deposits' : g[u.id] = u.req.amount
  BY <1>3 DEF DepositIds, DepositAmounts
<1>5. \A i \in DepositIds : g[i] = f[i]
  BY <1>4, CreditedFacts
<1>6. t.req.amount \in Nat /\ g[t.id] = t.req.amount
  BY <1>4, KindsDiffer DEF TypeOK
<1>7. \A i \in DepositIds \cup {t.id} : g[i] \in Nat
  BY <1>5, <1>6, CreditedFacts
<1>8. Credited' = SumOver(g, DepositIds \cup {t.id}) /\ Credited = SumOver(f, DepositIds)
  BY <1>2 DEF Credited, DepositAmounts
<1> HIDE DEF f, g
<1>9. SumOver(g, DepositIds \cup {t.id}) = SumOver(g, DepositIds) + g[t.id]
  BY <1>2, <1>7, SumAdd, CreditedFacts, ZenonT(60)
<1>10. SumOver(g, DepositIds) = SumOver(f, DepositIds)
  BY <1>5, SumAgree
<1> QED
  BY <1>6, <1>8, <1>9, <1>10

InWallets == SumOver(wallet, Wallets)

\* The books, account by account.
BooksForm ==
  InWallets + Held + torn.lost = SumOver(Opening, Wallets) + Credited + torn.twice

LEMMA BooksAreForm == TypeOK => (BooksBalance <=> BooksForm)
BY HeldNat DEF BooksBalance, BooksForm, InWallets, Brought

LEMMA BooksNat ==
  ASSUME TypeOK, ChargesInv
  PROVE  /\ InWallets \in Nat /\ Held \in Nat /\ Credited \in Nat
         /\ SumOver(Opening, Wallets) \in Nat /\ torn.lost \in Nat /\ torn.twice \in Nat
<1>1. InWallets \in Nat /\ SumOver(Opening, Wallets) \in Nat
  BY FlowsAssumption, SumNat DEF TypeOK, InWallets
<1> QED
  BY <1>1, HeldNat, CreditedFacts DEF TypeOK

\* A process that dies between the two files has moved amount in the wallets
\* and nowhere else, and torn says so.
LEMMA GapBooks ==
  ASSUME TypeOK, FilesCurrent, NEW op, NEW moved, NEW fate \in {"twice", "lost"},
         NEW amount \in Nat, Gap(op, moved, fate, amount)
  PROVE  /\ wallet' = moved /\ Held' = Held /\ Credited' = Credited
         /\ torn'.twice = IF fate = "twice" THEN torn.twice + amount ELSE torn.twice
         /\ torn'.lost = IF fate = "lost" THEN torn.lost + amount ELSE torn.lost
<1>1. wallet' = moved /\ withdrawals' = withdrawals /\ deposits' = deposits
  BY DEF Gap, Boot, FilesCurrent
<1>2. /\ torn'.twice = IF fate = "twice" THEN torn.twice + amount ELSE torn.twice
      /\ torn'.lost = IF fate = "lost" THEN torn.lost + amount ELSE torn.lost
  BY DEF Gap, TypeOK
<1>3. Held' = Held /\ Credited' = Credited
  BY <1>1 DEF Held, Credited, DepositIds, DepositOf
<1> QED
  BY <1>1, <1>2, <1>3

LEMMA BooksStep ==
  ASSUME TypeOK, TypeOK', FilesCurrent, ChargesInv, BooksForm, [Next]_vars
  PROVE  BooksForm'
<1> DEFINE opened == SumOver(Opening, Wallets)
<1>0. /\ InWallets \in Nat /\ Held \in Nat /\ Credited \in Nat
      /\ opened \in Nat /\ torn.lost \in Nat /\ torn.twice \in Nat
      /\ InWallets + Held + torn.lost = opened + Credited + torn.twice
  BY BooksNat DEF BooksForm
<1>a. /\ withdrawals' = withdrawals => Held' = Held
      /\ deposits' = deposits => Credited' = Credited
  BY DEF Held, Credited, DepositIds, DepositOf
<1> HIDE DEF opened
\* What makes the books of the next state.
<1>b. ASSUME InWallets' + Held' + torn'.lost = opened + Credited' + torn'.twice
      PROVE  BooksForm'
  BY <1>b DEF BooksForm, opened
<1>c. \A x, y, z \in Nat : x + z = y => x = y - z
  OBVIOUS
<1>1. ASSUME UNCHANGED <<wallet, withdrawals, deposits>>,
             torn'.lost = torn.lost, torn'.twice = torn.twice
      PROVE  BooksForm'
  BY <1>0, <1>1, <1>a, <1>b DEF InWallets
<1>2. ASSUME NEW c \in Callers, Credit(c) PROVE BooksForm'
  <2>1. CASE ~New(calls[c].tx)
    BY <1>1, <1>2, <2>1 DEF Credit
  <2>2. CASE New(calls[c].tx)
    <3> DEFINE t == calls[c].tx
    <3>1. /\ t \in charges /\ t \notin deposits /\ t.req.wallet \in Wallets
          /\ t.req.amount \in Nat
      BY <1>2, <2>2, KindsDiffer DEF Credit, New, ChargesInv, CreditsCharged, TypeOK
    <3>2. /\ wallet' = Plus(t.req.wallet, t.req.amount) /\ deposits' = deposits \cup {t}
          /\ withdrawals' = withdrawals /\ torn' = torn
      BY <1>2, <2>2 DEF Credit
    <3> HIDE DEF t
    <3>3. InWallets' = InWallets + t.req.amount
      BY <3>1, <3>2, WalletSum DEF InWallets
    <3>4. Credited' = Credited + t.req.amount
      BY <3>1, <3>2, CreditedStep
    <3> QED
      BY <1>0, <1>a, <1>b, <3>1, <3>2, <3>3, <3>4
  <2> QED
    BY <2>1, <2>2
<1>3. ASSUME NEW w \in Wallets, NEW a \in Nat, NEW op, Gap(op, Plus(w, a), "twice", a)
      PROVE  BooksForm'
  <2>1. InWallets' = InWallets + a /\ Held' = Held /\ Credited' = Credited
          /\ torn'.twice = torn.twice + a /\ torn'.lost = torn.lost
    BY <1>3, GapBooks, WalletSum DEF InWallets
  <2>2. InWallets' + Held' + torn'.lost = opened + Credited' + torn'.twice
    BY <1>0, <2>1
  <2> QED
    BY <1>b, <2>2
<1>4. ASSUME NEW c \in Callers, CrashInCredit(c) PROVE BooksForm'
  <2>1. calls[c].tx.req.wallet \in Wallets /\ calls[c].tx.req.amount \in Nat
    BY <1>4, KindsDiffer DEF CrashInCredit, ChargesInv, CreditsCharged, TypeOK
  <2> QED
    BY <1>3, <1>4, <2>1 DEF CrashInCredit
<1>5. ASSUME NEW c \in Callers, NEW wid \in Wids, NEW w \in Wallets, NEW a \in Withdrawn,
             RequestWithdrawal(c, wid, w, a)
      PROVE  BooksForm'
  <2>1. a \in Nat /\ wallet[w] >= a
    BY <1>5, FlowsAssumption DEF RequestWithdrawal, MayRequest
  <2>2. wallet' = Minus(w, a) /\ deposits' = deposits /\ torn' = torn
    BY <1>5 DEF RequestWithdrawal
  <2>3. InWallets' = InWallets - a
    <3>1. SumOver(Minus(w, a), Wallets) + a = InWallets
      BY <2>1, WalletSum DEF InWallets
    <3>2. InWallets' \in Nat
      BY FlowsAssumption, SumNat DEF TypeOK, InWallets
    <3>3. InWallets' + a = InWallets
      BY <2>2, <3>1 DEF InWallets
    <3>4. InWallets \in Nat /\ a \in Nat
      BY <1>0, <2>1
    <3> QED
      BY <1>c, <3>2, <3>3, <3>4
  <2>4. /\ \A v \in Wids \ {wid} : withdrawals'[v] = withdrawals[v]
        /\ HeldBy(withdrawals)[wid] = 0 /\ HeldBy(withdrawals')[wid] = a
    BY <1>5 DEF RequestWithdrawal, MayRequest, NoWithdrawal, HeldBy, TypeOK
  <2>5. Credited' = Credited /\ torn'.lost = torn.lost /\ torn'.twice = torn.twice
    BY <1>a, <2>2
  <2>6. Held' = Held + a
    <3>1. Held' \in Nat
      BY HeldByType, FlowsAssumption, SumNat DEF TypeOK, Held
    <3> QED
      BY <1>0, <2>1, <2>4, <3>1, HeldStep
  <2>7. InWallets' + Held' + torn'.lost = opened + Credited' + torn'.twice
    BY <1>0, <2>1, <2>2, <2>3, <2>6, <2>5
  <2> QED
    BY <1>b, <2>7
<1>6. ASSUME NEW c \in Callers, NEW wid \in Wids, NEW w \in Wallets, NEW a \in Withdrawn,
             CrashInRequest(c, wid, w, a)
      PROVE  BooksForm'
  <2>1. a \in Nat /\ wallet[w] >= a /\ Gap("request", Minus(w, a), "lost", a)
    BY <1>6, FlowsAssumption DEF CrashInRequest, MayRequest
  <2>2. /\ wallet' = Minus(w, a) /\ Held' = Held /\ Credited' = Credited
        /\ torn'.twice = torn.twice /\ torn'.lost = torn.lost + a
    BY <2>1, GapBooks
  <2>3. InWallets' = InWallets - a
    <3>1. SumOver(Minus(w, a), Wallets) + a = InWallets
      BY <2>1, WalletSum DEF InWallets
    <3>2. InWallets' \in Nat
      BY FlowsAssumption, SumNat DEF TypeOK, InWallets
    <3>3. InWallets' + a = InWallets
      BY <2>2, <3>1 DEF InWallets
    <3>4. InWallets \in Nat /\ a \in Nat
      BY <1>0, <2>1
    <3> QED
      BY <1>c, <3>2, <3>3, <3>4
  <2>4. InWallets' + Held' + torn'.lost = opened + Credited' + torn'.twice
    BY <1>0, <2>1, <2>2, <2>3
  <2> QED
    BY <1>b, <2>4
<1>7. ASSUME NEW wid \in Wids, MayClose(wid), ToPaid(wid), torn' = torn PROVE BooksForm'
  <2>1. /\ \A v \in Wids \ {wid} : withdrawals'[v] = withdrawals[v]
        /\ HeldBy(withdrawals')[wid] = HeldBy(withdrawals)[wid]
    <3>1. withdrawals' = [withdrawals EXCEPT ![wid] = [withdrawals[wid] EXCEPT !.state = "paid"]]
      BY <1>7 DEF ToPaid, State
    <3>2. /\ [withdrawals[wid] EXCEPT !.state = "paid"].state = "paid"
          /\ [withdrawals[wid] EXCEPT !.state = "paid"].amount = withdrawals[wid].amount
      BY <1>7, WithdrawalFields DEF MayClose
    <3> QED
      BY <1>7, <3>1, <3>2 DEF MayClose, HeldBy, TypeOK
  <2>2. Held' = Held
    <3>1. Held' \in Nat /\ HeldBy(withdrawals)[wid] \in Nat
      BY HeldByType, FlowsAssumption, SumNat DEF TypeOK, Held
    <3> QED
      BY <1>0, <2>1, <3>1, HeldStep
  <2> QED
    BY <1>0, <1>7, <1>a, <1>b, <2>2 DEF ToPaid, InWallets
<1>8. ASSUME NEW c \in Callers, CompletePayout(c) PROVE BooksForm'
  <2>1. calls[c].wid \in Wids
    BY <1>8, CallFields DEF CompletePayout
  <2> QED
    BY <1>1, <1>7, <1>8, <2>1 DEF CompletePayout
<1>9. ASSUME NEW wid \in Wids, CompleteByHand(wid) PROVE BooksForm'
  BY <1>7, <1>9 DEF CompleteByHand
<1>10. ASSUME NEW wid \in Wids, MayClose(wid)
       PROVE  withdrawals[wid].wallet \in Wallets /\ withdrawals[wid].amount \in Nat
  BY <1>10, WithdrawalFields DEF MayClose
<1>11. ASSUME NEW wid \in Wids, CancelWithdrawal(wid) PROVE BooksForm'
  <2> DEFINE a == withdrawals[wid].amount
             cancelled == [withdrawals[wid] EXCEPT !.state = "cancelled"]
  <2>1. /\ MayClose(wid) /\ wallet' = Plus(withdrawals[wid].wallet, a)
        /\ withdrawals' = [withdrawals EXCEPT ![wid] = cancelled]
        /\ deposits' = deposits /\ torn' = torn
    BY <1>11 DEF CancelWithdrawal, Returned, State
  <2>2. a \in Nat /\ InWallets' = InWallets + a
    BY <1>10, <2>1, WalletSum DEF InWallets
  <2>3. cancelled.state = "cancelled"
    BY <2>1, WithdrawalFields DEF MayClose
  <2> HIDE DEF cancelled
  <2>4. /\ \A v \in Wids \ {wid} : withdrawals'[v] = withdrawals[v]
        /\ HeldBy(withdrawals)[wid] = a /\ HeldBy(withdrawals')[wid] = 0
    BY <2>1, <2>3 DEF MayClose, HeldBy, TypeOK
  <2>5. Credited' = Credited /\ torn'.lost = torn.lost /\ torn'.twice = torn.twice
    BY <1>a, <2>1
  <2> HIDE DEF a
  <2>6. Held' = Held - a
    <3>1. Held' \in Nat
      BY HeldByType, FlowsAssumption, SumNat DEF TypeOK, Held
    <3> QED
      BY <1>0, <2>2, <2>4, <3>1, HeldStep
  <2>7. InWallets' + Held' + torn'.lost = opened + Credited' + torn'.twice
    BY <1>0, <2>2, <2>6, <2>5
  <2> QED
    BY <1>b, <2>7
<1>12. ASSUME NEW wid \in Wids, CrashInCancel(wid) PROVE BooksForm'
  BY <1>3, <1>10, <1>12 DEF CrashInCancel, Returned
<1>13. ASSUME NEW c \in Callers,
              \/ Accepted(c) \/ Declined(c) \/ Unanswered(c) \/ Payout(c)
              \/ \E r \in Requests : Deposit(c, r)
       PROVE  BooksForm'
  <2>1. UNCHANGED <<wallet, withdrawals, deposits>>
    BY <1>13 DEF Accepted, Declined, Unanswered, Payout, Deposit, ledger
  <2>2. torn'.lost = torn.lost /\ torn'.twice = torn.twice
    BY <1>13 DEF Accepted, Declined, Unanswered, Payout, Deposit, ledger, TypeOK
  <2> QED
    BY <1>1, <2>1, <2>2
<1>14. ASSUME NEW k \in Keys, Evict(k) PROVE BooksForm'
  BY <1>1, <1>14 DEF Evict, ledger
<1>15. ASSUME Restart PROVE BooksForm'
  BY <1>1, <1>15 DEF Restart, Boot, FilesCurrent
<1>16. CASE UNCHANGED vars
  BY <1>1, <1>16 DEF vars
<1> QED
  BY <1>2, <1>4, <1>5, <1>6, <1>8, <1>9, <1>11, <1>12, <1>13, <1>14, <1>15, <1>16 DEF Next

LEMMA BooksInit == Init => BooksForm
<1> SUFFICES ASSUME Init PROVE BooksForm
  OBVIOUS
<1>1. Held = 0
  <2>1. /\ {} \in SUBSET Wids
        /\ \A wid \in Wids \ {} : HeldBy(withdrawals)[wid] = 0
    BY DEF Init, HeldBy, NoWithdrawal
  <2>2. \A x \in {} : HeldBy(withdrawals)[x] = HeldBy(withdrawals)[x]
    OBVIOUS
  <2>3. SumOver(HeldBy(withdrawals), Wids) = SumOver(HeldBy(withdrawals), {})
    BY <2>1, <2>2, SumSkip
  <2> QED
    BY <2>3, SumEmpty DEF Held
<1>2. Credited = 0
  <2>1. DepositIds = {}
    BY DEF Init, DepositIds
  <2> QED
    BY <2>1, SumEmpty DEF Credited
<1>3. InWallets = SumOver(Opening, Wallets) /\ SumOver(Opening, Wallets) \in Nat
  BY FlowsAssumption, SumNat DEF Init, InWallets
<1> QED
  BY <1>1, <1>2, <1>3 DEF Init, BooksForm

\* The books balance but for what crashes between the two files moved: retries,
\* threads, payouts, operators and restarts never credit a charge twice nor lose
\* a debit.  States BooksBalance of PaymentFlows.
THEOREM BooksAlwaysBalance == Spec => []BooksBalance
<1> DEFINE I == TypeOK /\ FilesCurrent /\ ChargesInv
<1>1. I /\ TypeOK' /\ BooksForm /\ [Next]_vars => BooksForm'
  BY BooksStep
<1>2. Spec => []I
  BY TypeCorrect, ChargesAlways, PTL
<1> HIDE DEF I
<1>3. I => TypeOK
  BY DEF I
<1> QED
  BY <1>1, <1>2, <1>3, BooksInit, BooksAreForm, PTL DEF Spec
=============================================================================
