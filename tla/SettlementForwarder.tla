------------------------- MODULE SettlementForwarder -------------------------
(***************************************************************************)
(* v2/core/settlement_forwarder.py: a credit for a provider whose home is  *)
(* another gateway is posted there at once and, while the post fails, again*)
(* by retry_pending, each time after a longer pause.                       *)
(*                                                                         *)
(* The first attempt runs in the thread of forward and the retries in the  *)
(* thread of a background tick, and neither holds the lock while it posts. *)
(* The receiving gateway, which nothing here contains, credits a notice id *)
(* once and acknowledges it every time.  The outbox is a list in memory.   *)
(***************************************************************************)
EXTENDS Naturals, FiniteSets

CONSTANTS
    Notices,    \* credit notices, by notice_id
    Delays      \* Len(DEFAULT_RETRY_DELAYS_S): attempts counted apart

ASSUME DelaysAssumption == Delays \in Nat

VARIABLES
    outbox,     \* absent, pending, delivered, or lost with the process
    posting,    \* the threads inside _try_send, and what became of each post
    resting,    \* pending notices whose pause has not passed yet
    attempts,   \* CreditNotice.attempts, counted up to Delays
    books       \* the target gateway's credits

forwarderVars == <<outbox, posting, resting, attempts, books>>

Senders == {"forward", "retry"}
\* A post under way, and one the receiver has processed.
PostStates == {"sent", "credited"}

ForwarderInit ==
    /\ outbox = [n \in Notices |-> "none"]
    /\ posting = {} /\ resting = {} /\ books = {}
    /\ attempts = [n \in Notices |-> 0]

-----------------------------------------------------------------------------
\* _try_send up to the post: one more attempt, and the clock of the pause.
StartPost(n, thread) ==
    /\ attempts' = [attempts EXCEPT ![n] = IF @ < Delays THEN @ + 1 ELSE @]
    /\ resting' = resting \cup {n}
    /\ posting' = posting \cup {[notice |-> n, by |-> thread, state |-> "sent"]}

Forward(n) ==
    /\ outbox[n] = "none"
    /\ outbox' = [outbox EXCEPT ![n] = "pending"]
    /\ StartPost(n, "forward")
    /\ UNCHANGED books

\* A fault: the notice is given up after the last delay.
DueWhileDelays(n) == outbox[n] = "pending" /\ n \notin resting /\ attempts[n] < Delays

\* retry_pending's test: not delivered, and the pause has passed.  The last
\* delay serves for every later attempt.
Due(n) == outbox[n] = "pending" /\ n \notin resting

\* One notice of retry_pending, whose loop posts one at a time.
RetryPost(n) ==
    /\ Due(n)
    /\ \A p \in posting : p.by # "retry"
    /\ StartPost(n, "retry")
    /\ UNCHANGED <<outbox, books>>

\* The pause since the last attempt passes; an attempt may still be under way.
PauseEnds(n) ==
    /\ n \in resting /\ resting' = resting \ {n}
    /\ UNCHANGED <<outbox, posting, attempts, books>>

\* The target's /v1/wallet/credit_notice.
Credit(p) ==
    /\ p \in posting /\ p.state = "sent"
    /\ books' = books \cup {p.notice}
    /\ posting' = (posting \ {p}) \cup {[p EXCEPT !.state = "credited"]}
    /\ UNCHANGED <<outbox, resting, attempts>>

\* The acknowledgement arrives and _try_send marks the notice delivered.
Acknowledge(p) ==
    /\ p \in posting /\ p.state = "credited"
    /\ outbox' = [outbox EXCEPT ![p.notice] = "delivered"]
    /\ posting' = posting \ {p}
    /\ UNCHANGED <<resting, attempts, books>>

\* The post or its answer is lost, or the target refuses: last_error is set
\* and the notice stays where it is.
PostFails(p) ==
    /\ p \in posting /\ posting' = posting \ {p}
    /\ UNCHANGED <<outbox, resting, attempts, books>>

\* The process ends: every notice not delivered is gone with the outbox.
LoseOutbox ==
    /\ outbox' = [n \in Notices |-> IF outbox[n] = "pending" THEN "lost" ELSE outbox[n]]
    /\ posting' = {} /\ resting' = {}
    /\ attempts' = [n \in Notices |-> 0]
    /\ UNCHANGED books

ForwarderNext ==
    \/ LoseOutbox
    \/ \E n \in Notices : Forward(n) \/ RetryPost(n) \/ PauseEnds(n)
    \/ \E p \in posting : Credit(p) \/ Acknowledge(p) \/ PostFails(p)

Attempt(n) == {p \in posting : p.notice = n}
AckedPost(n) == \E p \in Attempt(n) : Acknowledge(p)
CreditedPost(n) == \E p \in Attempt(n) : Credit(p)
FinishedPost(n) == \E p \in Attempt(n) : Acknowledge(p) \/ PostFails(p)

\* Time passes, retry_pending is called again and again, a post times out
\* after five seconds, and the network and the target serve a notice that is
\* posted for ever at least once.
ForwarderFair ==
    \A n \in Notices :
        /\ SF_forwarderVars(RetryPost(n)) /\ WF_forwarderVars(PauseEnds(n))
        /\ WF_forwarderVars(FinishedPost(n))
        /\ SF_forwarderVars(CreditedPost(n)) /\ SF_forwarderVars(AckedPost(n))

ForwarderSpec == ForwarderInit /\ [][ForwarderNext]_forwarderVars /\ ForwarderFair

-----------------------------------------------------------------------------
ForwarderTypeOK ==
    /\ outbox \in [Notices -> {"none", "pending", "delivered", "lost"}]
    /\ posting \subseteq [notice : Notices, by : Senders, state : PostStates]
    /\ resting \subseteq Notices /\ books \subseteq Notices
    /\ attempts \in [Notices -> 0..Delays]

\* "No payment ever silently goes missing" (header, lines 18-19), as far as
\* the process lives: a pending notice is delivered, and then it is in the
\* target's books, or it was lost with the process.  Concerns _try_send and
\* the pauses of retry_pending under lost posts and lost answers.
NoticesDelivered ==
    \A n \in Notices :
        outbox[n] = "pending" ~> \/ outbox[n] = "lost"
                                 \/ outbox[n] = "delivered" /\ n \in books

=============================================================================
