---------------------------- MODULE SignetGateway ----------------------------
(***************************************************************************)
(* governance/gateway.py and governance/anchoring.py: a call is admitted   *)
(* by the budget, forwarded, settled, and leaves a receipt in a hash chain *)
(* that is kept in memory and appended to receipts.jsonl.                  *)
(*                                                                         *)
(* Plain calls run on the event loop and give up control only while they   *)
(* wait for the upstream.  A stream runs on a thread of its own.  The lock *)
(* of the receipts covers the chain in memory, not the append to the file. *)
(*                                                                         *)
(* A call leaves at most one receipt, so a receipt and its sha256 are      *)
(* named by the call.  The budget is one envelope, reduced to its holds    *)
(* and its charges: BudgetLedger has the rest.                             *)
(***************************************************************************)
EXTENDS Naturals, Sequences, FiniteSets, Sums

CONSTANTS
  Calls,       \* calls
  Streams,     \* those that ask for a stream
  Genesis,     \* the head of an empty chain
  Est,         \* the hold of a call: its worst case
  Cheap,       \* what the cheaper model of a cascade bills
  Actual,      \* what the requested model bills
  Cap,         \* the envelope's cap
  CleanStops   \* does the process stop only when no call is open?

ASSUME CallsAssumption ==
  /\ IsFiniteSet(Calls) /\ Streams \subseteq Calls /\ Genesis \notin Calls
ASSUME PricesAssumption ==
  /\ {Est, Cheap, Actual} \subseteq Nat \ {0} /\ Cap \in Nat
  /\ CleanStops \in BOOLEAN

VARIABLES
  pc,        \* where each call is
  hold,      \* its budget hold, 0 when there is none
  charged,   \* what the budget was charged for it
  bill,      \* what its receipt will say or says it cost
  cached,    \* does the response cache hold an answer?
  receipts,  \* _receipts: the chain in memory
  head,      \* _chain_head
  file,      \* the lines of receipts.jsonl
  anchors,   \* heads published to the calendars
  loaded,    \* history: how many receipts this process found in the file
  lost       \* history: calls whose receipt no file will show

vars   == <<pc, hold, charged, bill, cached, receipts, head, file, anchors, loaded, lost>>
money  == <<hold, charged, bill, cached>>
chain  == <<receipts, head, loaded>>
ground == <<file, anchors, lost>>

Receipt == [call : Calls, prev : Calls \cup {Genesis}, cost : Nat]
Torn    == [torn |-> TRUE]   \* the beginning of a line, without its end
Junk    == [torn |-> FALSE]  \* a whole line that does not parse

TypeOK ==
  /\ pc \in [Calls -> {"idle", "cheap", "upstream", "stream", "settled", "emitted", "done"}]
  /\ hold \in [Calls -> {0, Est}]
  /\ charged \in [Calls -> Nat] /\ bill \in [Calls -> Nat]
  /\ cached \in BOOLEAN
  /\ receipts \in Seq(Receipt)
  /\ head \in Calls \cup {Genesis}
  /\ file \in Seq(Receipt \cup {Torn, Junk})
  /\ anchors \subseteq Calls /\ lost \subseteq Calls
  /\ loaded \in 0 .. Len(receipts)

Goto(c, l)    == pc' = [pc EXCEPT ![c] = l]
Billed(c, b)  == bill' = [bill EXCEPT ![c] = b]

\* The event loop is taken by a plain call that settles and emits.
LoopFree == \A c \in Calls \ Streams : pc[c] \notin {"settled", "emitted"}

\* budget.release, and budget.settle, which records nothing without a hold.
ReleaseHold(c) == hold' = [hold EXCEPT ![c] = 0] /\ UNCHANGED charged
SettleHold(c, cost) ==
  /\ hold' = [hold EXCEPT ![c] = 0]
  /\ charged' = [charged EXCEPT ![c] = IF hold[c] = 0 THEN @ ELSE cost]

-----------------------------------------------------------------------------
(* govern_and_forward. *)

Hit(c) ==
  /\ pc[c] = "idle" /\ c \notin Streams /\ LoopFree
  /\ cached
  /\ Goto(c, "settled")
  /\ UNCHANGED <<money, chain, ground>>

Reserve(c) ==
  /\ pc[c] = "idle" /\ LoopFree
  /\ IF SumOver(charged, Calls) + SumOver(hold, Calls) + Est <= Cap
     THEN /\ hold' = [hold EXCEPT ![c] = Est]
          /\ \E l \in IF c \in Streams THEN {"stream"} ELSE {"cheap", "upstream"} : Goto(c, l)
     ELSE /\ Goto(c, "done")
          /\ UNCHANGED hold
  /\ UNCHANGED <<charged, bill, cached, chain, ground>>

\* The cascade's cheaper model answers and is accepted.
CheapAccepted(c) ==
  /\ pc[c] = "cheap" /\ LoopFree
  /\ SettleHold(c, Cheap)
  /\ Billed(c, Cheap)
  /\ cached' = TRUE
  /\ Goto(c, "settled")
  /\ UNCHANGED <<chain, ground>>

\* It fails, or its answer is rejected and was billed all the same.
Escalate(c) ==
  /\ pc[c] = "cheap" /\ LoopFree
  /\ \E spent \in {0, Cheap} : Billed(c, spent)
  /\ Goto(c, "upstream")
  /\ UNCHANGED <<hold, charged, cached, chain, ground>>

Answer(c) ==
  /\ pc[c] = "upstream" /\ LoopFree
  /\ SettleHold(c, Actual + bill[c])
  /\ Billed(c, Actual + bill[c])
  /\ cached' = TRUE
  /\ Goto(c, "settled")
  /\ UNCHANGED <<chain, ground>>

\* The upstream refuses: a cheap attempt leaves its receipt, and no charge.
Refused(c) ==
  /\ pc[c] = "upstream" /\ LoopFree
  /\ ReleaseHold(c)
  /\ Goto(c, IF bill[c] > 0 THEN "settled" ELSE "done")
  /\ UNCHANGED <<bill, cached, chain, ground>>

\* The upstream cannot be reached: a cheap attempt leaves nothing.
Unreachable(c) ==
  /\ pc[c] = "upstream" /\ LoopFree
  /\ ReleaseHold(c)
  /\ Billed(c, 0)
  /\ Goto(c, "done")
  /\ UNCHANGED <<cached, chain, ground>>

-----------------------------------------------------------------------------
(* _governed_stream. *)

\* The stream ends with its usage, or is cut off at its hold.
StreamEnds(c) ==
  /\ pc[c] = "stream"
  /\ \E cost \in {Actual, Est} : SettleHold(c, cost) /\ Billed(c, cost)
  /\ Goto(c, "settled")
  /\ UNCHANGED <<cached, chain, ground>>

StreamFails(c) ==
  /\ pc[c] = "stream"
  /\ ReleaseHold(c)
  /\ Goto(c, "done")
  /\ UNCHANGED <<bill, cached, chain, ground>>

\* The client leaves: the generator is closed where it yields, past both the
\* except clause and the settlement.
ClientLeaves(c) ==
  /\ pc[c] = "stream"
  /\ Goto(c, "done")
  /\ UNCHANGED <<money, chain, ground>>

-----------------------------------------------------------------------------
(* _emit_receipt. *)

Last(seq) == seq[Len(seq)]

Emit(c) ==
  /\ pc[c] = "settled"
  /\ receipts' = Append(receipts, [call |-> c, prev |-> head, cost |-> bill[c]])
  /\ head' = c
  /\ Goto(c, "emitted")
  /\ UNCHANGED <<money, loaded, ground>>

\* The append, outside the lock.  A line begun by a crash swallows it.
Write(c) ==
  /\ pc[c] = "emitted"
  /\ IF file # <<>> /\ Last(file) = Torn
     THEN /\ file' = [file EXCEPT ![Len(file)] = Junk]
          /\ lost' = lost \cup {c}
     ELSE /\ \E i \in DOMAIN receipts :
               receipts[i].call = c /\ file' = Append(file, receipts[i])
          /\ UNCHANGED lost
  /\ Goto(c, "done")
  /\ UNCHANGED <<money, chain, anchors>>

-----------------------------------------------------------------------------
(* Anchoring, time, and the process stopping. *)

\* anchor_if_new, on its own thread or at an administrator's request.
Anchor ==
  /\ head # Genesis /\ head \notin anchors
  /\ anchors' = anchors \cup {head}
  /\ UNCHANGED <<pc, money, chain, file, lost>>

HoldExpires(c) ==
  /\ hold[c] > 0
  /\ hold' = [hold EXCEPT ![c] = 0]
  /\ UNCHANGED <<pc, charged, bill, cached, chain, ground>>

\* A fault: what follows a malformed line is not read.
ParsedUpToJunk(lines) ==
  LET ok(n) == \A i \in 1 .. n : lines[i] \notin {Torn, Junk}
      n     == CHOOSE k \in 0 .. Len(lines) : ok(k) /\ (k = Len(lines) \/ ~ok(k + 1))
  IN  SubSeq(lines, 1, n)

\* The lines of a file that parse, and the k-th of them.
Good(lines) == {i \in DOMAIN lines : lines[i] \notin {Torn, Junk}}
Nth(S, k)   == CHOOSE i \in S : Cardinality({j \in S : j <= i}) = k

\* The receipts of a file, in its order: malformed lines are skipped.
Parsed(lines) ==
  [k \in 1 .. Cardinality(Good(lines)) |-> lines[Nth(Good(lines), k)]]

Broken(seq) ==
  \E i \in DOMAIN seq : seq[i].prev # IF i = 1 THEN Genesis ELSE seq[i - 1].call

\* A fault: the count of a process that begins is that of its file's lines.
LoadMiscounted ==
  /\ receipts' = Parsed(file')
  /\ head' = IF receipts' = <<>> THEN Genesis ELSE Last(receipts').call
  /\ loaded' = Len(file')

\* A fault: only the end of a long history is kept.
LoadTail ==
  /\ LET all == Parsed(file')
     IN  receipts' = SubSeq(all, IF Len(all) > 2 THEN Len(all) - 1 ELSE 1, Len(all))
  /\ head' = IF receipts' = <<>> THEN Genesis ELSE Last(receipts').call
  /\ loaded' = Len(receipts')

\* A fault: the chain starts again at genesis.
LoadHeadless ==
  /\ receipts' = Parsed(file')
  /\ head' = Genesis
  /\ loaded' = Len(receipts')

\* _load_persisted_receipts: the head is the last line's.
Load ==
  /\ receipts' = Parsed(file')
  /\ head' = IF receipts' = <<>> THEN Genesis ELSE Last(receipts').call
  /\ loaded' = Len(receipts')

\* A new process: calls, holds and the cache are gone, charges are not.
Boot ==
  /\ Load
  /\ pc' = [c \in Calls |-> IF pc[c] = "idle" THEN "idle" ELSE "done"]
  /\ hold' = [c \in Calls |-> 0]
  /\ cached' = FALSE
  /\ lost' = lost \cup {c \in Calls : pc[c] \in {"settled", "emitted"}}
  /\ UNCHANGED <<charged, bill, anchors>>

Restart ==
  /\ CleanStops => \A c \in Calls : pc[c] \in {"idle", "done"}
  /\ UNCHANGED file
  /\ Boot

\* The process stops in the middle of an append.
CrashInWrite(c) ==
  /\ ~CleanStops
  /\ pc[c] = "emitted"
  /\ file' = Append(file, Torn)
  /\ Boot

-----------------------------------------------------------------------------

Init ==
  /\ pc = [c \in Calls |-> "idle"]
  /\ hold = [c \in Calls |-> 0]
  /\ charged = hold /\ bill = hold
  /\ cached = FALSE
  /\ receipts = <<>> /\ head = Genesis /\ loaded = 0
  /\ file = <<>> /\ anchors = {} /\ lost = {}

Next ==
  \/ \E c \in Calls :
       \/ Hit(c) \/ Reserve(c)
       \/ CheapAccepted(c) \/ Escalate(c)
       \/ Answer(c) \/ Refused(c) \/ Unreachable(c)
       \/ StreamEnds(c) \/ StreamFails(c) \/ ClientLeaves(c)
       \/ Emit(c) \/ Write(c) \/ CrashInWrite(c)
       \/ HoldExpires(c)
  \/ Anchor
  \/ Restart

Spec == Init /\ [][Next]_vars

-----------------------------------------------------------------------------
(* Properties. *)

\* Whatever verify_chain reports broken was read from the file: the receipts
\* of this process, and the link from the history to them, always hold.
\* A head once published is in the chain of every later process, unless its
\* receipt is one the file never showed.  Concerns the head, advanced under the
\* lock and taken over at load, and what anchor_if_new publishes.
BreaksAreHistory ==
  /\ \A i \in DOMAIN receipts :
       i > loaded => receipts[i].prev = IF i = 1 THEN Genesis ELSE receipts[i - 1].call
  /\ \A a \in anchors : a \in lost \/ \E i \in DOMAIN receipts : receipts[i].call = a

\* A break stays visible (gateway.py, lines 394 to 397): no later receipt and
\* no restart makes a broken chain verify again.
BreakStays == [][Broken(receipts) => Broken(receipts)']_vars

\* Every charge can be shown: its receipt is in the chain, or is about to be,
\* unless the process stopped between the two or in the append.  And a receipt
\* never claims less or more than was charged, unless nothing was charged at
\* all: the hold had expired, or the upstream refused after a cheap attempt.
ChargeHasReceipt ==
  /\ \A c \in Calls :
       charged[c] > 0 =>
         \/ pc[c] = "settled" \/ c \in lost
         \/ \E i \in DOMAIN receipts : receipts[i].call = c /\ receipts[i].cost = charged[c]
  /\ \A i \in DOMAIN receipts : charged[receipts[i].call] \in {0, receipts[i].cost}

\* gateway.py, line 391: the chain survives restarts.
ChainSurvives == ~Broken(receipts)
=============================================================================
