------------------------- MODULE SignetGatewayProofs -------------------------
(***************************************************************************)
(* Proofs about SignetGateway, for any calls, streams, prices and caps:    *)
(* its types, that a break of the chain of receipts was read from the file *)
(* and stays, and that every charge has its receipt.                       *)
(*                                                                         *)
(* The argument follows a receipt.  Its call says whether it is still to   *)
(* be linked, to be written, or done; what is in memory and done is in the *)
(* file or known to be lost.  What was read from the file is the beginning *)
(* of what the next process will read.                                     *)
(***************************************************************************)
EXTENDS SignetGateway, SumLemmas

-----------------------------------------------------------------------------
(* The inductive invariant. *)

\* The receipts in memory, and those a reader of the file finds.
Shown == {receipts[i] : i \in DOMAIN receipts}
Kept  == {file[i] : i \in Good(file)}

\* The head is the last receipt's.
HeadInv == head = IF receipts = <<>> THEN Genesis ELSE Last(receipts).call

\* What this process linked is linked.
LinkInv ==
  \A i \in DOMAIN receipts :
    i > loaded => receipts[i].prev = IF i = 1 THEN Genesis ELSE receipts[i - 1].call

\* What this process found in the file is what the next will find first.
PrefixInv ==
  \A i \in 1 .. loaded : i <= Len(Parsed(file)) /\ Parsed(file)[i] = receipts[i]

\* A receipt is written, to be written, or lost.
WrittenInv ==
  /\ \A r \in Shown : \/ pc[r.call] = "emitted"
                      \/ pc[r.call] = "done" /\ (r.call \in lost \/ r \in Kept)
  /\ Kept \subseteq Shown
  /\ \A r \in Kept : pc[r.call] = "done"
  /\ \A r, s \in Shown : r.call = s.call => r = s

AnchorInv == \A a \in anchors : a \in lost \/ \E r \in Shown : r.call = a

\* A receipt says what was charged.
CostInv ==
  /\ \A r \in Shown \cup Kept : charged[r.call] \in {0, r.cost}
  /\ \A c \in Calls :
       /\ pc[c] \in {"idle", "cheap", "upstream", "stream"} => charged[c] = 0
       /\ pc[c] = "settled" => charged[c] \in {0, bill[c]}
       /\ pc[c] \in {"emitted", "done"} /\ charged[c] > 0 =>
            c \in lost \/ \E r \in Shown : r.call = c /\ r.cost = charged[c]

IInv ==
  /\ TypeOK
  /\ HeadInv /\ LinkInv /\ PrefixInv /\ WrittenInv /\ AnchorInv /\ CostInv

-----------------------------------------------------------------------------
(* The lines of a file that parse: the k-th, for each k up to their number. *)

LEMMA NthFacts ==
  ASSUME NEW S \in SUBSET Nat, IsFiniteSet(S), NEW k \in 1 .. Cardinality(S)
  PROVE  /\ Nth(S, k) \in S
         /\ \A i \in S : Cardinality(Upto(S, i)) = k => i = Nth(S, k)
<1>1. \E i \in S : Cardinality(Upto(S, i)) = k
  BY RankSurjective
<1>2. Nth(S, k) \in S /\ Cardinality(Upto(S, Nth(S, k))) = k
  BY <1>1 DEF Nth, Upto
<1> HIDE DEF Nth
<1>3. ASSUME NEW i \in S, Cardinality(Upto(S, i)) = k PROVE i = Nth(S, k)
  BY <1>2, <1>3, RankInjective
<1> QED
  BY <1>2, <1>3

Line == Receipt \cup {Torn, Junk}

LEMMA GoodFacts ==
  ASSUME NEW lines \in Seq(Line)
  PROVE  /\ Good(lines) \in SUBSET Nat /\ IsFiniteSet(Good(lines))
         /\ Good(lines) \subseteq 1 .. Len(lines)
         /\ \A i \in Good(lines) : lines[i] \in Receipt
<1>1. Good(lines) \subseteq 1 .. Len(lines)
  BY DEF Good
<1>2. IsFiniteSet(1 .. Len(lines))
  BY FS_Interval
<1> QED
  BY <1>1, <1>2, FS_Subset DEF Good, Line

LEMMA NotReceipts == Torn \notin Receipt /\ Junk \notin Receipt /\ Torn # Junk
<1>1. DOMAIN Torn = {"torn"} /\ DOMAIN Junk = {"torn"}
  BY DEF Torn, Junk
<1>2. \A r \in Receipt : "call" \in DOMAIN r
  BY DEF Receipt
<1>3. Torn # Junk
  BY DEF Torn, Junk
<1> QED
  BY <1>1, <1>2, <1>3

\* What a reader finds in a file are its good lines.
LEMMA ParsedFacts ==
  ASSUME NEW lines \in Seq(Line)
  PROVE  /\ Parsed(lines) \in Seq(Receipt)
         /\ Len(Parsed(lines)) = Cardinality(Good(lines)) /\ Cardinality(Good(lines)) \in Nat
         /\ \A k \in 1 .. Len(Parsed(lines)) : Parsed(lines)[k] = lines[Nth(Good(lines), k)]
         /\ {Parsed(lines)[k] : k \in DOMAIN Parsed(lines)} = {lines[i] : i \in Good(lines)}
<1> DEFINE G == Good(lines)
           n == Cardinality(G)
<1>1. G \in SUBSET Nat /\ IsFiniteSet(G) /\ \A i \in G : lines[i] \in Receipt
  BY GoodFacts
<1>2. n \in Nat
  BY <1>1, FS_CardinalityType
<1>3. \A k \in 1 .. n : Nth(G, k) \in G
  <2> HIDE DEF G
  <2> QED
    BY <1>1, NthFacts
<1>4. \A i \in G : \E k \in 1 .. n : i = Nth(G, k)
  <2> HIDE DEF G
  <2> QED
    BY <1>1, RankSurjective, NthFacts
<1>5. Parsed(lines) = [k \in 1 .. n |-> lines[Nth(G, k)]]
  BY DEF Parsed
<1> HIDE DEF G, n
<1>6. Parsed(lines) \in Seq(Receipt) /\ Len(Parsed(lines)) = n
  <2>1. Parsed(lines) \in [1 .. n -> Receipt]
    BY <1>1, <1>3, <1>5
  <2> QED
    BY <1>2, <2>1
<1>7. \A k \in 1 .. n : Parsed(lines)[k] = lines[Nth(G, k)]
  BY <1>5
<1>8. DOMAIN Parsed(lines) = 1 .. n
  BY <1>5
<1>9. {Parsed(lines)[k] : k \in DOMAIN Parsed(lines)} = {lines[i] : i \in G}
  BY <1>3, <1>4, <1>7, <1>8
<1> QED
  BY <1>2, <1>6, <1>7, <1>9 DEF G, n

\* Only the good lines matter.
LEMMA ParsedSame ==
  ASSUME NEW lines \in Seq(Line), NEW more, Good(more) = Good(lines),
         \A i \in Good(lines) : more[i] = lines[i]
  PROVE  /\ Parsed(more) = Parsed(lines)
         /\ {more[i] : i \in Good(more)} = {lines[i] : i \in Good(lines)}
<1>1. \A k \in 1 .. Cardinality(Good(lines)) : Nth(Good(lines), k) \in Good(lines)
  BY GoodFacts, NthFacts
<1> QED
  BY <1>1 DEF Parsed

\* A line whose end is missing is not read,
LEMMA ParsedTorn ==
  ASSUME NEW lines \in Seq(Line)
  PROVE  /\ Append(lines, Torn) \in Seq(Line)
         /\ Parsed(Append(lines, Torn)) = Parsed(lines)
         /\ LET more == Append(lines, Torn)
            IN  {more[i] : i \in Good(more)} = {lines[i] : i \in Good(lines)}
<1> DEFINE more == Append(lines, Torn)
<1>1. /\ more \in Seq(Line) /\ Len(more) = Len(lines) + 1
      /\ \A i \in 1 .. Len(lines) : more[i] = lines[i]
      /\ more[Len(lines) + 1] = Torn
  BY DEF Line
<1> HIDE DEF more
<1>2. Good(more) = Good(lines)
  BY <1>1 DEF Good
<1>3. \A i \in Good(lines) : more[i] = lines[i]
  BY <1>1, GoodFacts
<1> QED
  BY <1>1, <1>2, <1>3, ParsedSame DEF more

\* nor is the line such a one becomes with the next append.
LEMMA ParsedJunk ==
  ASSUME NEW lines \in Seq(Line), lines # <<>>, Last(lines) = Torn
  PROVE  /\ [lines EXCEPT ![Len(lines)] = Junk] \in Seq(Line)
         /\ Parsed([lines EXCEPT ![Len(lines)] = Junk]) = Parsed(lines)
         /\ LET more == [lines EXCEPT ![Len(lines)] = Junk]
            IN  {more[i] : i \in Good(more)} = {lines[i] : i \in Good(lines)}
<1> DEFINE more == [lines EXCEPT ![Len(lines)] = Junk]
<1>1. Len(lines) \in 1 .. Len(lines)
  OBVIOUS
<1>2. /\ more \in Seq(Line) /\ Len(more) = Len(lines)
      /\ \A i \in 1 .. Len(lines) : more[i] = IF i = Len(lines) THEN Junk ELSE lines[i]
  BY <1>1 DEF Line
<1> HIDE DEF more
<1>3. lines[Len(lines)] = Torn
  BY DEF Last
<1>4. Good(more) = Good(lines)
  BY <1>1, <1>2, <1>3 DEF Good
<1>5. \A i \in Good(lines) : more[i] = lines[i]
  BY <1>2, <1>3, GoodFacts DEF Good
<1> QED
  BY <1>2, <1>4, <1>5, ParsedSame DEF more

\* A whole line comes last.
LEMMA ParsedAppend ==
  ASSUME NEW lines \in Seq(Line), NEW r \in Receipt
  PROVE  /\ Append(lines, r) \in Seq(Line)
         /\ Len(Parsed(Append(lines, r))) = Len(Parsed(lines)) + 1
         /\ \A k \in 1 .. Len(Parsed(lines)) : Parsed(Append(lines, r))[k] = Parsed(lines)[k]
         /\ LET more == Append(lines, r)
            IN  {more[i] : i \in Good(more)} = {lines[i] : i \in Good(lines)} \cup {r}
<1> DEFINE more == Append(lines, r)
           n == Len(lines) + 1
           G == Good(lines)
<1>1. /\ more \in Seq(Line) /\ Len(more) = n
      /\ \A i \in 1 .. Len(lines) : more[i] = lines[i]
      /\ more[n] = r /\ n \in Nat
  BY DEF Line
<1> HIDE DEF more
<1>2. Good(more) = G \cup {n} /\ n \notin G
  BY <1>1, NotReceipts DEF Good
<1>3. G \in SUBSET Nat /\ IsFiniteSet(G) /\ G \subseteq 1 .. Len(lines)
  BY GoodFacts
<1>4. \A i \in G : more[i] = lines[i]
  BY <1>1, <1>3
<1>5. Cardinality(Good(more)) = Cardinality(G) + 1
  BY <1>2, <1>3, FS_AddElement
<1>6. Len(Parsed(more)) = Len(Parsed(lines)) + 1
  BY <1>1, <1>5, ParsedFacts
<1>7. ASSUME NEW k \in 1 .. Len(Parsed(lines))
      PROVE  Parsed(more)[k] = Parsed(lines)[k]
  <2> DEFINE i == Nth(G, k)
  <2>1. k \in 1 .. Cardinality(G) /\ Len(Parsed(lines)) \in Nat
    BY ParsedFacts
  <2>2. i \in G /\ Cardinality(Upto(G, i)) = k
    <3>1. \E j \in G : Cardinality(Upto(G, j)) = k
      BY <1>3, <2>1, RankSurjective
    <3> QED
      BY <3>1 DEF Nth, Upto
  <2>3. Upto(Good(more), i) = Upto(G, i)
    BY <1>2, <1>3, <2>2 DEF Upto
  <2>4. k \in 1 .. Len(Parsed(more)) /\ k \in 1 .. Cardinality(Good(more))
    BY <1>1, <1>6, <2>1, ParsedFacts
  <2>5. i = Nth(Good(more), k)
    <3>1. Good(more) \in SUBSET Nat /\ IsFiniteSet(Good(more)) /\ i \in Good(more)
      BY <1>1, <1>2, <2>2, GoodFacts
    <3> HIDE DEF i
    <3> QED
      BY <2>2, <2>3, <2>4, <3>1, NthFacts
  <2>6. Parsed(more)[k] = more[i] /\ Parsed(lines)[k] = lines[i]
    BY <1>1, <2>4, <2>5, ParsedFacts
  <2> QED
    BY <1>4, <2>2, <2>6
<1>8. {more[i] : i \in Good(more)} = {lines[i] : i \in G} \cup {r}
  BY <1>1, <1>2, <1>4
<1> QED
  BY <1>1, <1>6, <1>7, <1>8 DEF more

-----------------------------------------------------------------------------
(* Steps. *)

LEMMA Types ==
  ASSUME TypeOK
  PROVE  /\ file \in Seq(Line) /\ receipts \in Seq(Receipt)
         /\ Len(receipts) \in Nat /\ loaded \in Nat /\ loaded <= Len(receipts)
         /\ Shown \subseteq Receipt /\ Kept \subseteq Receipt
         /\ \A r \in Receipt : r.call \in Calls /\ r.cost \in Nat
<1>1. /\ file \in Seq(Line) /\ receipts \in Seq(Receipt)
      /\ Len(receipts) \in Nat /\ loaded \in Nat /\ loaded <= Len(receipts)
  BY DEF TypeOK, Line
<1>2. Shown \subseteq Receipt
  BY <1>1 DEF Shown
<1>3. Kept \subseteq Receipt
  BY <1>1, GoodFacts DEF Kept
<1>4. \A r \in Receipt : r.call \in Calls /\ r.cost \in Nat
  BY DEF Receipt
<1> QED
  BY <1>1, <1>2, <1>3, <1>4

\* A call that has no receipt yet goes on; the chain and the file stay.
LEMMA MoneyStep ==
  ASSUME IInv, TypeOK', NEW c \in Calls, pc[c] \in {"idle", "cheap", "upstream", "stream"},
         UNCHANGED <<chain, ground>>,
         \A d \in Calls \ {c} : pc'[d] = pc[d] /\ charged'[d] = charged[d] /\ bill'[d] = bill[d],
         pc'[c] # "emitted", pc'[c] # "settled" => charged'[c] = 0,
         charged'[c] \in {0, bill'[c]}
  PROVE  IInv'
<1>1. /\ UNCHANGED receipts /\ UNCHANGED head /\ UNCHANGED loaded
      /\ UNCHANGED file /\ UNCHANGED anchors /\ UNCHANGED lost
  BY DEF chain, ground
<1>2. Shown' = Shown /\ Kept' = Kept
  BY <1>1 DEF Shown, Kept
<1>3. HeadInv' /\ LinkInv' /\ PrefixInv' /\ AnchorInv'
  BY <1>1, <1>2 DEF IInv, HeadInv, LinkInv, PrefixInv, AnchorInv
<1>4. \A r \in Shown \cup Kept : r.call \in Calls \ {c}
  BY Types DEF IInv, WrittenInv
<1>5. WrittenInv'
  BY <1>1, <1>2, <1>4 DEF IInv, WrittenInv
<1>6. CostInv'
  <2>1. \A r \in (Shown \cup Kept)' : charged'[r.call] \in {0, r.cost}
    BY <1>2, <1>4 DEF IInv, CostInv
  <2>2. ASSUME NEW d \in Calls
        PROVE  /\ pc'[d] \in {"idle", "cheap", "upstream", "stream"} => charged'[d] = 0
               /\ pc'[d] = "settled" => charged'[d] \in {0, bill'[d]}
               /\ pc'[d] \in {"emitted", "done"} /\ charged'[d] > 0 =>
                    d \in lost' \/ \E r \in Shown' : r.call = d /\ r.cost = charged'[d]
    <3>1. CASE d = c
      BY <3>1
    <3>2. CASE d # c
      BY <1>1, <1>2, <3>2 DEF IInv, CostInv
    <3> QED
      BY <3>1, <3>2
  <2> QED
    BY <2>1, <2>2 DEF CostInv
<1> QED
  BY <1>3, <1>5, <1>6 DEF IInv

LEMMA TypeFields ==
  ASSUME TypeOK
  PROVE  /\ pc \in [Calls -> {"idle", "cheap", "upstream", "stream", "settled", "emitted", "done"}]
         /\ hold \in [Calls -> {0, Est}] /\ charged \in [Calls -> Nat] /\ bill \in [Calls -> Nat]
         /\ Est \in Nat /\ Cheap \in Nat /\ Actual \in Nat
BY PricesAssumption DEF TypeOK

\* The calls before their receipt.
LEMMA CallInv ==
  ASSUME IInv, NEW c \in Calls,
         \/ Hit(c) \/ Reserve(c) \/ CheapAccepted(c) \/ Escalate(c) \/ Answer(c) \/ Refused(c)
         \/ Unreachable(c) \/ StreamEnds(c) \/ StreamFails(c) \/ ClientLeaves(c)
  PROVE  IInv'
<1> DEFINE PC == {"idle", "cheap", "upstream", "stream", "settled", "emitted", "done"}
           Moved(l, h, ch, b) ==
             /\ pc' = [pc EXCEPT ![c] = l] /\ hold' = [hold EXCEPT ![c] = h]
             /\ charged' = [charged EXCEPT ![c] = ch] /\ bill' = [bill EXCEPT ![c] = b]
             /\ UNCHANGED <<chain, ground>> /\ cached' \in BOOLEAN
<1>1. /\ TypeOK /\ cached \in BOOLEAN
      /\ pc \in [Calls -> PC]
      /\ hold \in [Calls -> {0, Est}] /\ charged \in [Calls -> Nat] /\ bill \in [Calls -> Nat]
      /\ Est \in Nat /\ Cheap \in Nat /\ Actual \in Nat
  BY TypeFields DEF IInv, TypeOK
<1>2. pc[c] \in {"idle", "cheap", "upstream", "stream"}
  BY DEF Hit, Reserve, CheapAccepted, Escalate, Answer, Refused, Unreachable, StreamEnds,
         StreamFails, ClientLeaves
<1>3. charged[c] = 0
  BY <1>2 DEF IInv, CostInv
<1>4. /\ pc = [pc EXCEPT ![c] = pc[c]] /\ hold = [hold EXCEPT ![c] = hold[c]]
      /\ charged = [charged EXCEPT ![c] = 0] /\ bill = [bill EXCEPT ![c] = bill[c]]
  BY <1>1, <1>3
<1>5. \E l \in PC \ {"emitted"}, h \in {0, Est}, ch \in Nat, b \in Nat :
        Moved(l, h, ch, b) /\ ch \in {0, b} /\ (l # "settled" => ch = 0)
  <2>1. CASE Hit(c)
    <3>1. Moved("settled", hold[c], 0, bill[c])
      BY <1>1, <1>4, <2>1 DEF Hit, Goto, money
    <3> QED
      BY <1>1, <3>1
  <2>2. CASE Reserve(c)
    <3>1. \E l \in PC \ {"emitted", "settled"}, h \in {0, Est} : Moved(l, h, 0, bill[c])
      BY <1>1, <1>4, <2>2 DEF Reserve, Goto
    <3> QED
      BY <1>1, <3>1
  <2>3. CASE CheapAccepted(c)
    <3>1. \E ch \in {0, Cheap} : Moved("settled", 0, ch, Cheap)
      BY <1>1, <1>3, <1>4, <2>3 DEF CheapAccepted, Goto, SettleHold, Billed
    <3> QED
      BY <1>1, <3>1
  <2>4. CASE Escalate(c)
    <3>1. PICK b \in {0, Cheap} : Moved("upstream", hold[c], 0, b)
      BY <1>1, <1>4, <2>4 DEF Escalate, Goto, Billed
    <3> HIDE DEF Moved
    <3> QED
      BY <1>1, <3>1
  <2>5. CASE Answer(c)
    <3>1. PICK ch \in {0, Actual + bill[c]} : Moved("settled", 0, ch, Actual + bill[c])
      BY <1>1, <1>3, <1>4, <2>5 DEF Answer, Goto, SettleHold, Billed
    <3>2. Actual + bill[c] \in Nat
      BY <1>1
    <3> HIDE DEF Moved
    <3> QED
      BY <1>1, <3>1, <3>2
  <2>6. CASE Refused(c)
    <3>1. \E l \in {"settled", "done"} : Moved(l, 0, 0, bill[c])
      BY <1>1, <1>4, <2>6 DEF Refused, Goto, ReleaseHold
    <3> QED
      BY <1>1, <3>1
  <2>7. CASE Unreachable(c)
    <3>1. Moved("done", 0, 0, 0)
      BY <1>1, <1>4, <2>7 DEF Unreachable, Goto, ReleaseHold, Billed
    <3> QED
      BY <1>1, <3>1
  <2>8. CASE StreamEnds(c)
    <3>1. PICK cost \in {Actual, Est}, ch \in {0, Actual, Est} :
            ch \in {0, cost} /\ Moved("settled", 0, ch, cost)
      BY <1>1, <1>3, <1>4, <2>8 DEF StreamEnds, Goto, SettleHold, Billed
    <3> HIDE DEF Moved
    <3> QED
      BY <1>1, <3>1
  <2>9. CASE StreamFails(c)
    <3>1. Moved("done", 0, 0, bill[c])
      BY <1>1, <1>4, <2>9 DEF StreamFails, Goto, ReleaseHold
    <3> QED
      BY <1>1, <3>1
  <2>10. CASE ClientLeaves(c)
    <3>1. Moved("done", hold[c], 0, bill[c])
      BY <1>1, <1>4, <2>10 DEF ClientLeaves, Goto, money
    <3> QED
      BY <1>1, <3>1
  <2> QED
    BY <2>1, <2>2, <2>3, <2>4, <2>5, <2>6, <2>7, <2>8, <2>9, <2>10
<1>6. PICK l \in PC \ {"emitted"}, h \in {0, Est}, ch \in Nat, b \in Nat :
        Moved(l, h, ch, b) /\ ch \in {0, b} /\ (l # "settled" => ch = 0)
  BY <1>5
<1>7. TypeOK'
  BY <1>1, <1>6 DEF TypeOK, chain, ground
<1>8. /\ pc'[c] = l /\ charged'[c] = ch /\ bill'[c] = b
      /\ \A d \in Calls \ {c} : pc'[d] = pc[d] /\ charged'[d] = charged[d] /\ bill'[d] = bill[d]
      /\ UNCHANGED <<chain, ground>>
  BY <1>1, <1>6
<1> HIDE DEF Moved, PC
<1> QED
  BY <1>2, <1>6, <1>7, <1>8, MoneyStep

LEMMA HoldExpiresInv ==
  ASSUME IInv, NEW c \in Calls, HoldExpires(c)
  PROVE  IInv'
<1>1. /\ UNCHANGED <<pc, charged, bill, cached, chain, ground>>
      /\ hold' = [hold EXCEPT ![c] = 0]
  BY DEF HoldExpires
<1>2. TypeOK'
  BY <1>1 DEF IInv, TypeOK, chain, ground
<1> QED
  BY <1>1, <1>2 DEF IInv, HeadInv, LinkInv, PrefixInv, WrittenInv, AnchorInv, CostInv, Shown, Kept,
                    chain, ground

LEMMA AnchorInvStep ==
  ASSUME IInv, Anchor
  PROVE  IInv'
<1>1. /\ UNCHANGED <<pc, money, chain, file, lost>> /\ head # Genesis
      /\ anchors' = anchors \cup {head}
  BY DEF Anchor
<1>2. TypeOK'
  BY <1>1 DEF IInv, TypeOK, chain, money
<1>3. Shown' = Shown /\ Kept' = Kept
  BY <1>1 DEF Shown, Kept, chain
<1>4. \E r \in Shown : r.call = head
  <2>1. receipts # <<>> /\ head = Last(receipts).call /\ receipts \in Seq(Receipt)
    BY <1>1, Types DEF IInv, HeadInv
  <2>2. Len(receipts) \in DOMAIN receipts
    BY <2>1
  <2> QED
    BY <2>1, <2>2 DEF Shown, Last
<1>5. AnchorInv'
  BY <1>1, <1>3, <1>4 DEF IInv, AnchorInv
<1> QED
  BY <1>1, <1>2, <1>3, <1>5 DEF IInv, HeadInv, LinkInv, PrefixInv, WrittenInv, CostInv,
                                chain, money

\* A receipt is linked to the head, and nothing else refers to its call.
LEMMA EmitInv ==
  ASSUME IInv, NEW c \in Calls, Emit(c)
  PROVE  IInv' /\ (Broken(receipts) => Broken(receipts)')
<1> DEFINE rec == [call |-> c, prev |-> head, cost |-> bill[c]]
           n == Len(receipts)
<1>1. /\ pc[c] = "settled" /\ receipts' = Append(receipts, rec) /\ head' = c
      /\ pc' = [pc EXCEPT ![c] = "emitted"]
      /\ UNCHANGED <<hold, charged, bill, cached, loaded, file, anchors, lost>>
  BY DEF Emit, Goto, money, ground
<1>2. rec \in Receipt /\ rec.call = c /\ rec.prev = head /\ rec.cost = bill[c]
  BY DEF IInv, TypeOK, Receipt
<1>3. /\ receipts \in Seq(Receipt) /\ n \in Nat /\ loaded \in Nat /\ loaded <= n
      /\ \A r \in Shown \cup Kept : r.call \in Calls
      /\ pc \in [Calls -> {"idle", "cheap", "upstream", "stream", "settled", "emitted", "done"}]
  BY Types, TypeFields DEF IInv
<1> HIDE DEF rec
<1>4. /\ receipts' \in Seq(Receipt) /\ Len(receipts') = n + 1
      /\ \A i \in 1 .. n : receipts'[i] = receipts[i]
      /\ receipts'[n + 1] = rec
  BY <1>1, <1>2, <1>3
<1>5. Shown' = Shown \cup {rec} /\ Kept' = Kept
  <2>1. DOMAIN receipts' = DOMAIN receipts \cup {n + 1} /\ DOMAIN receipts = 1 .. n
    BY <1>3, <1>4
  <2> QED
    BY <1>1, <1>4, <2>1 DEF Shown, Kept
<1>6. TypeOK'
  BY <1>1, <1>3, <1>4 DEF IInv, TypeOK
<1>7. HeadInv'
  BY <1>1, <1>2, <1>3, <1>4 DEF HeadInv, Last
<1>8. LinkInv'
  <2> SUFFICES ASSUME NEW i \in 1 .. n + 1, i > loaded
               PROVE  receipts'[i].prev = IF i = 1 THEN Genesis ELSE receipts'[i - 1].call
    BY <1>1, <1>4 DEF LinkInv
  <2>1. CASE i <= n
    <3>1. i \in 1 .. n /\ i \in DOMAIN receipts /\ i - 1 \in Nat /\ (i # 1 => i - 1 \in 1 .. n)
      BY <1>3, <2>1
    <3>2. receipts[i].prev = IF i = 1 THEN Genesis ELSE receipts[i - 1].call
      BY <3>1 DEF IInv, LinkInv
    <3> QED
      BY <1>4, <3>1, <3>2
  <2>2. CASE i = n + 1
    <3>1. receipts'[i].prev = head
      BY <1>2, <1>4, <2>2
    <3>2. CASE n = 0
      BY <1>3, <2>2, <3>1, <3>2 DEF IInv, HeadInv
    <3>3. CASE n # 0
      <4>1. receipts # <<>> /\ n \in 1 .. n /\ i - 1 = n /\ i # 1
        BY <1>3, <2>2, <3>3
      <4> QED
        BY <1>4, <3>1, <4>1 DEF IInv, HeadInv, Last
    <3> QED
      BY <3>2, <3>3
  <2> QED
    BY <1>3, <2>1, <2>2
<1>9. PrefixInv'
  BY <1>1, <1>3, <1>4 DEF IInv, PrefixInv
<1>10. \A r \in Shown \cup Kept : r.call # c /\ pc'[r.call] = pc[r.call]
  BY <1>1, <1>3 DEF IInv, WrittenInv
<1>11. WrittenInv'
  <2>1. \A r \in Shown' : \/ pc'[r.call] = "emitted"
                          \/ pc'[r.call] = "done" /\ (r.call \in lost' \/ r \in Kept')
    BY <1>1, <1>2, <1>3, <1>5, <1>10 DEF IInv, WrittenInv
  <2>2. \A r \in Kept' : pc'[r.call] = "done"
    BY <1>5, <1>10 DEF IInv, WrittenInv
  <2>3. \A r, s \in Shown' : r.call = s.call => r = s
    BY <1>2, <1>5, <1>10 DEF IInv, WrittenInv
  <2>4. Kept' \subseteq Shown'
    BY <1>5 DEF IInv, WrittenInv
  <2> QED
    BY <2>1, <2>2, <2>3, <2>4 DEF WrittenInv
<1>12. AnchorInv'
  BY <1>1, <1>5 DEF IInv, AnchorInv
<1>13. CostInv'
  <2>1. charged[c] \in {0, bill[c]}
    BY <1>1 DEF IInv, CostInv
  <2>2. \A r \in Shown' \cup Kept' : charged'[r.call] \in {0, r.cost}
    BY <1>1, <1>2, <1>5, <2>1 DEF IInv, CostInv
  <2>3. ASSUME NEW d \in Calls
        PROVE  /\ pc'[d] \in {"idle", "cheap", "upstream", "stream"} => charged'[d] = 0
               /\ pc'[d] = "settled" => charged'[d] \in {0, bill'[d]}
               /\ pc'[d] \in {"emitted", "done"} /\ charged'[d] > 0 =>
                    d \in lost' \/ \E r \in Shown' : r.call = d /\ r.cost = charged'[d]
    <3>1. CASE d = c
      BY <1>1, <1>2, <1>3, <1>5, <2>1, <3>1
    <3>2. CASE d # c
      BY <1>1, <1>3, <1>5, <3>2 DEF IInv, CostInv
    <3> QED
      BY <3>1, <3>2
  <2> QED
    BY <2>2, <2>3 DEF CostInv
<1>14. Broken(receipts) => Broken(receipts)'
  <2> SUFFICES ASSUME NEW i \in DOMAIN receipts,
                      receipts[i].prev # IF i = 1 THEN Genesis ELSE receipts[i - 1].call
               PROVE  Broken(receipts')
    BY DEF Broken
  <2>1. i \in 1 .. n /\ i \in DOMAIN receipts' /\ (i # 1 => i - 1 \in 1 .. n)
    BY <1>3, <1>4
  <2>2. receipts'[i].prev # IF i = 1 THEN Genesis ELSE receipts'[i - 1].call
    BY <1>4, <2>1
  <2> QED
    BY <2>1, <2>2 DEF Broken
<1> QED
  BY <1>6, <1>7, <1>8, <1>9, <1>11, <1>12, <1>13, <1>14 DEF IInv

\* The receipt of a call comes to be in the file, or in a torn line's place.
LEMMA WriteInv ==
  ASSUME IInv, NEW c \in Calls, Write(c)
  PROVE  IInv'
<1>1. /\ pc[c] = "emitted" /\ pc' = [pc EXCEPT ![c] = "done"]
      /\ UNCHANGED <<hold, charged, bill, cached, receipts, head, loaded, anchors>>
  BY DEF Write, Goto, money, chain
<1>2. /\ file \in Seq(Line) /\ receipts \in Seq(Receipt)
      /\ \A r \in Shown \cup Kept : r.call \in Calls
      /\ pc \in [Calls -> {"idle", "cheap", "upstream", "stream", "settled", "emitted", "done"}]
      /\ loaded \in Nat
  BY Types, TypeFields DEF IInv
<1>3. Shown' = Shown
  BY <1>1 DEF Shown
<1>4. /\ file' \in Seq(Line)
      /\ \A i \in 1 .. Len(Parsed(file)) :
           i <= Len(Parsed(file')) /\ Parsed(file')[i] = Parsed(file)[i]
      /\ Len(Parsed(file)) \in Nat
      /\ \/ Kept' = Kept /\ lost' = lost \cup {c}
         \/ \E r \in Shown : r.call = c /\ Kept' = Kept \cup {r} /\ lost' = lost
  <2>1. Len(Parsed(file)) \in Nat
    BY <1>2, ParsedFacts
  <2>2. CASE file # <<>> /\ Last(file) = Torn
    <3>1. file' = [file EXCEPT ![Len(file)] = Junk] /\ lost' = lost \cup {c}
      BY <2>2 DEF Write
    <3>2. file' \in Seq(Line) /\ Parsed(file') = Parsed(file) /\ Kept' = Kept
      BY <1>2, <2>2, <3>1, ParsedJunk DEF Kept
    <3> QED
      BY <2>1, <3>1, <3>2
  <2>3. CASE ~(file # <<>> /\ Last(file) = Torn)
    <3>1. lost' = lost
      BY <2>3 DEF Write
    <3>2. PICK i \in DOMAIN receipts : receipts[i].call = c /\ file' = Append(file, receipts[i])
      BY <2>3 DEF Write
    <3> DEFINE r == receipts[i]
    <3>3. r \in Shown /\ r \in Receipt /\ r.call = c /\ file' = Append(file, r)
      BY <1>2, <3>2 DEF Shown
    <3> HIDE DEF r
    <3>4. /\ file' \in Seq(Line) /\ Len(Parsed(file')) = Len(Parsed(file)) + 1
          /\ \A k \in 1 .. Len(Parsed(file)) : Parsed(file')[k] = Parsed(file)[k]
          /\ Kept' = Kept \cup {r}
      <4> DEFINE new == Append(file, r)
      <4>1. /\ new \in Seq(Line) /\ Len(Parsed(new)) = Len(Parsed(file)) + 1
            /\ \A k \in 1 .. Len(Parsed(file)) : Parsed(new)[k] = Parsed(file)[k]
            /\ {new[k] : k \in Good(new)} = Kept \cup {r}
        BY <1>2, <3>3, ParsedAppend DEF Kept
      <4> HIDE DEF new
      <4>2. file' = new
        BY <3>3 DEF new
      <4> QED
        BY <4>1, <4>2 DEF Kept
    <3>5. \A k \in 1 .. Len(Parsed(file)) :
            k <= Len(Parsed(file')) /\ Parsed(file')[k] = Parsed(file)[k]
      BY <2>1, <3>4
    <3>6. \E x \in Shown : x.call = c /\ Kept' = Kept \cup {x} /\ lost' = lost
      BY <3>1, <3>3, <3>4, Zenon
    <3> QED
      BY <2>1, <3>4, <3>5, <3>6, Zenon
  <2> QED
    BY <2>2, <2>3
<1>5. TypeOK'
  BY <1>1, <1>2, <1>4 DEF IInv, TypeOK, Line
<1>6. HeadInv' /\ LinkInv'
  BY <1>1 DEF IInv, HeadInv, LinkInv
<1>7. PrefixInv'
  <2> SUFFICES ASSUME NEW i \in 1 .. loaded
               PROVE  i <= Len(Parsed(file')) /\ Parsed(file')[i] = receipts[i]
    BY <1>1 DEF PrefixInv
  <2>1. i <= Len(Parsed(file)) /\ Parsed(file)[i] = receipts[i]
    BY DEF IInv, PrefixInv
  <2>2. i \in 1 .. Len(Parsed(file))
    BY <1>2, <1>4, <2>1
  <2> QED
    BY <1>4, <2>1, <2>2
<1>8. \A r \in Kept : r.call # c
  BY <1>1 DEF IInv, WrittenInv
<1>9. WrittenInv'
  BY <1>1, <1>2, <1>3, <1>4, <1>8 DEF IInv, WrittenInv
<1>10. AnchorInv'
  BY <1>1, <1>3, <1>4 DEF IInv, AnchorInv
<1>11. CostInv'
  BY <1>1, <1>2, <1>3, <1>4 DEF IInv, CostInv
<1> QED
  BY <1>5, <1>6, <1>7, <1>9, <1>10, <1>11 DEF IInv

\* A new process finds what the old one knew to be written, and all it had
\* found itself.
LEMMA BootInv ==
  ASSUME IInv, Boot, file' \in Seq(Line), Parsed(file') = Parsed(file), Kept' = Kept
  PROVE  IInv' /\ (Broken(receipts) => Broken(receipts)')
<1>1. /\ receipts' = Parsed(file)
      /\ head' = IF receipts' = <<>> THEN Genesis ELSE Last(receipts').call
      /\ loaded' = Len(receipts')
      /\ pc' = [d \in Calls |-> IF pc[d] = "idle" THEN "idle" ELSE "done"]
      /\ hold' = [d \in Calls |-> 0] /\ cached' = FALSE
      /\ lost' = lost \cup {d \in Calls : pc[d] \in {"settled", "emitted"}}
      /\ UNCHANGED <<charged, bill, anchors>>
  BY DEF Boot, Load
<1>2. /\ file \in Seq(Line) /\ receipts \in Seq(Receipt) /\ Len(receipts) \in Nat
      /\ loaded \in Nat /\ loaded <= Len(receipts)
      /\ \A r \in Shown \cup Kept : r.call \in Calls
      /\ pc \in [Calls -> {"idle", "cheap", "upstream", "stream", "settled", "emitted", "done"}]
  BY Types, TypeFields DEF IInv
<1>3. receipts' \in Seq(Receipt) /\ Len(receipts') \in Nat /\ Shown' = Kept
  BY <1>1, <1>2, ParsedFacts, ZenonT(60) DEF Shown, Kept
<1>4. \A r \in Kept : r.call \in Calls /\ pc'[r.call] = "done"
  BY <1>1, <1>2 DEF IInv, WrittenInv
<1>5. ASSUME NEW r \in Shown PROVE r.call \in lost' \/ r \in Kept
  BY <1>1, <1>2 DEF IInv, WrittenInv
<1>6. TypeOK'
  <2>1. head' \in Calls \cup {Genesis}
    <3>1. CASE receipts' = <<>>
      BY <1>1, <3>1
    <3>2. CASE receipts' # <<>>
      <4>1. Len(receipts') \in 1 .. Len(receipts')
        BY <1>3, <3>2
      <4>2. receipts'[Len(receipts')] \in Receipt
        BY <1>3, <4>1
      <4> QED
        BY <1>1, <3>2, <4>2 DEF Last, Receipt
    <3> QED
      BY <3>1, <3>2
  <2>2. loaded' \in 0 .. Len(receipts')
    BY <1>1, <1>3
  <2>3. /\ pc' \in [Calls -> {"idle", "cheap", "upstream", "stream", "settled", "emitted", "done"}]
        /\ hold' \in [Calls -> {0, Est}] /\ cached' \in BOOLEAN
    BY <1>1
  <2>4. lost' \subseteq Calls
    BY <1>1 DEF IInv, TypeOK
  <2> QED
    BY <1>1, <1>3, <2>1, <2>2, <2>3, <2>4 DEF IInv, TypeOK, Line
<1>7. HeadInv'
  BY <1>1 DEF HeadInv
<1>8. LinkInv'
  BY <1>1, <1>3 DEF LinkInv
<1>9. PrefixInv'
  BY <1>1, <1>3 DEF PrefixInv
<1>10. \A r, s \in Kept : r.call = s.call => r = s
  BY DEF IInv, WrittenInv
<1>11. WrittenInv'
  BY <1>3, <1>4, <1>10 DEF WrittenInv
<1>12. AnchorInv'
  BY <1>1, <1>3, <1>5 DEF IInv, AnchorInv
<1>13. CostInv'
  <2>1. \A r \in Shown' \cup Kept' : charged'[r.call] \in {0, r.cost}
    BY <1>1, <1>3 DEF IInv, CostInv
  <2>2. ASSUME NEW d \in Calls
        PROVE  /\ pc'[d] \in {"idle", "cheap", "upstream", "stream"} => charged'[d] = 0
               /\ pc'[d] = "settled" => charged'[d] \in {0, bill'[d]}
               /\ pc'[d] \in {"emitted", "done"} /\ charged'[d] > 0 =>
                    d \in lost' \/ \E r \in Shown' : r.call = d /\ r.cost = charged'[d]
    <3>1. charged' = charged /\ pc'[d] = IF pc[d] = "idle" THEN "idle" ELSE "done"
      BY <1>1
    <3>2. CASE pc[d] \in {"idle", "cheap", "upstream", "stream"}
      BY <3>1, <3>2 DEF IInv, CostInv
    <3>3. CASE pc[d] = "settled"
      BY <1>1, <3>1, <3>3
    <3>4. CASE pc[d] \in {"emitted", "done"}
      <4>1. charged[d] > 0 => d \in lost \/ \E r \in Shown : r.call = d /\ r.cost = charged[d]
        BY <3>4 DEF IInv, CostInv
      <4> QED
        BY <1>1, <1>3, <1>5, <3>1, <3>4, <4>1
    <3> QED
      BY <1>2, <3>2, <3>3, <3>4
  <2> QED
    BY <2>1, <2>2 DEF CostInv
<1>14. Broken(receipts) => Broken(receipts)'
  <2> SUFFICES ASSUME NEW i \in DOMAIN receipts,
                      receipts[i].prev # IF i = 1 THEN Genesis ELSE receipts[i - 1].call
               PROVE  Broken(receipts')
    BY DEF Broken
  <2>1. i \in 1 .. loaded /\ (i # 1 => i - 1 \in 1 .. loaded)
    BY <1>2 DEF IInv, LinkInv
  <2>2. i <= Len(receipts') /\ receipts'[i] = receipts[i]
    BY <1>1, <2>1 DEF IInv, PrefixInv
  <2>3. i # 1 => receipts'[i - 1] = receipts[i - 1]
    BY <1>1, <2>1 DEF IInv, PrefixInv
  <2>4. i \in DOMAIN receipts'
    BY <1>3, <2>1, <2>2
  <2> QED
    BY <2>2, <2>3, <2>4 DEF Broken
<1> QED
  BY <1>6, <1>7, <1>8, <1>9, <1>11, <1>12, <1>13, <1>14 DEF IInv

LEMMA RestartInv ==
  ASSUME IInv, Restart \/ \E c \in Calls : CrashInWrite(c)
  PROVE  IInv' /\ (Broken(receipts) => Broken(receipts)')
<1>1. file \in Seq(Line)
  BY Types DEF IInv
<1>2. CASE Restart
  <2>1. Boot /\ file' = file
    BY <1>2 DEF Restart
  <2>2. Kept' = Kept
    BY <2>1 DEF Kept
  <2> QED
    BY <1>1, <2>1, <2>2, BootInv
<1>3. CASE \E c \in Calls : CrashInWrite(c)
  <2>1. Boot /\ file' = Append(file, Torn)
    BY <1>3 DEF CrashInWrite
  <2>2. file' \in Seq(Line) /\ Parsed(file') = Parsed(file) /\ Kept' = Kept
    BY <1>1, <2>1, ParsedTorn DEF Kept
  <2> QED
    BY <2>1, <2>2, BootInv
<1> QED
  BY <1>2, <1>3

-----------------------------------------------------------------------------
(* The invariant holds of every run. *)

LEMMA InitInv ==
  ASSUME Init
  PROVE  IInv
<1>1. /\ pc = [c \in Calls |-> "idle"] /\ hold = [c \in Calls |-> 0]
      /\ charged = [c \in Calls |-> 0] /\ bill = [c \in Calls |-> 0]
      /\ cached = FALSE /\ receipts = <<>> /\ head = Genesis /\ loaded = 0
      /\ file = <<>> /\ anchors = {} /\ lost = {}
  BY DEF Init
<1>2. Len(receipts) = 0 /\ DOMAIN receipts = {} /\ DOMAIN file = {}
  BY <1>1
<1>3. TypeOK
  <2>1. receipts \in Seq(Receipt) /\ file \in Seq(Receipt \cup {Torn, Junk})
    BY <1>1
  <2>2. loaded \in 0 .. Len(receipts)
    BY <1>1, <1>2
  <2>3. /\ pc \in [Calls -> {"idle", "cheap", "upstream", "stream", "settled", "emitted", "done"}]
        /\ hold \in [Calls -> {0, Est}] /\ charged \in [Calls -> Nat] /\ bill \in [Calls -> Nat]
        /\ cached \in BOOLEAN /\ head \in Calls \cup {Genesis}
        /\ anchors \subseteq Calls /\ lost \subseteq Calls
    BY <1>1
  <2> QED
    BY <2>1, <2>2, <2>3 DEF TypeOK
<1>4. Shown = {} /\ Kept = {}
  BY <1>2 DEF Shown, Kept, Good
<1> QED
  BY <1>1, <1>2, <1>3, <1>4 DEF IInv, HeadInv, LinkInv, PrefixInv, WrittenInv, AnchorInv, CostInv

LEMMA StepInv ==
  ASSUME IInv, [Next]_vars
  PROVE  IInv' /\ (Broken(receipts) => Broken(receipts)')
<1>1. ASSUME NEW c \in Calls,
             \/ Hit(c) \/ Reserve(c) \/ CheapAccepted(c) \/ Escalate(c) \/ Answer(c) \/ Refused(c)
             \/ Unreachable(c) \/ StreamEnds(c) \/ StreamFails(c) \/ ClientLeaves(c)
      PROVE  IInv' /\ (Broken(receipts) => Broken(receipts)')
  <2>1. receipts' = receipts
    BY <1>1 DEF Hit, Reserve, CheapAccepted, Escalate, Answer, Refused, Unreachable, StreamEnds,
                StreamFails, ClientLeaves, chain
  <2> QED
    BY <1>1, <2>1, CallInv
<1>2. ASSUME NEW c \in Calls, Emit(c)
      PROVE  IInv' /\ (Broken(receipts) => Broken(receipts)')
  BY <1>2, EmitInv
<1>3. ASSUME NEW c \in Calls, Write(c) \/ HoldExpires(c)
      PROVE  IInv' /\ (Broken(receipts) => Broken(receipts)')
  <2>1. receipts' = receipts
    BY <1>3 DEF Write, HoldExpires, chain
  <2> QED
    BY <1>3, <2>1, WriteInv, HoldExpiresInv
<1>4. CASE Anchor
  <2>1. receipts' = receipts
    BY <1>4 DEF Anchor, chain
  <2> QED
    BY <1>4, <2>1, AnchorInvStep
<1>5. CASE Restart \/ \E c \in Calls : CrashInWrite(c)
  BY <1>5, RestartInv
<1>6. CASE UNCHANGED vars
  <2>1. IInv'
    <3>1. /\ UNCHANGED <<pc, hold, charged, bill, cached, receipts, head, file, anchors, loaded, lost>>
          /\ Shown' = Shown /\ Kept' = Kept
      BY <1>6 DEF vars, Shown, Kept
    <3>2. TypeOK' /\ HeadInv' /\ LinkInv' /\ PrefixInv'
      BY <3>1 DEF IInv, TypeOK, HeadInv, LinkInv, PrefixInv
    <3>3. WrittenInv' /\ AnchorInv' /\ CostInv'
      BY <3>1 DEF IInv, WrittenInv, AnchorInv, CostInv
    <3> QED
      BY <3>2, <3>3 DEF IInv
  <2>2. receipts' = receipts
    BY <1>6 DEF vars
  <2> QED
    BY <2>1, <2>2
<1> QED
  BY <1>1, <1>2, <1>3, <1>4, <1>5, <1>6 DEF Next

LEMMA Invariant == Spec => []IInv
BY InitInv, StepInv, PTL DEF Spec

\* Every variable keeps its type; a load counts as loaded what it has loaded.
THEOREM TypeCorrect == Spec => []TypeOK
<1>1. IInv => TypeOK
  BY DEF IInv
<1> QED
  BY <1>1, Invariant, PTL

\* Whatever verify_chain reports broken was read from the file, and a head
\* once published is in the chain of every later process unless its receipt
\* was lost: _emit_receipt from several threads, torn lines, and restarts.
THEOREM BreaksAreAlwaysHistory == Spec => []BreaksAreHistory
<1>1. IInv => BreaksAreHistory
  BY DEF IInv, LinkInv, AnchorInv, Shown, BreaksAreHistory
<1> QED
  BY <1>1, Invariant, PTL

\* Every charge has its receipt, of the same amount, but for those that are
\* about to be emitted or were lost; and no receipt claims another amount than
\* was charged: settle against _emit_receipt, in every path of a call.
THEOREM ChargesHaveReceipts == Spec => []ChargeHasReceipt
<1>1. IInv => ChargeHasReceipt
  <2> SUFFICES ASSUME IInv PROVE ChargeHasReceipt
    OBVIOUS
  <2>1. ASSUME NEW c \in Calls, charged[c] > 0
        PROVE  \/ pc[c] = "settled" \/ c \in lost
               \/ \E i \in DOMAIN receipts : receipts[i].call = c /\ receipts[i].cost = charged[c]
    <3>1. pc[c] \in {"idle", "cheap", "upstream", "stream", "settled", "emitted", "done"}
      BY TypeFields DEF IInv
    <3>2. pc[c] \notin {"idle", "cheap", "upstream", "stream"}
      BY <2>1 DEF IInv, CostInv
    <3>3. pc[c] \in {"emitted", "done"} =>
            c \in lost \/ \E r \in Shown : r.call = c /\ r.cost = charged[c]
      BY <2>1 DEF IInv, CostInv
    <3> QED
      BY <3>1, <3>2, <3>3 DEF Shown
  <2>2. \A i \in DOMAIN receipts : charged[receipts[i].call] \in {0, receipts[i].cost}
    BY DEF IInv, CostInv, Shown
  <2> QED
    BY <2>1, <2>2 DEF ChargeHasReceipt
<1> QED
  BY <1>1, Invariant, PTL

\* A break stays visible (gateway.py, lines 394 to 397): no later receipt and
\* no restart, whole or in the middle of an append, makes the chain verify.
THEOREM BreaksStay == Spec => BreakStays
<1>1. IInv /\ [Next]_vars => [Broken(receipts) => Broken(receipts)']_vars
  BY StepInv
<1> QED
  BY <1>1, Invariant, PTL DEF Spec, BreakStays
=============================================================================
