----------------------------- MODULE BlobTransfer -----------------------------
(***************************************************************************)
(* One blob sent in chunks over a channel that may lose, duplicate, reorder*)
(* and alter messages: v2/core/blob_transfer.py.  The sender streams the   *)
(* chunks once and again on request (NACK); the receiver stores the first  *)
(* copy of each chunk, compares the Merkle root of what it stored with the *)
(* offer's, and tells both its caller and the sender (DONE).               *)
(*                                                                         *)
(* Whatever was sent stays on the wire, so every delivery may come late,   *)
(* twice, in any order or never.  A chunk whose own hash does not match is *)
(* dropped, which is a loss; one altered together with its hash is kept and*)
(* only the root tells.  Hashes do not collide.                            *)
(***************************************************************************)
EXTENDS Naturals, FiniteSets

CONSTANTS NumChunks

\* _chunk_blob yields at least one chunk, for an empty blob too.
ASSUME BlobHasChunks == NumChunks \in Nat \ {0}

VARIABLES
    wire,       \* the messages sent so far, both ways
    sender,     \* where send_blob is, and what it returned
    next,       \* the chunk send_blob streams next
    done,       \* the DONE that came last: rec.ok under rec.done_event
    record,     \* the receiver's _inflight entry: its chunks, or none
    linked,     \* whether the entry of _futures is the record's own future
    future,     \* the _futures entry: absent, pending, or resolved
    taken,      \* what receive and receive_any handed to their callers
    assembled   \* what _finalize put together after the root agreed

blobVars == <<wire, sender, next, done, record, linked, future, taken, assembled>>

Chunks == 1..NumChunks
Data == {"own", "altered"}
NoRecord == [i \in {} |-> "own"]
Empty == [i \in Chunks |-> "missing"]
Sent == [i \in Chunks |-> "own"]
Blobs == [Chunks -> Data]

Offer == [op |-> "OFFER"]
Chunk(i) == [op |-> "CHUNK", index |-> i]
Nack(i) == [op |-> "NACK", index |-> i]
Done(ok) == [op |-> "DONE", ok |-> ok]

BlobInit ==
    /\ wire = {} /\ sender = "idle" /\ next = 1 /\ done = "none"
    /\ record = NoRecord /\ linked = FALSE
    /\ future = "absent" /\ taken = {} /\ assembled = {}

-----------------------------------------------------------------------------
\* The sender keeps its record until send_blob returns.
InFlight == sender \in {"streaming", "waiting"}

SendOffer ==
    /\ sender = "idle" /\ sender' = "streaming"
    /\ wire' = wire \cup {Offer}
    /\ UNCHANGED <<next, done, record, linked, future, taken, assembled>>

\* The stream yields after every chunk; then send_blob waits for DONE.
SendChunk ==
    /\ sender = "streaming" /\ next \in Chunks
    /\ wire' = wire \cup {Chunk(next)}
    /\ next' = next + 1
    /\ sender' = IF next = NumChunks THEN "waiting" ELSE sender
    /\ UNCHANGED <<done, record, linked, future, taken, assembled>>

\* BLOB_NACK: while the blob is in flight, send again each chunk it names.
Retransmit(i) ==
    /\ Nack(i) \in wire /\ InFlight
    /\ wire' = wire \cup {Chunk(i)}
    /\ UNCHANGED <<sender, next, done, record, linked, future, taken, assembled>>

\* BLOB_DONE: noted while the blob is in flight; a later one overwrites.
HearDone(ok) ==
    /\ Done(ok) \in wire /\ InFlight
    /\ done' = IF ok THEN "ok" ELSE "refused"
    /\ UNCHANGED <<wire, sender, next, record, linked, future, taken, assembled>>

\* send_blob returns: True on a DONE that is ok, False otherwise or in time.
SendReturns ==
    /\ sender = "waiting" /\ done # "none"
    /\ sender' = IF done = "ok" THEN "sent" ELSE "failed"
    /\ UNCHANGED <<wire, next, done, record, linked, future, taken, assembled>>

SendTimesOut ==
    /\ sender = "waiting" /\ done = "none"
    /\ sender' = "failed"
    /\ UNCHANGED <<wire, next, done, record, linked, future, taken, assembled>>

-----------------------------------------------------------------------------
\* _handle_offer: a second one is ignored while the blob is being received,
\* and opens it anew afterwards.
HandleOffer ==
    /\ Offer \in wire /\ record = NoRecord
    /\ record' = Empty /\ linked' = TRUE
    /\ future' = IF future = "absent" THEN "pending" ELSE future
    /\ UNCHANGED <<wire, sender, next, done, taken, assembled>>

\* A fault: complete is taken for correct.
AnyRoot(c) == c \in Blobs

\* The root over the stored chunks is the one of the offer.
RootMatches(c) == c = Sent

\* The record's future takes a result once; an unlinked one has no reader.
Resolve(p) == future' = IF linked /\ future = "pending" THEN p ELSE future

\* _finalize, when the last chunk is stored.
Finish(c) ==
    /\ record' = NoRecord /\ linked' = FALSE
    /\ wire' = wire \cup {Done(RootMatches(c))}
    /\ IF RootMatches(c)
       THEN Resolve("whole") /\ assembled' = assembled \cup {c}
       ELSE Resolve("error") /\ UNCHANGED assembled

\* _handle_chunk: the first copy of a chunk stays.
HandleChunk(i, data) ==
    /\ Chunk(i) \in wire /\ record # NoRecord /\ record[i] = "missing"
    /\ LET kept == [record EXCEPT ![i] = data]
       IN  IF kept \in Blobs
           THEN Finish(kept)
           ELSE record' = kept /\ UNCHANGED <<wire, linked, future, assembled>>
    /\ UNCHANGED <<sender, next, done, taken>>

\* _nack_loop: ask for what is missing, or give the blob up.
AskAgain ==
    /\ record # NoRecord
    /\ wire' = wire \cup {Nack(i) : i \in {k \in Chunks : record[k] = "missing"}}
    /\ UNCHANGED <<sender, next, done, record, linked, future, taken, assembled>>

ReceiveTimesOut ==
    /\ record # NoRecord
    /\ record' = NoRecord /\ linked' = FALSE
    /\ Resolve("error")
    /\ UNCHANGED <<wire, sender, next, done, taken, assembled>>

\* receive: wait on the entry of _futures, made here if there is none, ...
Receive ==
    /\ future = "absent" /\ future' = "pending" /\ linked' = FALSE
    /\ UNCHANGED <<wire, sender, next, done, record, taken, assembled>>

\* ... take what it holds (receive_any does the same), ...
Take ==
    /\ future \in {"whole", "error"}
    /\ taken' = taken \cup {future}
    /\ future' = "absent" /\ linked' = FALSE
    /\ UNCHANGED <<wire, sender, next, done, record, assembled>>

\* ... or cancel and forget it: the record keeps the cancelled one.
StopWaiting ==
    /\ future = "pending" /\ future' = "absent" /\ linked' = FALSE
    /\ UNCHANGED <<wire, sender, next, done, record, taken, assembled>>

BlobNext ==
    \/ SendOffer \/ SendChunk \/ SendReturns \/ SendTimesOut
    \/ \E i \in Chunks : Retransmit(i)
    \/ \E ok \in BOOLEAN : HearDone(ok)
    \/ HandleOffer \/ AskAgain \/ ReceiveTimesOut \/ Receive \/ Take \/ StopWaiting
    \/ \E i \in Chunks, data \in Data : HandleChunk(i, data)

BlobSpec == BlobInit /\ [][BlobNext]_blobVars

-----------------------------------------------------------------------------
Messages == {Offer} \cup {Chunk(i) : i \in Chunks}
              \cup {Nack(i) : i \in Chunks} \cup {Done(ok) : ok \in BOOLEAN}

BlobTypeOK ==
    /\ wire \subseteq Messages
    /\ sender \in {"idle", "streaming", "waiting", "sent", "failed"}
    /\ next \in 1..(NumChunks + 1) /\ done \in {"none", "ok", "refused"}
    /\ record = NoRecord \/ record \in [Chunks -> Data \cup {"missing"}]
    /\ linked \in BOOLEAN /\ taken \subseteq {"whole", "error"}
    /\ future \in {"absent", "pending", "whole", "error"}
    /\ assembled \subseteq Blobs

\* What the receiver ever puts together is the blob that was sent, nobody is
\* handed a blob that was not, and a sender that reports success sent a blob
\* that the receiver has put together.  Concerns the root test of _finalize
\* with chunks altered, repeated and requested again, offers that reopen a
\* finished blob, and the answers to both ends.
AssembledIsSent ==
    /\ assembled \subseteq {Sent}
    /\ "whole" \in taken \cup {future} => assembled # {}
    /\ sender = "sent" => assembled # {}

=============================================================================
