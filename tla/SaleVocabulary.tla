--------------------------- MODULE SaleVocabulary ---------------------------
(***************************************************************************)
(* What the till and the server both speak of: sales by the uuid the till  *)
(* draws for them, the per-terminal numbers they are queued under, and the *)
(* verdicts of a push (PushItemResult in pos/src/offline/queue.ts,         *)
(* ItemResult in backend/internal/sync/engine.go).                         *)
(***************************************************************************)
EXTENDS Integers, FiniteSets

CONSTANTS
    Sales,     \* invoice uuids; buildPayload draws a fresh one per sale
    NoSale,    \* no uuid
    MaxSeq     \* bound: highest number the queued_sale table hands out

ASSUME SaleAssumption ==
    /\ NoSale \notin Sales
    /\ MaxSeq \in Nat \ {0}

Seqs     == 1..MaxSeq
Settled  == {"applied", "duplicate"}
Verdicts == Settled \cup {"failed", "blocked"}
Unheard  == "none"                            \* no verdict (yet)

\* The contents of a push, seq -> uuid, and what is said of them.
NoItems       == [q \in Seqs |-> NoSale]
NoVerdict     == [q \in Seqs |-> Unheard]
SeqsOf(items) == {q \in Seqs : items[q] # NoSale}
=============================================================================
