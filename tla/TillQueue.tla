------------------------------ MODULE TillQueue ------------------------------
(***************************************************************************)
(* The till's offline queue: SaleQueue of pos/src/offline/queue.ts over    *)
(* the queued_sale table of pos/src/offline/sqlite.ts, driven by the       *)
(* flushing guard of pos/src/offline/useTerminal.ts.                       *)
(*                                                                         *)
(* The guard is a ref of one mount of the counter's screen.  Leaving the   *)
(* screen and coming back makes a new mount, which flushes at once; what   *)
(* the old one had begun goes on, and writes to the same table.            *)
(*                                                                         *)
(* Every await is a point at which the process may be killed, so a call    *)
(* that awaits the store twice is two actions: record draws a number and   *)
(* then inserts; flush reads what is outstanding, awaits the push, and     *)
(* then writes the refusals one at a time and the settlements in one or    *)
(* two statements.                                                         *)
(***************************************************************************)
EXTENDS SaleVocabulary

CONSTANTS
    BatchSize,   \* flush's batchSize (50 in the code)
    Mounts       \* bound: mounts of the counter whose flushes may overlap

ASSUME TillAssumption == BatchSize \in Nat \ {0}

VARIABLES
    rows,    \* queued_sale: seq -> [uuid, state], state "none" where no row
    drawn,   \* record() calls between nextSeq and put: uuid -> seq, 0 if none
    flush,   \* mount -> the flush it has in progress: [pc, batch, verdict]
    crossed  \* history: numbers that two flushes have had in hand at once

tillVars == <<rows, drawn, flush, crossed>>

NoRow     == [uuid |-> NoSale, state |-> "none"]
RowStates == {"none", "pending", "failed"} \cup Settled
Resting   == [pc |-> "idle", batch |-> {}, verdict |-> NoVerdict]
Flushes   == [pc : {"idle", "await", "mark"}, batch : SUBSET Seqs,
              verdict : [Seqs -> {Unheard, "failed"} \cup Settled]]

TillTypeOK ==
    /\ rows \in [Seqs -> [uuid : Sales \cup {NoSale}, state : RowStates]]
    /\ drawn \in [Sales -> 0..MaxSeq]
    /\ flush \in [Mounts -> Flushes]
    /\ crossed \subseteq Seqs

TillInit ==
    /\ rows  = [q \in Seqs |-> NoRow]
    /\ drawn = [u \in Sales |-> 0]
    /\ flush = [m \in Mounts |-> Resting]
    /\ crossed = {}

-----------------------------------------------------------------------------
(* What the table answers.                                                 *)

Used     == {q \in Seqs : rows[q].state # "none"}
Pending  == {q \in Seqs : rows[q].state = "pending"}
OnTill   == {rows[q].uuid : q \in Used}

\* A slip: numbers are reserved in memory when drawn, and lost with it.
NextReserved == CHOOSE n \in 1..(MaxSeq + 1) :
                    LET taken == Used \cup ({drawn[u] : u \in Sales} \ {0})
                    IN  (\A q \in taken : q < n) /\ (n = 1 \/ (n - 1) \in taken)

\* COALESCE(MAX(seq), 0) + 1 over every row, settled and failed ones included.
NextSeq  == CHOOSE n \in 1..(MaxSeq + 1) :
                /\ \A q \in Used : q < n
                /\ n = 1 \/ (n - 1) \in Used

\* Slips of the query: refused sales read too; only a full batch is worth a push.
OutstandingOrRefused ==
    LET open == {q \in Seqs : rows[q].state \in {"pending", "failed"}}
    IN  {q \in open : Cardinality({p \in open : p < q}) < BatchSize}
OutstandingFull ==
    {q \in Pending : /\ Cardinality(Pending) >= BatchSize
                     /\ Cardinality({p \in Pending : p < q}) < BatchSize}

\* ORDER BY seq LIMIT batchSize over the pending rows.
Outstanding ==
    {q \in Pending : Cardinality({p \in Pending : p < q}) < BatchSize}

\* The contents of a push: seq -> uuid for the numbers it carries.
Contents(batch) == [q \in Seqs |-> IF q \in batch THEN rows[q].uuid ELSE NoSale]

FirstOf(items) == CHOOSE q \in SeqsOf(items) : \A p \in SeqsOf(items) : q =< p
LastOf(items)  == CHOOSE q \in SeqsOf(items) : \A p \in SeqsOf(items) : p =< q

\* A slip: a key of numbers alone.
NumbersOnlyKey(items) == <<FirstOf(items), LastOf(items), Cardinality(SeqsOf(items))>>

\* The batch key: first and last number, first invoice, how many.  The first
\* eight characters of the uuid stand for the whole of it.
BatchKey(items) == <<FirstOf(items), LastOf(items), items[FirstOf(items)],
                     Cardinality(SeqsOf(items))>>

-----------------------------------------------------------------------------
(* record: await nextSeq, then await put.                                  *)

DrawSeq(u) ==
    /\ drawn[u] = 0
    /\ u \notin OnTill
    /\ NextSeq =< MaxSeq
    /\ drawn' = [drawn EXCEPT ![u] = NextSeq]
    /\ UNCHANGED <<rows, flush, crossed>>

\* The insert.  seq is the primary key, so the loser of two overlapping
\* records is refused and its caller told: that sale was never durable.
Put(u) ==
    /\ drawn[u] # 0
    /\ rows' = IF rows[drawn[u]].state = "none"
               THEN [rows EXCEPT ![drawn[u]] = [uuid |-> u, state |-> "pending"]]
               ELSE rows
    /\ drawn' = [drawn EXCEPT ![u] = 0]
    /\ UNCHANGED <<flush, crossed>>

-----------------------------------------------------------------------------
(* flush.  A mount's guard lets it run one at a time; it knows nothing of  *)
(* the flushes of other mounts.                                            *)

\* What a flush has read and not yet written back or dropped.
InHand(m) == flush[m].batch \cup {q \in Seqs : flush[m].verdict[q] # Unheard}

\* The mount on the screen, or the next one to be put there: a mount left
\* behind stays only as long as its flush does, so one at rest is a free name.
FlushStart(m) ==
    /\ flush[m].pc = "idle"
    /\ Outstanding # {}
    /\ flush' = [flush EXCEPT ![m] = [@ EXCEPT !.pc = "await", !.batch = Outstanding]]
    /\ crossed' = crossed \cup (Outstanding \cap UNION {InHand(n) : n \in Mounts \ {m}})
    /\ UNCHANGED <<rows, drawn>>

\* A slip: a push that was answered has landed, every sale of it.
AnsweredAsLanded(m, answer) ==
    /\ flush[m].pc = "await"
    /\ flush' = [flush EXCEPT ![m] =
                    [pc |-> "mark", batch |-> {},
                     verdict |-> [q \in Seqs |-> IF q \in flush[m].batch
                                                 THEN "applied" ELSE Unheard]]]
    /\ UNCHANGED <<rows, drawn, crossed>>

\* The push resolved.  Blocked items are dropped here: their rows stay pending.
FlushAnswered(m, answer) ==
    /\ flush[m].pc = "await"
    /\ flush' = LET heard == [q \in Seqs |-> IF answer[q] = "blocked"
                                             THEN Unheard ELSE answer[q]]
                IN  [flush EXCEPT ![m] =
                        IF heard = NoVerdict
                        THEN Resting
                        ELSE [pc |-> "mark", batch |-> {}, verdict |-> heard]]
    /\ UNCHANGED <<rows, drawn, crossed>>

\* The push rejected: flushNow swallows it, everything stays queued.
FlushThrew(m) ==
    /\ flush[m].pc = "await"
    /\ flush' = [flush EXCEPT ![m] = Resting]
    /\ UNCHANGED <<rows, drawn, crossed>>

Heard(m, v) == {q \in Seqs : flush[m].verdict[q] = v}

\* Once the written numbers are struck out, is there anything left to write?
Strike(m, done) ==
    LET left == [q \in Seqs |-> IF q \in done THEN Unheard ELSE flush[m].verdict[q]]
    IN  IF left = NoVerdict THEN Resting ELSE [flush[m] EXCEPT !.verdict = left]

\* UPDATE queued_sale SET state WHERE seq IN (...): no condition on the state.
SetState(seqs, s) ==
    [q \in Seqs |-> IF q \in seqs /\ rows[q].state # "none"
                    THEN [rows[q] EXCEPT !.state = s] ELSE rows[q]]

\* One awaited statement per refused sale, in the order of the answer.
MarkFailed(m) ==
    /\ flush[m].pc = "mark"
    /\ \E q \in Heard(m, "failed") :
        /\ \A p \in Heard(m, "failed") : q =< p
        /\ rows'  = SetState({q}, "failed")
        /\ flush' = [flush EXCEPT ![m] = Strike(m, {q})]
    /\ UNCHANGED <<drawn, crossed>>

\* Then one statement for all that applied, and one for all the duplicates.
MarkSettled(m, s) ==
    /\ flush[m].pc = "mark"
    /\ Heard(m, "failed") = {}
    /\ Heard(m, s) # {}
    /\ s = "duplicate" => Heard(m, "applied") = {}
    /\ rows'  = SetState(Heard(m, s), s)
    /\ flush' = [flush EXCEPT ![m] = Strike(m, Heard(m, s))]
    /\ UNCHANGED <<drawn, crossed>>

Mark(m) == MarkFailed(m) \/ \E s \in Settled : MarkSettled(m, s)

-----------------------------------------------------------------------------
(* The process dies and is started again: the table is all that survives.  *)

TillRestart ==
    /\ \/ \E m \in Mounts : flush[m] # Resting
       \/ \E u \in Sales : drawn[u] # 0
    /\ flush' = [m \in Mounts |-> Resting]
    /\ drawn' = [u \in Sales |-> 0]
    /\ UNCHANGED <<rows, crossed>>

-----------------------------------------------------------------------------
(* The queue on its own: the server is anything that answers a push with   *)
(* some verdict, or none, for each number.                                 *)

TillNext ==
    \/ \E u \in Sales : DrawSeq(u) \/ Put(u)
    \/ \E m \in Mounts :
        \/ FlushStart(m)
        \/ \E a \in [Seqs -> Verdicts \cup {Unheard}] :
               /\ \A q \in Seqs : a[q] # Unheard => q \in flush[m].batch
               /\ FlushAnswered(m, a)
        \/ FlushThrew(m)
        \/ Mark(m)
    \/ TillRestart

TillSpec == TillInit /\ [][TillNext]_tillVars

-----------------------------------------------------------------------------
(* What the queue promises, whatever the server says.                      *)

\* The numbers on the till run on from 1 without a hole, though records
\* overlap and die between nextSeq and put.  The server's cursor, which stops
\* at the first hole, rests on it.
NumbersRunOn == \A q \in Used : \A p \in 1..q : p \in Used

\* What a flush has in hand still waits on the till, and nothing else has
\* settled or refused the rows its answer will be written to - unless another
\* mount's flush had the number in hand at the same time, which is the one way
\* its answer can come too late.
InFlightIsPending ==
    \A m \in Mounts : InHand(m) \subseteq Pending \cup crossed

\* A row keeps its sale, and is never queued again once it has a verdict; the
\* verdict is written over only where two mounts' flushes had the number in
\* hand at once (markSettled and markFailed do not look at the state).
KeepsVerdicts ==
    \A q \in Used :
        /\ rows'[q].uuid = rows[q].uuid
        /\ rows[q].state # "pending" =>
            /\ rows'[q].state # "pending"
            /\ rows'[q].state # rows[q].state => q \in crossed
=============================================================================
