----------------------------- MODULE SyncEngine -----------------------------
(***************************************************************************)
(* The server's side of the offline queue for one terminal:                *)
(* Engine.Push of backend/internal/sync/engine.go and the sale it applies, *)
(* FinalizeInTx of backend/internal/sales.                                 *)
(*                                                                         *)
(* Requests are served concurrently.  A push is a transaction of its own   *)
(* for the replay check and then one transaction for the whole batch, at   *)
(* READ COMMITTED: a statement sees what is committed when it starts, and  *)
(* a write waits for the transaction that holds the row or the unique      *)
(* value.  The actions are split at those statements.                      *)
(***************************************************************************)
EXTENDS SaleVocabulary

CONSTANTS
    Sessions,    \* bound: pushes the server may be serving at the same time
    NoKey,       \* no batch key
    Keys,        \* the keys a push may carry
    OnAChain,    \* does the company's market put sales on a ZATCA chain?
    GateShuts    \* may the checks made before alreadyRung (cashier, terminal,
                 \* tax profile) turn against a sale that was already rung?

ASSUME EngineAssumption ==
    /\ NoKey \notin Keys
    /\ OnAChain \in BOOLEAN
    /\ GateShuts \in BOOLEAN

VARIABLES
    invoices,  \* sales_invoice joined to its chain position: [uuid, no]
    lastNo,    \* the counter behind them (egs_unit.last_icv)
    item,      \* sync_item: seq -> [uuid, batch, state], "none" where no row
    batches,   \* sync_batch: [key, items]
    cursor,    \* device_sync_cursor: [applied, seen]
    session    \* the pushes being served

engineVars == <<invoices, lastNo, item, batches, cursor, session>>

NoItem    == [uuid |-> NoSale, batch |-> NoKey, state |-> "none"]
Free      == [phase |-> "idle", key |-> NoKey, items |-> NoItems,
              verdict |-> NoVerdict, rung |-> {}, upto |-> 0, counted |-> {}]

Phases == {"idle", "received", "begin", "check", "ring", "cursor",
           "replied", "errored"}

EngineTypeOK ==
    /\ invoices \subseteq [uuid : Sales, no : Nat \ {0}]
    /\ lastNo \in Nat
    /\ item \in [Seqs -> [uuid : Sales \cup {NoSale}, batch : Keys \cup {NoKey},
                          state : Verdicts \cup {"none"}]]
    /\ batches \subseteq [key : Keys, items : [Seqs -> Sales \cup {NoSale}]]
    /\ cursor \in [applied : 0..MaxSeq, seen : 0..MaxSeq]
    /\ session \in [Sessions ->
         [phase : Phases, key : Keys \cup {NoKey},
          items : [Seqs -> Sales \cup {NoSale}],
          verdict : [Seqs -> Verdicts \cup {Unheard}],
          rung : SUBSET [uuid : Sales, no : Nat \ {0}], upto : 0..MaxSeq,
          counted : SUBSET Seqs]]

EngineInit ==
    /\ invoices = {}
    /\ lastNo = 0
    /\ item = [q \in Seqs |-> NoItem]
    /\ batches = {}
    /\ cursor = [applied |-> 0, seen |-> 0]
    /\ session = [s \in Sessions |-> Free]

-----------------------------------------------------------------------------
(* What a session sees.                                                    *)

UuidsOf(rowset) == {r.uuid : r \in rowset}
BatchSeqs(s) == SeqsOf(session[s].items)
Recorded(s)  == {q \in Seqs : session[s].verdict[q] # Unheard}
Open(s)      == session[s].phase \in {"check", "ring", "cursor"}

\* Sequence order, whatever order the items arrived in.
IsNext(s, q) ==
    /\ q \in BatchSeqs(s) \ Recorded(s)
    /\ \A p \in BatchSeqs(s) \ Recorded(s) : q =< p

\* A slip: nothing stalls.
NeverStalled(s) == FALSE

\* The stalled map is local to the push: it starts empty for every batch.
Stalled(s) == \E q \in Seqs : session[s].verdict[q] = "failed"

\* A slip: a refusal is not kept.
WrittenSettledOnly(s) ==
    [q \in Seqs |->
        IF session[s].verdict[q] \in Settled /\ item[q].state \notin Settled
        THEN [uuid |-> session[s].items[q], batch |-> session[s].key,
              state |-> session[s].verdict[q]]
        ELSE item[q]]

\* recordItem's upsert, as the session's own transaction sees the table: a
\* settled row is never rewritten, any other takes the new batch and verdict.
Written(s) ==
    [q \in Seqs |->
        IF q \in Recorded(s) /\ item[q].state \notin Settled
        THEN [uuid |-> session[s].items[q], batch |-> session[s].key,
              state |-> session[s].verdict[q]]
        ELSE item[q]]

\* Another transaction holds the sync_item row or the entity uuid.
RowLocked(s, q) ==
    \E t \in Sessions \ {s} :
        /\ Open(t)
        /\ \E p \in Recorded(t) :
               \/ p = q
               \/ /\ session[t].items[p] = session[s].items[q]
                  /\ item[p].state \notin Settled

\* entity_uuid is unique over sync_item: the upsert would break that.
UuidClash(s, q) ==
    /\ item[q].state \notin Settled
    /\ \E p \in Seqs \ {q} : Written(s)[p].uuid = session[s].items[q]

\* A row written is counted on the cursor row, once there is one, by a trigger;
\* whoever has counted holds that row until its transaction ends.
Counts(q)     == batches # {} /\ item[q].state \notin Settled
Counted(s, q) == session[s].counted \cup (IF Counts(q) THEN {q} ELSE {})
CursorHeld(s) == \E t \in Sessions \ {s} : session[t].counted # {}

CanRecord(s, q) ==
    ~RowLocked(s, q) /\ ~UuidClash(s, q) /\ (Counts(q) => ~CursorHeld(s))

\* A slip: the counter is read without a lock.
NoCounterLock(s) == FALSE

\* Another transaction holds the store's invoice counter and the unit's row.
CounterLocked(s) == \E t \in Sessions \ {s} : session[t].rung # {}

\* A slip: no unique index, so only what this push rang is noticed.
TakenHere(s, u) == u \in UuidsOf(session[s].rung)

\* sales_invoice.uuid is unique; other open pushes ring nothing meanwhile.
UuidTaken(s, u) == u \in UuidsOf(invoices \cup session[s].rung)

\* A slip: the lookup never finds.
NeverFound(s, u) == FALSE

\* alreadyRung joins zatca_invoice: off a chain it never finds the sale.
AlreadyRung(s, u) == OnAChain /\ UuidTaken(s, u)

Highest(table) ==
    CHOOSE n \in 0..MaxSeq :
        /\ n = 0 \/ table[n].state # "none"
        /\ \A q \in (n + 1)..MaxSeq : table[q].state = "none"

Contiguous(table) ==
    CHOOSE n \in 0..MaxSeq :
        /\ \A q \in 1..n : table[q].state \in Settled
        /\ n = MaxSeq \/ table[n + 1].state \notin Settled

-----------------------------------------------------------------------------
(* A push arrives, and its key is looked up.                               *)

Receive(s, key, items) ==
    /\ session[s].phase = "idle"
    /\ session' = [session EXCEPT ![s] =
           [Free EXCEPT !.phase = "received", !.key = key, !.items = items]]
    /\ UNCHANGED <<invoices, lastNo, item, batches, cursor>>

Known(key) == \E b \in batches : b.key = key

\* priorResult: the rows that NOW carry the batch's id are the answer.
Replay(s) ==
    /\ session[s].phase = "received"
    /\ Known(session[s].key)
    /\ session' = [session EXCEPT
           ![s].phase = "replied",
           ![s].verdict = [q \in Seqs |-> IF item[q].batch = session[s].key
                                          THEN item[q].state ELSE Unheard]]
    /\ UNCHANGED <<invoices, lastNo, item, batches, cursor>>

FirstSeen(s) ==
    /\ session[s].phase = "received"
    /\ ~Known(session[s].key)
    /\ session' = [session EXCEPT ![s].phase = "begin"]
    /\ UNCHANGED <<invoices, lastNo, item, batches, cursor>>

\* INSERT INTO sync_batch opens the batch's transaction.  The unique index
\* makes it wait for another push of the same key, and fail if that committed.
Begin(s) ==
    /\ session[s].phase = "begin"
    /\ \A t \in Sessions \ {s} : ~(Open(t) /\ session[t].key = session[s].key)
    /\ session' = [session EXCEPT
           ![s].phase = IF Known(session[s].key) THEN "errored" ELSE "check"]
    /\ UNCHANGED <<invoices, lastNo, item, batches, cursor>>

-----------------------------------------------------------------------------
(* applyOne, one item at a time.                                           *)

\* recordOrFail after a verdict; phase back to the next item.
Verdict(s, q, v) ==
    session' = [session EXCEPT
        ![s].phase = "check",
        ![s].verdict = [session[s].verdict EXCEPT ![q] = v],
        ![s].counted = Counted(s, q)]

\* A slip: a held item is skipped without a verdict.
SkipHeld(s, q) ==
    session[s].phase = "check" /\ IsNext(s, q) /\ Stalled(s) /\ UNCHANGED engineVars

Block(s, q) ==
    /\ session[s].phase = "check"
    /\ IsNext(s, q) /\ CanRecord(s, q)
    /\ Stalled(s)
    /\ Verdict(s, q, "blocked")
    /\ UNCHANGED <<invoices, lastNo, item, batches, cursor>>

\* Refused: by what Apply and FinalizeInTx check before alreadyRung, or by the
\* sale's own rules after it.  Only the former can meet a sale already rung.
Refuse(s, q) ==
    /\ session[s].phase = "check"
    /\ IsNext(s, q) /\ CanRecord(s, q)
    /\ ~Stalled(s)
    /\ GateShuts \/ session[s].items[q] \notin UuidsOf(invoices)
    /\ Verdict(s, q, "failed")
    /\ UNCHANGED <<invoices, lastNo, item, batches, cursor>>

Recognise(s, q) ==
    /\ session[s].phase = "check"
    /\ IsNext(s, q) /\ CanRecord(s, q)
    /\ ~Stalled(s)
    /\ AlreadyRung(s, session[s].items[q])
    /\ Verdict(s, q, "duplicate")
    /\ UNCHANGED <<invoices, lastNo, item, batches, cursor>>

\* Not found: on to pricing, costing and the invoice.
Admit(s, q) ==
    /\ session[s].phase = "check"
    /\ IsNext(s, q)
    /\ ~Stalled(s)
    /\ ~AlreadyRung(s, session[s].items[q])
    /\ session' = [session EXCEPT ![s].phase = "ring"]
    /\ UNCHANGED <<invoices, lastNo, item, batches, cursor>>

\* The invoice takes the next number and, on a chain, the next ICV: both
\* counters are rows this transaction holds until it ends.
Ring(s, q) ==
    /\ session[s].phase = "ring"
    /\ IsNext(s, q) /\ CanRecord(s, q)
    /\ ~CounterLocked(s)
    /\ ~UuidTaken(s, session[s].items[q])
    /\ session' = [session EXCEPT
           ![s].phase = "check",
           ![s].verdict = [session[s].verdict EXCEPT ![q] = "applied"],
           ![s].counted = Counted(s, q),
           ![s].rung = @ \cup {[uuid |-> session[s].items[q],
                                no |-> lastNo + Cardinality(@) + 1]}]
    /\ UNCHANGED <<invoices, lastNo, item, batches, cursor>>

\* sales_invoice.uuid is unique: another push rang the sale in between, or
\* alreadyRung could not see it.  Rolled back to the savepoint, so "failed".
RingClash(s, q) ==
    /\ session[s].phase = "ring"
    /\ IsNext(s, q) /\ CanRecord(s, q)
    /\ ~CounterLocked(s)
    /\ UuidTaken(s, session[s].items[q])
    /\ Verdict(s, q, "failed")
    /\ UNCHANGED <<invoices, lastNo, item, batches, cursor>>

\* recordItem broke a unique index: the error leaves the transaction aborted,
\* so every statement after it fails too and Push returns an error.
Poison(s, q) ==
    /\ session[s].phase \in {"check", "ring"}
    /\ IsNext(s, q) /\ ~RowLocked(s, q) /\ UuidClash(s, q)
    /\ session' = [session EXCEPT ![s] = [Free EXCEPT !.phase = "errored"]]
    /\ UNCHANGED <<invoices, lastNo, item, batches, cursor>>

ApplyOne(s, q) ==
    Block(s, q) \/ Refuse(s, q) \/ Recognise(s, q) \/ Admit(s, q)
                \/ Ring(s, q) \/ RingClash(s, q) \/ Poison(s, q)

-----------------------------------------------------------------------------
(* advanceCursor reads, then writes; the commit follows.                   *)

ReadCursor(s) ==
    /\ session[s].phase = "check"
    /\ BatchSeqs(s) \subseteq Recorded(s)
    /\ session' = [session EXCEPT ![s].phase = "cursor",
                                  ![s].upto = Contiguous(Written(s))]
    /\ UNCHANGED <<invoices, lastNo, item, batches, cursor>>

\* A slip: the later commit wins.
LastWins(a, b) == b

\* GREATEST of the cursor's row and what this push read.
Max2(a, b) == IF a >= b THEN a ELSE b

Commit(s) ==
    /\ session[s].phase = "cursor"
    /\ ~CursorHeld(s)
    /\ invoices' = invoices \cup session[s].rung
    /\ lastNo'   = lastNo + Cardinality(session[s].rung)
    /\ item'     = Written(s)
    /\ batches'  = batches \cup {[key |-> session[s].key, items |-> session[s].items]}
    /\ cursor'   = [applied |-> Max2(cursor.applied, session[s].upto),
                    seen    |-> Max2(cursor.seen, Highest(Written(s)))]
    /\ session'  = [session EXCEPT ![s].phase = "replied", ![s].rung = {},
                                   ![s].upto = 0, ![s].counted = {}]

-----------------------------------------------------------------------------
(* The transaction is rolled back: the database or the process failed, or  *)
(* the client hung up.                                                     *)

Abort(s) ==
    /\ session[s].phase \notin {"idle", "replied", "errored"}
    /\ session' = [session EXCEPT ![s] = [Free EXCEPT !.phase = "errored"]]
    /\ UNCHANGED <<invoices, lastNo, item, batches, cursor>>

\* The answer leaves the server (and may be lost on the way).
Release(s) ==
    /\ session[s].phase \in {"replied", "errored"}
    /\ session' = [session EXCEPT ![s] = Free]
    /\ UNCHANGED <<invoices, lastNo, item, batches, cursor>>

Serve(s) ==
    \/ Replay(s) \/ FirstSeen(s) \/ Begin(s)
    \/ \E q \in Seqs : ApplyOne(s, q)
    \/ ReadCursor(s) \/ Commit(s)

-----------------------------------------------------------------------------
(* The engine on its own: any terminal may push any batch under any key.   *)

EngineStep(pushes) ==
    \E s \in Sessions :
        \/ \E p \in pushes : Receive(s, p[1], p[2])
        \/ Serve(s)
        \/ Abort(s)
        \/ Release(s)

AnyPush    == Keys \X ([Seqs -> Sales \cup {NoSale}] \ {NoItems})
EngineNext == EngineStep(AnyPush)

EngineSpec == EngineInit /\ [][EngineNext]_engineVars

-----------------------------------------------------------------------------
(* What the engine promises, whoever pushes what.                          *)

Rung  == UuidsOf(invoices)
Books == invoices \cup UNION {session[s].rung : s \in Sessions}

\* However often a sale is pushed, and however many pushes carry it at once,
\* one invoice is written for it: alreadyRung and sales_invoice.uuid.
NoSaleRungTwice ==
    \A x, y \in Books : x.uuid = y.uuid => x = y

\* The positions handed out are 1, 2, 3... with no gap and no repeat, whatever
\* is refused, blocked or rolled back on the way: Chain.Reserve and Record.
ChainUnbroken ==
    /\ {x.no : x \in invoices} = 1..lastNo
    /\ \A x, y \in Books : x.no = y.no => x = y

\* The cursor vouches for every number up to it: each is settled in sync_item
\* and its sale is in the books (advanceCursor: contiguous, not highest).
CursorVouches ==
    /\ cursor.applied =< cursor.seen
    /\ \A q \in 1..cursor.applied :
           item[q].state \in Settled /\ item[q].uuid \in Rung

\* Once sync_item says applied or duplicate, no later push overturns it, and
\* the cursor never moves back, even when pushes commit out of order.
VerdictStands ==
    [][/\ \A q \in Seqs : item[q].state \in Settled => item'[q] = item[q]
       /\ cursor'.applied >= cursor.applied
       /\ cursor'.seen >= cursor.seen]_engineVars

-----------------------------------------------------------------------------
(* What it finishes.  A lock is granted to whoever has waited longest, so  *)
(* a push is not passed over for ever: strong fairness.  Two pushes that   *)
(* wait for each other are a deadlock, and Postgres aborts one of them.    *)

WaitsFor(s, t) ==
    /\ s # t /\ Open(t)
    /\ \/ session[s].phase = "cursor" /\ session[t].counted # {}
       \/ \E q \in Seqs :
            /\ session[s].phase \in {"check", "ring"} /\ IsNext(s, q)
            /\ \/ session[s].phase = "ring" /\ session[t].rung # {}
               \/ Counts(q) /\ session[t].counted # {}
               \/ \E p \in Recorded(t) :
                      p = q \/ session[t].items[p] = session[s].items[q]

DeadlockVictim(s) ==
    /\ \E t \in Sessions : WaitsFor(s, t) /\ WaitsFor(t, s)
    /\ Abort(s)

EngineFairness ==
    \A s \in Sessions :
        /\ SF_engineVars(Serve(s))
        /\ WF_engineVars(DeadlockVictim(s))

ServedEngine == EngineSpec /\ EngineFairness

\* A push the server has received is answered or fails, however many others
\* hold the rows, the key or the counters it needs.
EveryPushEnds ==
    \A s \in Sessions :
        session[s].phase = "received"
            ~> session[s].phase \in {"replied", "errored", "idle"}
=============================================================================
