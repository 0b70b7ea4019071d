----------------------------- MODULE OfflineSync -----------------------------
(***************************************************************************)
(* One terminal selling offline and pushing to the server: TillQueue and   *)
(* SyncEngine joined by HTTP.  A push that the till has given up on may    *)
(* still be on its way, or being served, while the next one starts.        *)
(***************************************************************************)
EXTENDS TillQueue, SyncEngine

CONSTANTS
    NoSession,         \* no push under way
    MaxReplacements    \* bound: times the machine is replaced

\* What BatchKey can yield.
TillKeys == Seqs \X Seqs \X Sales \X Seqs

ASSUME SyncAssumption ==
    /\ TillKeys \subseteq Keys
    /\ NoSession \notin Sessions
    /\ MaxReplacements \in Nat

VARIABLES
    on,         \* mount -> the session that carries its flush
    recorded,   \* history: every uuid that was ever durable on the till
    machine     \* how many machines have carried this terminal, less one

vars == <<tillVars, engineVars, on, recorded, machine>>

TypeOK ==
    /\ TillTypeOK
    /\ EngineTypeOK
    /\ on \in [Mounts -> Sessions \cup {NoSession}]
    /\ recorded \subseteq Sales
    /\ machine \in 0..MaxReplacements

Init ==
    /\ TillInit
    /\ EngineInit
    /\ on = [m \in Mounts |-> NoSession]
    /\ recorded = {}
    /\ machine = 0

-----------------------------------------------------------------------------
(* The till.                                                               *)

Draw(u) ==
    /\ u \notin recorded
    /\ DrawSeq(u)
    /\ UNCHANGED <<engineVars, on, recorded, machine>>

Record(u) ==
    /\ Put(u)
    /\ recorded' = recorded \cup ({rows'[q].uuid : q \in Seqs} \ {NoSale})
    /\ UNCHANGED <<engineVars, on, machine>>

Send(m, s) ==
    /\ FlushStart(m)
    /\ LET items == Contents(Outstanding)
       IN  Receive(s, BatchKey(items), items)
    /\ on' = [on EXCEPT ![m] = s]
    /\ UNCHANGED <<recorded, machine>>

\* The connection drops or the request times out: only the till notices.
GiveUp(m) ==
    /\ FlushThrew(m)
    /\ on' = [on EXCEPT ![m] = NoSession]
    /\ UNCHANGED <<engineVars, recorded, machine>>

Write(m) ==
    /\ Mark(m)
    /\ UNCHANGED <<engineVars, on, recorded, machine>>

Restart ==
    /\ TillRestart
    /\ on' = [m \in Mounts |-> NoSession]
    /\ UNCHANGED <<engineVars, recorded, machine>>

\* IssueCode and Enrol: another machine takes over the terminal record, with
\* an empty table.  What the old one had not sent is gone with it.
Replace ==
    /\ machine < MaxReplacements
    /\ machine' = machine + 1
    /\ rows'  = [q \in Seqs |-> NoRow]
    /\ drawn' = [u \in Sales |-> 0]
    /\ flush' = [m \in Mounts |-> Resting]
    /\ crossed' = {}
    /\ on'    = [m \in Mounts |-> NoSession]
    /\ UNCHANGED <<engineVars, recorded>>

-----------------------------------------------------------------------------
(* The server and the way back.                                            *)

ServerStep(s) ==
    /\ Serve(s) \/ Abort(s)
    /\ UNCHANGED <<tillVars, on, recorded, machine>>

\* The answer reaches the flush that is waiting for it.
Deliver(m, s) ==
    /\ on[m] = s
    /\ \/ session[s].phase = "replied" /\ FlushAnswered(m, session[s].verdict)
       \/ session[s].phase = "errored" /\ FlushThrew(m)
    /\ Release(s)
    /\ on' = [on EXCEPT ![m] = NoSession]
    /\ UNCHANGED <<recorded, machine>>

\* Nobody is waiting for it any more.
Discard(s) ==
    /\ \A m \in Mounts : on[m] # s
    /\ Release(s)
    /\ UNCHANGED <<tillVars, on, recorded, machine>>

-----------------------------------------------------------------------------
(* Some mount's flush does it.                                             *)

Sends(s)    == \E m \in Mounts : Send(m, s)
Delivers(s) == \E m \in Mounts : Deliver(m, s)
GivesUp     == \E m \in Mounts : GiveUp(m)
Writes      == \E m \in Mounts : Write(m)

TillStep ==
    \/ \E u \in Sales : Draw(u) \/ Record(u)
    \/ GivesUp \/ Writes \/ Restart \/ Replace

Next ==
    \/ TillStep
    \/ \E s \in Sessions : Sends(s) \/ ServerStep(s) \/ Delivers(s) \/ Discard(s)

Spec == Init /\ [][Next]_vars

-----------------------------------------------------------------------------
(* What the pair promises.                                                 *)

\* The verdicts of one machine's table are kept, flushes of two mounts over
\* the same number aside.
VerdictIsKept == [][machine' = machine => KeepsVerdicts]_vars

\* The till stops sending a sale as landed only when the server has it in the
\* books: markSettled acts on what the push said of it, fresh or replayed.
SettledIsRung ==
    \A q \in Seqs : rows[q].state \in Settled => rows[q].uuid \in Rung

Sent == batches \cup {[key |-> session[s].key, items |-> session[s].items] :
                          s \in {t \in Sessions : session[t].key # NoKey}}

\* Two pushes under one key carry the same sales, so answering the second
\* from the first's batch answers for the right sales: batchKey, priorResult.
KeyNamesOneBatch == \A x, y \in Sent : x.key = y.key => x = y

\* A sale lands ahead of an earlier one of this till only once the till has
\* been told that one was refused; while it is still queued, nothing passes it.
OnlyRefusedAreOvertaken ==
    \A p, q \in Seqs :
        /\ p < q
        /\ rows[q].uuid \in Rung
        /\ rows[p].state = "pending"
        => rows[p].uuid \in Rung

\* What the till holds a verdict for, the server can show: sync_item's row for
\* that number is about that sale (0016: evidence, never silently lost).
VerdictIsOnRecord ==
    \A q \in Seqs :
        rows[q].state \notin {"none", "pending"} => item[q].uuid = rows[q].uuid

\* It holds for a terminal that has had one machine; a second starts again at
\* number 1, over rows the first has left.
FirstMachineOnRecord == machine = 0 => VerdictIsOnRecord

\* "The device may discard everything up to here" (Result.Cursor): every sale
\* on the terminal's first machine numbered up to the cursor is in the books.
MayDiscardToCursor ==
    machine = 0 =>
        \A q \in 1..cursor.applied :
            rows[q].state # "none" => rows[q].uuid \in Rung

\* A sale the till shows as refused is not in the books: a re-sent sale comes
\* back as a duplicate, never as a failure.
RefusedIsNotRung ==
    \A q \in Seqs : rows[q].state = "failed" => rows[q].uuid \notin Rung

\* A sale is in the books only if every earlier sale of the till is.
NoGapBehindASale ==
    \A p, q \in Seqs :
        /\ p < q
        /\ rows[p].state # "none"
        /\ rows[q].uuid \in Rung
        => rows[p].uuid \in Rung

-----------------------------------------------------------------------------
(* The promise of SaleDelivery, kept: a row of queued_sale is an entry of  *)
(* the list, and a sale is posted as often as it has an invoice.           *)

Shown(state) == CASE state = "pending"  -> "waiting"
                  [] state = "failed"   -> "refused"
                  [] state \in Settled -> "landed"
                  [] OTHER              -> "none"

Delivery == INSTANCE SaleDelivery WITH
    queue   <- [q \in Seqs |-> [uuid |-> rows[q].uuid, state |-> Shown(rows[q].state)]],
    posted  <- [u \in Sales |-> Cardinality({x \in invoices : x.uuid = u})],
    durable <- recorded,
    contested <- crossed

\* Whatever is lost, repeated, aborted, raced or restarted, the till and the
\* server together only ever do what SaleDelivery allows.
DeliversSales == Delivery!DeliverySpec

-----------------------------------------------------------------------------
(* What eventually happens.  The flush timer fires for ever, a record that *)
(* has its number is inserted, what an answer said is written down, the    *)
(* server serves what it has received and its answers come back.           *)

Alone(serverAction) ==
    serverAction /\ UNCHANGED <<tillVars, on, recorded, machine>>

ServerFairness ==
    \A s \in Sessions :
        /\ SF_vars(Alone(Serve(s)))
        /\ WF_vars(Alone(DeadlockVictim(s)))
        /\ WF_vars(Delivers(s) \/ Discard(s))

TillFairness ==
    /\ \A u \in Sales : WF_vars(Record(u))
    /\ WF_vars(\E s \in Sessions : Sends(s))
    /\ \A m \in Mounts : WF_vars(Write(m))

\* What only has to stop some day, not within any number of steps.
Fault == GivesUp \/ Restart \/ Replace \/ \E s \in Sessions : Alone(Abort(s))
Calm  == <>[][~Fault]_vars

CalmSpec == Spec /\ ServerFairness /\ TillFairness /\ Calm

Refused(u) ==
    \E q \in Seqs : \/ rows[q].uuid = u /\ rows[q].state = "failed"
                    \/ item[q].uuid = u /\ item[q].state = "failed"

\* A durable sale reaches the books or is refused on record, whatever is lost,
\* repeated, aborted or restarted on the way.
EverySaleReachesTheServer ==
    \A u \in Sales : u \in recorded ~> (u \in Rung \/ Refused(u))
=============================================================================
