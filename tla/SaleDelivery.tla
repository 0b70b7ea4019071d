---------------------------- MODULE SaleDelivery ----------------------------
(***************************************************************************)
(* What offline selling promises the shop, without batches, pushes,        *)
(* transactions or faults: a durable sale waits on the till until it is    *)
(* shown as landed or as refused; it enters the books at most once; it is  *)
(* shown as landed only when it is in the books; while a sale waits, no    *)
(* later one of the same till is posted ahead of it; and what a sale is    *)
(* shown as stays, unless two answers about it were under way at once.     *)
(*                                                                         *)
(* OfflineSync implements this module.                                     *)
(***************************************************************************)
EXTENDS SaleVocabulary

VARIABLES
    queue,     \* the till's list: seq -> [uuid, state]
    posted,    \* how many times each sale is in the books
    durable,   \* every sale that was ever on the till's disk
    contested  \* the numbers two answers were under way for at once

deliveryVars == <<queue, posted, durable, contested>>

Blank == [uuid |-> NoSale, state |-> "none"]

DeliveryInit ==
    /\ queue = [q \in Seqs |-> Blank]
    /\ posted = [u \in Sales |-> 0]
    /\ durable = {}
    /\ contested = {}

Waiting(q) == queue[q].state = "waiting"
IsPosted(q) == queue[q].uuid \in Sales /\ posted[queue[q].uuid] > 0

NothingOvertakes ==
    \A p, q \in Seqs : p < q /\ Waiting(p) /\ IsPosted(q) => IsPosted(p)

Enqueue(q, u) ==
    /\ queue[q] = Blank
    /\ u \notin durable
    /\ queue' = [queue EXCEPT ![q] = [uuid |-> u, state |-> "waiting"]]
    /\ durable' = durable \cup {u}
    /\ UNCHANGED <<posted, contested>>

\* The sales of one push enter the books together.
Post(sales) ==
    /\ sales \subseteq durable
    /\ \A u \in sales : posted[u] = 0
    /\ posted' = [u \in Sales |-> IF u \in sales THEN 1 ELSE posted[u]]
    /\ UNCHANGED <<queue, durable, contested>>
    /\ NothingOvertakes'

\* A number comes to be contested only while its sale waits.
Contest(seqs) ==
    /\ \A q \in seqs : Waiting(q)
    /\ contested' = contested \cup seqs
    /\ UNCHANGED <<queue, posted, durable>>

Shown(q) == queue[q].state \in {"landed", "refused"}

Show(seqs, state) ==
    /\ \A q \in seqs : Waiting(q) \/ (Shown(q) /\ q \in contested)
    /\ queue' = [q \in Seqs |-> IF q \in seqs
                                THEN [queue[q] EXCEPT !.state = state]
                                ELSE queue[q]]
    /\ UNCHANGED <<posted, durable, contested>>

Land(seqs)   == (\A q \in seqs : IsPosted(q)) /\ Show(seqs, "landed")
RefuseOne(q) == Show({q}, "refused")

\* Another machine takes the terminal over, with an empty list.
Abandon ==
    /\ queue' = [q \in Seqs |-> Blank]
    /\ contested' = {}
    /\ UNCHANGED <<posted, durable>>

DeliveryNext ==
    \/ \E q \in Seqs, u \in Sales : Enqueue(q, u)
    \/ \E sales \in SUBSET Sales : Post(sales)
    \/ \E seqs \in SUBSET Seqs : Contest(seqs) \/ Land(seqs)
    \/ \E q \in Seqs : RefuseOne(q)
    \/ Abandon

DeliverySpec == DeliveryInit /\ [][DeliveryNext]_deliveryVars
=============================================================================
