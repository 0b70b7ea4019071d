---------------------------- MODULE CounterBooks ----------------------------
(***************************************************************************)
(* The transactions that meet on one store's rows: sales, deliveries,      *)
(* returns, issues, cash movements and the closing of the till's session   *)
(* (sales/finalize.go, sales/refund.go, purchasing/receiving.go,           *)
(* inventory/store.go, inventory/shortfall.go, shift/shift.go).            *)
(*                                                                         *)
(* One action is one statement of a transaction under READ COMMITTED: it   *)
(* sees the rows committed when it starts and the transaction's own, waits *)
(* for the rows it locks, reads those again once it has them, and what the *)
(* transaction writes shows when it commits.  Costs are FIFO; the company  *)
(* lets a sale go below zero.                                              *)
(***************************************************************************)
EXTENDS Integers, Sequences, FiniteSets, FiniteSetsExt, Functions

CONSTANTS
    Variants,       \* numbered, in the order LockStock sorts them
    MaxTxns,        \* bound: transactions, numbered as they begin
    MaxSessions,    \* bound: sessions of the till
    Documents,      \* bound: the lines a sale, an issue or a delivery may have
    Openings,       \* bound: how each variant may stand at the start
    OldCost, NewCost    \* what a unit cost before, and costs now

\* A document has a line, and names an item once.
ASSUME BooksAssumption ==
    /\ MaxTxns \in Nat /\ MaxSessions \in Nat \ {0}
    /\ Variants \subseteq Nat /\ IsFiniteSet(Variants)
    /\ Documents \subseteq Seq([v : Variants, n : Nat \ {0}])
    /\ \A d \in Documents : /\ d # << >>
                            /\ \A i, j \in DOMAIN d : d[i].v = d[j].v => i = j
    /\ Openings \subseteq [Variants -> {"stocked", "short", "new"}]
    /\ OldCost \in Nat /\ NewCost \in Nat

Txns == 1..MaxTxns
Born == 0..MaxTxns              \* 0 is everything before the instance

\* A layer is a receipt's units still held, a hole the units a sale took that
\* no layer covered.  A transaction makes at most one of each per variant.
Rows     == {"layer", "hole"} \X Born \X Variants
Layer(t, v) == <<"layer", t, v>>
Hole(t, v)  == <<"hole", t, v>>
Pool(v)     == <<"pool", v>>
Session(n)  == <<"session", n>>
Series      == <<"series", "CRN">>

Kinds  == {"sale", "issue", "delivery", "return", "movement", "close"}
Ended  == {"committed", "refused", "rolled back"}
Steps  == {"session", "pool", "layers", "consume", "receive", "settle",
           "restore", "number", "count", "commit"}

VARIABLES
    sessions, frozen,       \* sessions opened; the closed ones' expected cash
    pools,                  \* variants with a pool row
    stock,                  \* the layers and holes: units left, cost of each
    charged,                \* what each sale's line was charged, in all
    ledger,                 \* the Inventory account
    kind, doc, of,          \* a transaction's document; the sale it returns
    pc, line,               \* its next statement, and the line that is for
    held, want,             \* rows it has locked; rows its statement waits for
    drawn, posts, figure,   \* what it will draw, post and freeze
    sess,                   \* the session it is rung in
    blind                   \* the items taken with no pool row held (history)

rowVars == <<sessions, frozen, pools, stock, charged, ledger>>
docVars == <<kind, doc, of>>
txnVars == <<pc, line, held, want, drawn, posts, figure, sess>>
vars    == <<rowVars, docVars, txnVars, blind>>

Running   == {t \in Txns : pc[t] \in Steps}
Committed == {0} \cup {t \in Txns : pc[t] = "committed"}
Line(t)   == doc[t][line[t]]
LineVariants(t) == {doc[t][i].v : i \in DOMAIN doc[t]}

With(f, x, y) == [z \in DOMAIN f \cup {x} |-> IF z = x THEN y ELSE f[z]]

TypeOK ==
    /\ sessions \in 1..MaxSessions
    /\ DOMAIN frozen \subseteq 1..sessions /\ Range(frozen) \subseteq Int
    /\ pools \subseteq Variants
    /\ DOMAIN stock \subseteq Rows
    /\ Range(stock) \subseteq [qty : Int, cost : Nat]
    /\ charged \in [Born \X Variants -> Nat]
    /\ ledger \in Int
    /\ kind \in [Txns -> Kinds \cup {"none"}]
    /\ of \in [Txns -> Born]
    /\ pc \in [Txns -> Steps \cup Ended \cup {"none"}]
    /\ \A t \in Txns : line[t] \in 1..(Len(doc[t]) + 1)
    /\ \A t \in Txns : pc[t] \notin Steps => held[t] \cup want[t] = {}
    /\ \A t \in Txns : /\ DOMAIN drawn[t] \subseteq DOMAIN stock
                       /\ Range(drawn[t]) \subseteq Nat
    /\ posts \in [Txns -> Int] /\ figure \in [Txns -> Int]
    /\ sess \in [Txns -> 0..MaxSessions]
    /\ blind \subseteq Txns \X Variants

Init ==
    \E opening \in Openings :
        /\ sessions = 1 /\ frozen = << >>
        /\ pools = {v \in Variants : opening[v] # "new"}
        /\ stock = [r \in {Layer(0, v) : v \in {w \in Variants : opening[w] = "stocked"}}
                         \cup {Hole(0, v) : v \in {w \in Variants : opening[w] = "short"}}
                    |-> [qty |-> 1, cost |-> OldCost]]
        /\ charged = [l \in Born \X Variants |->
                        IF l[1] = 0 /\ opening[l[2]] # "new" THEN OldCost ELSE 0]
        /\ ledger = OldCost * (Cardinality({v \in Variants : opening[v] = "stocked"})
                             - Cardinality({v \in Variants : opening[v] = "short"}))
        /\ kind = [t \in Txns |-> "none"]
        /\ doc = [t \in Txns |-> << >>]
        /\ of = [t \in Txns |-> 0]
        /\ pc = [t \in Txns |-> "none"]
        /\ line = [t \in Txns |-> 1]
        /\ held = [t \in Txns |-> {}] /\ want = [t \in Txns |-> {}]
        /\ drawn = [t \in Txns |-> << >>]
        /\ posts = [t \in Txns |-> 0] /\ figure = [t \in Txns |-> 0]
        /\ sess = [t \in Txns |-> 0]
        /\ blind = {}

-----------------------------------------------------------------------------
(* Row locks.                                                              *)

\* A slip: the session is read with no lock.
SessionUnlocked(t, u, r) == r[1] # "session"

\* A slip: the layers are read with no lock.
LayersUnlocked(t, u, r) ==
    r[1] # "layer" /\ (r[1] = "session" => "close" \in {kind[t], kind[u]})

\* FOR SHARE, which all but the close take on the session, conflicts with
\* FOR UPDATE and with nothing else.
Conflict(t, u, r) == r[1] = "session" => "close" \in {kind[t], kind[u]}

Holders(t, r) == {u \in Running \ {t} : r \in held[u] /\ Conflict(t, u, r)}
Blockers(t)   == UNION {Holders(t, r) : r \in want[t]}

\* A statement's rows are those it found when it started.
Asked(t, rows) == IF want[t] = {} THEN rows ELSE want[t]

Wait(t, rows) ==
    /\ want[t] = {}
    /\ \E r \in rows : Holders(t, r) # {}
    /\ want' = [want EXCEPT ![t] = rows]
    /\ UNCHANGED <<rowVars, docVars, pc, line, held, drawn, posts, figure, sess,
                   blind>>

Lock(t, rows) ==
    /\ \A r \in Asked(t, rows) : Holders(t, r) = {}
    /\ held' = [held EXCEPT ![t] = @ \cup Asked(t, rows)]
    /\ want' = [want EXCEPT ![t] = {}]

Goto(t, step) == pc' = [pc EXCEPT ![t] = step]

\* A slip: the pooled connection goes back with its transaction open.
EndHolding(t, how) ==
    /\ Goto(t, how)
    /\ drawn' = [drawn EXCEPT ![t] = << >>]
    /\ posts' = [posts EXCEPT ![t] = 0]
    /\ figure' = [figure EXCEPT ![t] = 0]
    /\ line' = [line EXCEPT ![t] = 1]
    /\ UNCHANGED <<held, want, sess>>

\* The transaction is rolled back and its rows are let go.
End(t, how) ==
    /\ Goto(t, how)
    /\ held' = [held EXCEPT ![t] = {}]
    /\ want' = [want EXCEPT ![t] = {}]
    /\ drawn' = [drawn EXCEPT ![t] = << >>]
    /\ posts' = [posts EXCEPT ![t] = 0]
    /\ figure' = [figure EXCEPT ![t] = 0]
    /\ line' = [line EXCEPT ![t] = 1]
    /\ UNCHANGED sess

Refuse(t) == End(t, "refused") /\ UNCHANGED <<rowVars, docVars, blind>>

-----------------------------------------------------------------------------
(* The session.                                                            *)

\* What a document puts in the drawer or takes out.
Cash(k) == CASE k = "sale" -> 5 [] k = "return" -> -2 [] k = "movement" -> 1

Rung(n) == {t \in Committed \ {0} : sess[t] = n /\ kind[t] # "close"}

Drawer(n) == SumFunction([t \in Rung(n) |-> Cash(kind[t])])

IsOpen(n) == n \notin DOMAIN frozen

OpenSession ==
    /\ ~IsOpen(sessions)
    /\ sessions < MaxSessions
    /\ sessions' = sessions + 1
    /\ UNCHANGED <<frozen, pools, stock, charged, ledger, docVars, txnVars,
                   blind>>

AfterSession(t) == CASE kind[t] = "sale"   -> "pool"
                     [] kind[t] = "return" -> "restore"
                     [] kind[t] = "close"  -> "count"
                     [] OTHER              -> "commit"

SessionRows == {Session(sessions)}

\* The open session, locked; the state is read again once the lock is held.
TakeSession(t) ==
    /\ pc[t] = "session"
    /\ \/ Wait(t, SessionRows)
       \/ /\ Lock(t, SessionRows)
          /\ \E n \in 1..sessions :
                /\ Session(n) \in Asked(t, SessionRows)
                /\ IsOpen(n)
                /\ sess' = [sess EXCEPT ![t] = n]
                /\ Goto(t, AfterSession(t))
                /\ UNCHANGED <<rowVars, docVars, line, drawn, posts, figure, blind>>
       \/ /\ \A r \in Asked(t, SessionRows) : Holders(t, r) = {} /\ ~IsOpen(r[2])
          /\ Refuse(t)

\* cash_session_expected, a statement after the lock.
Count(t) ==
    /\ pc[t] = "count"
    /\ figure' = [figure EXCEPT ![t] = Drawer(sess[t])]
    /\ Goto(t, "commit")
    /\ UNCHANGED <<rowVars, docVars, line, held, want, drawn, posts, sess, blind>>

-----------------------------------------------------------------------------
(* Stock.                                                                  *)

Drawn(t, r) == IF r \in DOMAIN drawn[t] THEN drawn[t][r] ELSE 0
Left(t, r)  == stock[r].qty - Drawn(t, r)

\* The open rows a statement of t sees: the committed ones and its own.
OpenRows(t, what, v) ==
    {r \in DOMAIN stock : /\ r[1] = what /\ r[3] = v
                          /\ r[2] \in Committed \cup {t}
                          /\ Left(t, r) > 0}

Units(t, S) == SumFunction([r \in S |-> Left(t, r)])
Worth(draw) == SumFunction([r \in DOMAIN draw |-> draw[r] * stock[r].cost])

\* n units out of the rows of S, the oldest first: of each what is still asked
\* for after those before it, all it has, or none.
Draw(t, S, n) ==
    [r \in S |-> LET rest == n - Units(t, {x \in S : x[2] < r[2]})
                 IN  IF rest \in 0..Left(t, r) THEN rest
                     ELSE IF rest > 0 THEN Left(t, r) ELSE 0]

\* The rows of a locking read that still qualify once it has its locks.
Got(t, rows) == {r \in Asked(t, rows) : Left(t, r) > 0}

DrawnToo(t, draw) ==
    [drawn EXCEPT ![t] =
        [r \in DOMAIN @ \cup DOMAIN draw |->
            Drawn(t, r) + (IF r \in DOMAIN draw THEN draw[r] ELSE 0)]]

\* A slip: the units no layer covered are charged and then forgotten.
InsertLayers(row, n, each) ==
    IF row[1] = "layer" THEN stock' = With(stock, row, [qty |-> n, cost |-> each])
                        ELSE UNCHANGED stock

\* A row of t's own, which shows when t commits.
Insert(row, n, each) == stock' = With(stock, row, [qty |-> n, cost |-> each])

\* On to the next line's first statement, or past the last line.
NextLine(t, first, after) ==
    IF line[t] < Len(doc[t])
    THEN line' = [line EXCEPT ![t] = @ + 1] /\ Goto(t, first)
    ELSE line' = [line EXCEPT ![t] = 1] /\ Goto(t, after)

\* A slip: the items are locked in the order they were rung.
AsRung(t) == Line(t).v

\* The variant LockStock comes to: a sale's items, sorted.
Nth(t) == CHOOSE v \in LineVariants(t) :
            Cardinality({w \in LineVariants(t) : w <= v}) = line[t]

\* A slip: only the layers are locked.
NoPoolRows(t) == {}

\* LockStock: the pool row, if there is one to see, then the open layers.
PoolRows(t) == {Pool(v) : v \in {Nth(t)} \cap pools}

LockPool(t) ==
    /\ pc[t] = "pool"
    /\ \/ Wait(t, PoolRows(t))
       \/ /\ Lock(t, PoolRows(t))
          /\ Goto(t, "layers")
          /\ blind' = IF Nth(t) \in pools THEN blind ELSE blind \cup {<<t, Nth(t)>>}
          /\ UNCHANGED <<rowVars, docVars, line, drawn, posts, figure, sess>>

LockLayers(t) ==
    LET rows == OpenRows(t, "layer", Nth(t))
    IN  /\ pc[t] = "layers"
        /\ \/ Wait(t, rows)
           \/ /\ Lock(t, rows)
              /\ NextLine(t, "pool", "consume")
              /\ UNCHANGED <<rowVars, docVars, drawn, posts, figure, sess, blind>>

\* Consume: units out of the layers, and a hole for those no layer covers at
\* the newest cost in sight.
Consume(t) ==
    LET v     == Line(t).v
        rows  == OpenRows(t, "layer", v)
        got   == Got(t, rows)
        draw  == Draw(t, got, Line(t).n)
        short == Line(t).n - Units(t, got)
        guess == IF got = {} THEN 0
                 ELSE stock[CHOOSE r \in got : \A x \in got : x[2] <= r[2]].cost
        total == Worth(draw) + Max({0, short}) * guess
    IN  /\ pc[t] = "consume"
        /\ \/ Wait(t, rows)
           \/ /\ Lock(t, rows)
              /\ drawn' = DrawnToo(t, draw)
              /\ posts' = [posts EXCEPT ![t] = @ - total]
              /\ charged' = [charged EXCEPT ![<<t, v>>] = total]
              /\ IF short \in 1..Line(t).n THEN Insert(Hole(t, v), short, guess)
                                            ELSE UNCHANGED stock
              /\ blind' = IF kind[t] = "sale" THEN blind ELSE blind \cup {<<t, v>>}
              /\ NextLine(t, "consume", "commit")
              /\ UNCHANGED <<sessions, frozen, pools, ledger, docVars, figure, sess>>

\* Receive: the layer, then the pool row, which the upsert makes or locks.
Receive(t) ==
    LET v == Line(t).v
    IN  /\ pc[t] = "receive"
        /\ \/ Wait(t, {Pool(v)})
           \/ /\ Lock(t, {Pool(v)})
              /\ Insert(Layer(t, v), Line(t).n, NewCost)
              /\ posts' = [posts EXCEPT ![t] = @ + Line(t).n * NewCost]
              /\ Goto(t, "settle")
              /\ UNCHANGED <<sessions, frozen, pools, charged, ledger, docVars, line,
                             drawn, figure, sess, blind>>

\* SettleShortfalls: the open holes, the oldest first, against the layers.
Settle(t) ==
    LET v      == Line(t).v
        holes  == OpenRows(t, "hole", v)
        rows   == IF holes = {} THEN {} ELSE holes \cup OpenRows(t, "layer", v)
        got    == Got(t, rows)
        owed   == {r \in got : r[1] = "hole"}
        shelf  == got \ owed
        n      == Min({Units(t, owed), Units(t, shelf)})
        settled == Draw(t, owed, n)
        actual  == Draw(t, shelf, n)
    IN  /\ pc[t] = "settle"
        /\ \/ Wait(t, rows)
           \/ /\ Lock(t, rows)
              /\ drawn' = DrawnToo(t, [r \in got |-> IF r \in owed THEN settled[r]
                                                                  ELSE actual[r]])
              /\ posts' = [posts EXCEPT ![t] = @ + Worth(settled) - Worth(actual)]
              /\ NextLine(t, "receive", "commit")
              /\ UNCHANGED <<rowVars, docVars, figure, sess, blind>>

-----------------------------------------------------------------------------
(* Returns.                                                                *)

\* What the line of sale u for v sold; 0 is the sale before the instance.
Sold(u, v) ==
    IF u = 0 THEN (IF charged[<<u, v>>] > 0 THEN 1 ELSE 0)
    ELSE IF v \in LineVariants(u)
    THEN doc[u][CHOOSE i \in DOMAIN doc[u] : doc[u][i].v = v].n
    ELSE 0

\* A return has one line, of one unit.
Item(t)       == doc[t][1].v
Returns(u, v) == {t \in Txns : kind[t] = "return" /\ of[t] = u /\ Item(t) = v}

\* The committed lines that count against the sale's: what returnable_lines
\* and the trigger add up.
Back(u, v) == Cardinality(Returns(u, v) \cap Committed)

Returnable(t) == Back(of[t], Item(t)) + 1 <= Sold(of[t], Item(t))

\* Restore: one unit comes back as a layer, at what it was charged out at.
Restore(t) ==
    LET v    == Item(t)
        unit == charged[<<of[t], v>>] \div Sold(of[t], v)
    IN  /\ pc[t] = "restore"
        /\ IF Returnable(t)
           THEN /\ Insert(Layer(t, v), 1, unit)
                /\ posts' = [posts EXCEPT ![t] = @ + unit]
                /\ Goto(t, "number")
                /\ UNCHANGED <<sessions, frozen, pools, charged, ledger, docVars,
                               line, held, want, drawn, figure, sess, blind>>
           ELSE Refuse(t)

\* A slip: the limit is left to what returnable_lines read.
NumberUnchecked(t) ==
    /\ pc[t] = "number"
    /\ \/ Wait(t, {Series})
       \/ /\ Lock(t, {Series})
          /\ Goto(t, "commit")
          /\ UNCHANGED <<rowVars, docVars, line, drawn, posts, figure, sess, blind>>

\* The credit note's number comes off the store's series, whose row is held to
\* the end; its lines follow, and the trigger looks again at what went back.
Number(t) ==
    /\ pc[t] = "number"
    /\ \/ Wait(t, {Series})
       \/ /\ Lock(t, {Series})
          /\ Returnable(t)
          /\ Goto(t, "commit")
          /\ UNCHANGED <<rowVars, docVars, line, drawn, posts, figure, sess, blind>>
       \/ /\ \A r \in Asked(t, {Series}) : Holders(t, r) = {}
          /\ ~Returnable(t)
          /\ Refuse(t)

-----------------------------------------------------------------------------
Begins(t, k, d, u) ==
    /\ pc[t] = "none"
    /\ \A s \in Txns : pc[s] = "none" => t <= s
    /\ kind' = [kind EXCEPT ![t] = k]
    /\ doc' = [doc EXCEPT ![t] = d]
    /\ of' = [of EXCEPT ![t] = u]
    /\ Goto(t, CASE k = "issue" -> "consume" [] k = "delivery" -> "receive"
                 [] OTHER -> "session")
    /\ UNCHANGED <<rowVars, line, held, want, drawn, posts, figure, sess, blind>>

BeginStock(t) == \E k \in {"sale", "issue", "delivery"}, d \in Documents :
                    Begins(t, k, d, 0)

BeginCash(t) == \E k \in {"movement", "close"} : Begins(t, k, << >>, 0)

BeginReturn(t) ==
    \E u \in {0} \cup {s \in Committed \ {0} : kind[s] = "sale"}, v \in Variants :
        /\ Sold(u, v) > 0
        /\ Begins(t, "return", <<[v |-> v, n |-> 1]>>, u)

Commit(t) ==
    /\ pc[t] = "commit"
    /\ stock' = [r \in DOMAIN stock |-> [stock[r] EXCEPT !.qty = @ - Drawn(t, r)]]
    /\ ledger' = ledger + posts[t]
    /\ pools' = IF kind[t] = "delivery" THEN pools \cup LineVariants(t) ELSE pools
    /\ frozen' = IF kind[t] = "close" THEN With(frozen, sess[t], figure[t]) ELSE frozen
    /\ End(t, "committed")
    /\ UNCHANGED <<sessions, charged, docVars, blind>>

\* The request is given up or its connection lost.
Rollback(t) ==
    /\ t \in Running
    /\ End(t, "rolled back")
    /\ UNCHANGED <<rowVars, docVars, blind>>

\* t waits for itself, through others: it is in every set of S that has whom it
\* waits for and whom they wait for.
OnCycle(t, S) ==
    \A X \in SUBSET S :
        (\A u \in X \cup {t} : Blockers(u) \cap S \subseteq X) => t \in X

\* PostgreSQL finds a cycle of waits and rolls one of it back.
Victim(t) ==
    /\ want[t] # {}
    /\ OnCycle(t, Running)
    /\ End(t, "rolled back")
    /\ UNCHANGED <<rowVars, docVars, blind>>

Step(t) == \/ TakeSession(t) \/ Count(t) \/ LockPool(t) \/ LockLayers(t)
           \/ Consume(t) \/ Receive(t) \/ Settle(t) \/ Restore(t) \/ Number(t)
           \/ Commit(t)

Next == \/ OpenSession
        \/ \E t \in Txns : \/ BeginStock(t) \/ BeginCash(t) \/ BeginReturn(t)
                           \/ Step(t) \/ Rollback(t) \/ Victim(t)

Spec == Init /\ [][Next]_vars

-----------------------------------------------------------------------------
(* Properties.                                                             *)

\* A closed session's expected cash counts every document rung in it
\* (shift.go:461, terminal.go:347): none lands after the count.
FrozenIsComplete == \A n \in DOMAIN frozen : frozen[n] = Drawer(n)

OnTheBooks(what) == {r \in DOMAIN stock : /\ r[1] = what /\ r[2] \in Committed
                                          /\ stock[r].qty > 0}

Value(what) == SumFunction([r \in OnTheBooks(what) |-> stock[r].qty * stock[r].cost])

\* The valuation, which deducts the open holes at what they were charged at,
\* is the Inventory account to the last unit (migration 0047, C13).
TieOut == Value("layer") - Value("hole") = ledger

\* No layer is drawn below nothing and no hole settled twice over: what a sale
\* is charged comes from stock only it can have (store.go:506, shortfall.go:190).
DrawnOnce == \A r \in DOMAIN stock : stock[r].qty >= 0

\* A hole found by a sale that held the pool row never stands open beside
\* delivered stock (shortfall.go:106): the delivery settles it, or the sale
\* sees the delivery.
NoHoleBesideStock ==
    \A hole \in OnTheBooks("hole"), layer \in OnTheBooks("layer") :
        hole[3] = layer[3] => \/ <<hole[2], hole[3]>> \in blind
                              \/ layer[2] # 0 /\ kind[layer[2]] = "return"

\* More of a line never goes back than was sold, however returns race
\* (migration 0019:26, refund.go:502).
NeverOverReturned ==
    \A u \in Committed, v \in Variants :
        (u = 0 \/ kind[u] = "sale") => Back(u, v) <= Sold(u, v)

\* Sales that share items queue; they never wait for each other in a circle
\* (store.go:560), as long as each found the pool rows of its items.
SalesQueue ==
    LET sales == {t \in Running : /\ kind[t] = "sale"
                                  /\ \A v \in Variants : <<t, v>> \notin blind}
    IN  \A t \in sales : ~OnCycle(t, sales)
=============================================================================
