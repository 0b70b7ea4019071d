------------------------------ MODULE StockCache ------------------------------
(***************************************************************************)
(* The till's cached view of the stock ledger: pos/src/offline/stock.ts    *)
(* over SqliteStockStore.  A pull replaces the figures, a stock.moved      *)
(* message nudges one; both await the store between their steps, and the   *)
(* ledger moves under them.  A screen that is left and come back to makes  *)
(* another cache over the same store, while what the old one had under way *)
(* goes on.                                                                *)
(***************************************************************************)
EXTENDS Integers

CONSTANTS
    Variants,
    Warehouses,
    FirstHome,  \* the warehouse the till sells from at first
    Slots,      \* bound: messages being applied at one time
    MaxMoves,   \* bound: movements of the ledger and of the till
    MaxRestarts,\* bound: restarts of the till and of its counter screen
    NoRow

ASSUME StockAssumption ==
    /\ MaxMoves \in Nat
    /\ FirstHome \in Warehouses
    /\ NoRow \notin Int \cup Warehouses \cup Variants
ASSUME RestartAssumption == MaxRestarts \in Nat

VARIABLES
    ledger,     \* the server's figures, by warehouse and variant
    home,       \* the warehouse this till sells from
    moves,      \* movements so far
    news,       \* stock.moved messages on their way, counted
    store,      \* cached_stock, by warehouse and variant
    held,       \* the figures in memory, each with its warehouse
    warehouse,  \* mount -> warehouseId: what it believes home is, NoRow for null
    pull,       \* mount -> its pull under way
    task,       \* the messages being applied
    late,       \* left mounts whose monitor's last probe may yet have them pull
    crossed     \* history: where a pull that crossed another step left its mark

worldVars == <<ledger, home, moves, news>>
cacheVars == <<store, held, warehouse>>
stockVars == <<worldVars, cacheVars, pull, task, late, crossed>>

\* Mount 0 is the counter screen now shown; the others were left.
Mounts == 0..MaxRestarts
Left   == Mounts \ {0}

Row     == Int \cup {NoRow}
Figures == [Variants -> Row]
Nothing == [v \in Variants |-> NoRow]
Unheld  == [of |-> NoRow, n |-> NoRow]
NoPull  == [phase |-> "idle", of |-> NoRow, lines |-> Nothing, todo |-> {}]
Idle    == [at |-> "idle", v |-> NoRow, of |-> NoRow, base |-> NoRow, left |-> FALSE]

Pulls == [phase : {"idle", "asked", "answered", "clear", "empty", "put"},
          of : Warehouses \cup {NoRow}, lines : Figures, todo : SUBSET Variants]
Tasks == [at : {"idle", "get", "update", "reread", "set"}, v : Variants \cup {NoRow},
          of : Warehouses \cup {NoRow}, base : Row, left : BOOLEAN]

StockTypeOK ==
    /\ ledger \in [Warehouses -> [Variants -> Int]]
    /\ home \in Warehouses
    /\ moves \in 0..MaxMoves
    /\ news \in [Warehouses -> [Variants -> Nat]]
    /\ store \in [Warehouses -> Figures]
    /\ held \in [Variants -> [of : Warehouses \cup {NoRow}, n : Row]]
    /\ warehouse \in [Mounts -> Warehouses \cup {NoRow}]
    /\ pull \in [Mounts -> Pulls]
    /\ task \in [Slots -> Tasks]
    /\ late \subseteq Left
    /\ crossed \subseteq {"store", "memory"}

StockInit ==
    /\ ledger = [w \in Warehouses |-> [v \in Variants |-> 0]]
    /\ home = FirstHome
    /\ moves = 0
    /\ news = ledger
    /\ store = [w \in Warehouses |-> Nothing]
    /\ held = [v \in Variants |-> Unheld]
    /\ warehouse = [m \in Mounts |-> NoRow]
    /\ pull = [m \in Mounts |-> NoPull]
    /\ task = [s \in Slots |-> Idle]
    /\ late = {}
    /\ crossed = {}

-----------------------------------------------------------------------------
(* The shop: something is sold elsewhere, the till moves to another branch. *)

Move(w, v) ==
    /\ moves < MaxMoves
    /\ moves' = moves + 1
    /\ ledger' = [ledger EXCEPT ![w][v] = @ - 1]
    /\ news' = [news EXCEPT ![w][v] = @ + 1]
    /\ UNCHANGED <<home, cacheVars, pull, task, late, crossed>>

Rehome(w) ==
    /\ moves < MaxMoves
    /\ w # home
    /\ moves' = moves + 1
    /\ home' = w
    /\ UNCHANGED <<ledger, news, cacheVars, pull, task, late, crossed>>

\* The socket was down when it was sent.
Miss(w, v) ==
    /\ news[w][v] > 0
    /\ news' = [news EXCEPT ![w][v] = @ - 1]
    /\ UNCHANGED <<ledger, home, moves, cacheVars, pull, task, late, crossed>>

-----------------------------------------------------------------------------
(* apply and the store's applyDelta, one step per await.                   *)

\* A delta for another warehouse, or for a variant not held, is dropped.
Hear(s, w, v) ==
    /\ news[w][v] > 0
    /\ task[s] = Idle
    /\ news' = [news EXCEPT ![w][v] = @ - 1]
    /\ task' = IF w = warehouse[0] /\ held[v] # Unheld
                 THEN [task EXCEPT ![s] = [at |-> "get", v |-> v, of |-> w, base |-> NoRow,
                                           left |-> FALSE]]
                 ELSE task
    /\ UNCHANGED <<ledger, home, moves, cacheVars, pull, late, crossed>>

RowOf(s) == store[task[s].of][task[s].v]

\* The row is read, before the write and again after it.
Read(s, at, next) ==
    /\ task[s].at = at
    /\ task' = [task EXCEPT ![s] = IF RowOf(s) = NoRow THEN Idle
                                   ELSE [@ EXCEPT !.at = next, !.base = RowOf(s)]]
    /\ UNCHANGED <<worldVars, cacheVars, pull, late, crossed>>

Get(s)    == Read(s, "get", "update")
Reread(s) == Read(s, "reread", "set")

Put(w, v, n) == store' = [store EXCEPT ![w][v] = n]

\* A slip: the delta is written with an upsert.
UpsertRow(w, v, n) == Put(w, v, n)

\* UPDATE writes a row that is there.
UpdateRow(w, v, n) == Put(w, v, IF store[w][v] = NoRow THEN NoRow ELSE n)

\* What is read again after the write is only for a figure still shown.
Update(s) ==
    /\ task[s].at = "update"
    /\ UpdateRow(task[s].of, task[s].v, task[s].base - 1)
    /\ task' = [task EXCEPT ![s] = IF task[s].left THEN Idle
                                   ELSE [@ EXCEPT !.at = "reread", !.base = NoRow]]
    /\ UNCHANGED <<worldVars, held, warehouse, pull, late, crossed>>

\* What was read is set, whatever was pulled since.
Set(s) ==
    /\ task[s].at = "set"
    /\ held' = [held EXCEPT ![task[s].v] = [of |-> task[s].of, n |-> task[s].base]]
    /\ task' = [task EXCEPT ![s] = Idle]
    /\ UNCHANGED <<worldVars, store, warehouse, pull, late, crossed>>

Apply(s) == Get(s) \/ Update(s) \/ Reread(s) \/ Set(s)

\* The screen is left: the awaits go on, and what they write to disk counts.
Leave(t) == IF t.at \in {"get", "update"} THEN [t EXCEPT !.left = TRUE] ELSE Idle

-----------------------------------------------------------------------------
(* pull, one step per await.                                               *)

Pulling(m) == pull[m].phase # "idle"
Astray     == late # {} \/ \E m \in Left : Pulling(m)

Ask(m) ==
    /\ pull' = [pull EXCEPT ![m].phase = "asked"]
    /\ UNCHANGED <<worldVars, cacheVars, task, late, crossed>>

\* The server reads the ledger of the warehouse the device sells from.
Serve(m) ==
    /\ pull[m].phase = "asked"
    /\ pull' = [pull EXCEPT ![m] = [@ EXCEPT !.phase = "answered", !.of = home,
                                             !.lines = ledger[home]]]
    /\ UNCHANGED <<worldVars, cacheVars, task, late, crossed>>

\* Offline, or not allowed: what is held stays.
Fail(m) ==
    /\ pull[m].phase \in {"asked", "answered"}
    /\ pull' = [pull EXCEPT ![m] = NoPull]
    /\ UNCHANGED <<worldVars, cacheVars, task, late, crossed>>

Moved(m) == warehouse[m] \notin {NoRow, pull[m].of}

\* From here on the mount takes the answer's warehouse for its own.
StartPut(m) ==
    /\ pull' = [pull EXCEPT ![m] = [@ EXCEPT !.phase = "put", !.todo = Variants]]
    /\ warehouse' = [warehouse EXCEPT ![m] = pull[m].of]

Arrive(m) ==
    /\ pull[m].phase = "answered"
    /\ IF Moved(m)
         THEN /\ pull' = [pull EXCEPT ![m].phase = "clear"]
              /\ UNCHANGED warehouse
         ELSE StartPut(m)
    /\ UNCHANGED <<worldVars, store, held, task, late, crossed>>

Clear(m) ==
    /\ pull[m].phase = "clear"
    /\ store' = [w \in Warehouses |-> Nothing]
    /\ pull' = [pull EXCEPT ![m].phase = "empty"]
    /\ crossed' = IF m = 0 /\ ~Astray /\ crossed # {} THEN {"memory"} ELSE crossed
    /\ UNCHANGED <<worldVars, held, warehouse, task, late>>

\* Only the mount that is shown has figures anyone reads.
TakeUp(m, figures) == held' = IF m = 0 THEN figures ELSE held

\* A message that has its row in hand is overtaken by a change of figures.
Overtaken == \E s \in Slots : task[s].at = "set"

\* The map in memory follows the store.
Empty(m) ==
    /\ pull[m].phase = "empty"
    /\ TakeUp(m, [v \in Variants |-> Unheld])
    /\ StartPut(m)
    /\ crossed' = IF m # 0 THEN crossed ELSE IF Overtaken THEN crossed \cup {"memory"}
                                                        ELSE crossed \ {"memory"}
    /\ UNCHANGED <<worldVars, store, task, late>>

\* One line is written.
PutLine(m, v) ==
    /\ pull[m].phase = "put"
    /\ v \in pull[m].todo
    /\ Put(pull[m].of, v, pull[m].lines[v])
    /\ pull' = [pull EXCEPT ![m].todo = @ \ {v}]
    /\ UNCHANGED <<worldVars, held, warehouse, task, late, crossed>>

\* A slip: what was pulled is written, and not taken up.
LandUnread(m) ==
    /\ pull[m].phase = "put"
    /\ pull[m].todo = {}
    /\ pull' = [pull EXCEPT ![m] = NoPull]
    /\ UNCHANGED <<worldVars, cacheVars, task, late, crossed>>

\* All are written: the map in memory is replaced.
Land(m) ==
    /\ pull[m].phase = "put"
    /\ pull[m].todo = {}
    /\ TakeUp(m, [v \in Variants |-> [of |-> pull[m].of, n |-> pull[m].lines[v]]])
    /\ pull' = [pull EXCEPT ![m] = NoPull]
    /\ crossed' = IF m # 0 \/ Overtaken THEN crossed ELSE crossed \ {"memory"}
    /\ UNCHANGED <<worldVars, store, warehouse, task, late>>

\* A step of a pull that the server has answered.
Digest(m) == Clear(m) \/ Empty(m) \/ Land(m) \/ \E v \in Variants : PutLine(m, v)

-----------------------------------------------------------------------------

Rows      == {r \in Warehouses \X Variants : store[r[1]][r[2]] # NoRow}
Stored(v) == {w \in Warehouses : <<w, v>> \in Rows}

\* The shown mount reads what is on disk (hydrate).  The warehouse is that of
\* the first row, the figure of a variant that of its last.
Hydrate ==
    /\ \E first \in IF Rows = {} THEN {NoRow} ELSE {r[1] : r \in Rows} :
          warehouse' = [warehouse EXCEPT ![0] = first]
    /\ \E last \in [Variants -> Warehouses] :
          /\ \A v \in Variants : Stored(v) # {} => last[v] \in Stored(v)
          /\ held' = [v \in Variants |->
                        IF Stored(v) = {} THEN Unheld
                        ELSE [of |-> last[v], n |-> store[last[v]][v]]]
    /\ UNCHANGED <<worldVars, store, pull, task, late, crossed>>

-----------------------------------------------------------------------------

\* The figures a till holds, on disk and in memory, are those of one
\* warehouse, the one it believes it sells from, unless a pull that changed
\* the warehouse overtook a message with its row in hand or one outlived its
\* mount, and until the next change of warehouse that neither crosses: "two
\* warehouses' figures under one variant would be a number that is true of
\* nowhere".
OneWarehouse ==
    /\ "store" \notin crossed =>
          /\ \A r, q \in Rows : r[1] = q[1]
          /\ warehouse[0] # NoRow => \A r \in Rows : r[1] = warehouse[0]
    /\ crossed = {} => \A v \in Variants : held[v] # Unheld => held[v].of = warehouse[0]

Agrees == \A v \in Variants : held[v] = [of |-> home, n |-> ledger[home][v]]
=============================================================================
