--------------------------- MODULE TillCachesProofs ---------------------------
(***************************************************************************)
(* Proofs about the till's caches, for any number of items, warehouses,    *)
(* messages being applied, movements and restarts.                         *)
(***************************************************************************)
EXTENDS TillCaches, TLAPS

\* A message being applied is about one item of one warehouse; once its screen
\* is left it never sets a figure.
TaskInv ==
    \A s \in Slots :
        /\ task[s].at # "idle" => task[s].v \in Variants /\ task[s].of \in Warehouses
        /\ task[s].at = "update" => task[s].base \in Int
        /\ task[s].left => task[s].at \in {"get", "update"}

\* A pull that has its answer is about one warehouse; one that writes has
\* made that warehouse its mount's.
PullInv ==
    \A m \in Mounts :
        /\ pull[m].phase \in {"answered", "clear", "empty", "put"} => pull[m].of \in Warehouses
        /\ pull[m].phase = "put" => warehouse[m] = pull[m].of

\* Nothing is in memory, and no message is on its way there.
Bare ==
    /\ held = [v \in Variants |-> Unheld]
    /\ \A s \in Slots : task[s].at # "idle" => task[s].left

\* Before the stock figures are read from disk the mount has none and pulls
\* none, and from then on it has a warehouse whenever it holds a figure.
OpenInv ==
    /\ closure = "everything" => opened = "everything"
    /\ closure = "nothing" => refresh = "idle"
    /\ warehouse[0] = NoRow => Bare
    /\ opened # "everything" => warehouse[0] = NoRow /\ pull[0] = NoPull
    /\ opened = "everything" /\ warehouse[0] = NoRow /\ "store" \notin crossed => Rows = {}

\* What a mount left behind may still write is known to have crossed; without
\* it a cleared store stays empty, and a row in hand is the till's.
CrossInv ==
    /\ Astray => "store" \in crossed
    /\ pull[0].phase = "empty" /\ "store" \notin crossed => Rows = {}
    /\ \A s \in Slots : task[s].at = "set" /\ crossed = {} => task[s].of = warehouse[0]

CacheInv == TypeOK /\ TaskInv /\ PullInv /\ OpenInv /\ CrossInv /\ OneWarehouse

-----------------------------------------------------------------------------
(* The cached rows.                                                        *)

\* Writing one row makes no other.
LEMMA PutRows ==
    ASSUME StockTypeOK, NEW w \in Warehouses, NEW v \in Variants, NEW n, Put(w, v, n)
    PROVE  Rows' \subseteq Rows \cup {<<w, v>>}
  BY DEF Put, Rows, StockTypeOK, Figures

\* UPDATE makes none.
LEMMA UpdateRows ==
    ASSUME StockTypeOK, NEW w \in Warehouses, NEW v \in Variants, NEW n, UpdateRow(w, v, n)
    PROVE  Rows' \subseteq Rows
  BY DEF UpdateRow, Put, Rows, StockTypeOK, Figures

-----------------------------------------------------------------------------

\* An empty store, nothing held, nothing under way.
LEMMA InitCaches == Init => CacheInv
<1> SUFFICES ASSUME Init PROVE CacheInv
  OBVIOUS
<1>0. 0 \in Mounts
  BY RestartAssumption DEF Mounts
<1>1. TypeOK
  <2>1. StockTypeOK
    BY StockAssumption
       DEF Init, StockInit, StockTypeOK, Figures, Row, Nothing, Unheld, NoPull, Idle, Pulls, Tasks
  <2>2. ~Pulling(0) /\ restarts \in 0..MaxRestarts
    BY <1>0, RestartAssumption DEF Init, StockInit, NoPull, Pulling
  <2> QED  BY <2>1, <2>2 DEF Init, TypeOK
<1>2. TaskInv /\ PullInv /\ Bare
  BY DEF Init, StockInit, TaskInv, PullInv, Bare, Idle, NoPull
<1>3. Rows = {}
  BY DEF Init, StockInit, Rows, Nothing
<1>4. OpenInv /\ OneWarehouse
  BY <1>0, <1>2, <1>3 DEF Init, StockInit, OpenInv, OneWarehouse
<1>5. CrossInv
  BY <1>0, <1>2, <1>3 DEF Init, StockInit, CrossInv, Astray, Pulling, Left, NoPull, Idle
<1> QED  BY <1>1, <1>2, <1>4, <1>5 DEF CacheInv

\* Steps of the shop and of the server, and of the monitor and the hook but
\* for opening: the cache, the pulls and the messages are left alone.
LEMMA AsideKeeps ==
    ASSUME CacheInv, TypeOK', UNCHANGED <<cacheVars, pull, task, late, crossed, opened>>,
           closure' = "everything" => opened = "everything",
           closure' = "nothing" => refresh' = "idle"
    PROVE  CacheInv'
<1>1. Rows' = Rows
  BY DEF Rows, cacheVars
<1>2. OneWarehouse'
  BY <1>1 DEF CacheInv, OneWarehouse, cacheVars
<1>3. OpenInv'
  BY <1>1 DEF CacheInv, OpenInv, Bare, cacheVars
<1>4. TaskInv' /\ PullInv'
  BY DEF CacheInv, TaskInv, PullInv, cacheVars
<1>5. CrossInv'
  BY <1>1 DEF CacheInv, CrossInv, Astray, Pulling, cacheVars
<1> QED  BY <1>2, <1>3, <1>4, <1>5 DEF CacheInv

\* The ledger moves, the till changes branch, a message is missed: the caches stay.
LEMMA ShopKeeps ==
    ASSUME CacheInv, Still,
           \/ \E w \in Warehouses, v \in Variants : Move(w, v) \/ Miss(w, v)
           \/ \E w \in Warehouses : Rehome(w)
    PROVE  CacheInv'
<1>1. UNCHANGED <<cacheVars, pull, task, late, crossed, opened, closure, refresh>>
  BY DEF Still, hookVars, Move, Miss, Rehome
<1>2. StockTypeOK'
  <2>1. ASSUME NEW w \in Warehouses, NEW v \in Variants, Move(w, v) PROVE StockTypeOK'
    <3>1. ledger' \in [Warehouses -> [Variants -> Int]]
          /\ news' \in [Warehouses -> [Variants -> Nat]]
      BY <2>1 DEF Move, CacheInv, TypeOK, StockTypeOK
    <3> QED  BY <2>1, <3>1, StockAssumption DEF Move, CacheInv, TypeOK, StockTypeOK, cacheVars
  <2>2. ASSUME NEW w \in Warehouses, NEW v \in Variants, Miss(w, v) PROVE StockTypeOK'
    <3>1. news' \in [Warehouses -> [Variants -> Nat]]
      BY <2>2 DEF Miss, CacheInv, TypeOK, StockTypeOK
    <3> QED  BY <2>2, <3>1 DEF Miss, CacheInv, TypeOK, StockTypeOK, cacheVars
  <2>3. ASSUME NEW w \in Warehouses, Rehome(w) PROVE StockTypeOK'
    BY <2>3, StockAssumption DEF Rehome, CacheInv, TypeOK, StockTypeOK, cacheVars
  <2> QED  BY <2>1, <2>2, <2>3
<1>3. TypeOK'
  BY <1>1, <1>2 DEF Still, monitorVars, hookVars, CacheInv, TypeOK, Pulling
<1> QED  BY <1>1, <1>3, AsideKeeps DEF CacheInv, OpenInv

\* The probe and the network do not touch the figures.
LEMMA MonitorKeeps ==
    ASSUME CacheInv, Check \/ Settle \/ Flip
    PROVE  CacheInv'
<1>1. UNCHANGED <<stockVars, opened, closure, restarts, synced>>
  BY DEF Check, Settle, Flip, hookVars
<1>2. /\ refresh' = "stock" <=> refresh = "stock"
      /\ refresh' \in {"idle", "catalogue", "stock"}
      /\ closure = "nothing" => refresh' = refresh
  BY DEF Check, Settle, Flip, Refresh, hookVars, CacheInv, TypeOK
<1>3. StockTypeOK'
  BY <1>1 DEF CacheInv, TypeOK, StockTypeOK, stockVars, worldVars, cacheVars
<1>4. TypeOK'
  BY <1>1, <1>2, <1>3
     DEF Check, Settle, Flip, Book, hookVars, monitorVars, stockVars, CacheInv, TypeOK,
         Pulling
<1> QED  BY <1>1, <1>2, <1>4, AsideKeeps DEF CacheInv, OpenInv, stockVars

\* A render and the timer start a refresh, and touch no figure.
LEMMA HookKeeps ==
    ASSUME CacheInv, Render \/ Tick
    PROVE  CacheInv'
<1>1. UNCHANGED <<stockVars, up, monitorVars, opened, restarts, synced>>
  BY DEF Render, Tick
<1>2. /\ refresh = "idle"
      /\ refresh' \in {"idle", "catalogue"}
      /\ closure' \in {"catalogue", "everything"}
      /\ closure' \in {opened, closure}
  BY DEF Render, Stale, Tick, Refresh, CacheInv, OpenInv, TypeOK
<1>3. StockTypeOK'
  BY <1>1 DEF CacheInv, TypeOK, StockTypeOK, stockVars, worldVars, cacheVars
<1>4. TypeOK'
  BY <1>1, <1>2, <1>3 DEF monitorVars, stockVars, CacheInv, TypeOK, Pulling
<1> QED  BY <1>1, <1>2, <1>4, AsideKeeps DEF CacheInv, OpenInv, stockVars

-----------------------------------------------------------------------------
(* Opening and leaving.                                                    *)

\* The store opens before its rows are read: no figure is touched.
LEMMA OpenKeeps ==
    ASSUME CacheInv, Open
    PROVE  CacheInv'
<1>1. UNCHANGED <<stockVars, up, monitorVars, closure, refresh, restarts, synced>>
      /\ opened = "nothing" /\ opened' = "catalogue"
  BY DEF Open
<1>2. Rows' = Rows
  BY <1>1 DEF Rows, stockVars, cacheVars
<1>3. TypeOK'
  BY <1>1 DEF CacheInv, TypeOK, StockTypeOK, stockVars, worldVars, cacheVars, monitorVars,
              Pulling
<1>4. OneWarehouse' /\ CrossInv'
  BY <1>1, <1>2 DEF CacheInv, OneWarehouse, CrossInv, Astray, Pulling, stockVars, cacheVars
<1>5. OpenInv' /\ TaskInv' /\ PullInv'
  BY <1>1, <1>2 DEF CacheInv, OpenInv, Bare, TaskInv, PullInv, stockVars, cacheVars
<1> QED  BY <1>3, <1>4, <1>5 DEF CacheInv

\* What is on disk, when of one warehouse, makes that warehouse the till's.
LEMMA OpenStockKeeps ==
    ASSUME CacheInv, OpenStock
    PROVE  CacheInv'
<1>0. 0 \in Mounts
  BY RestartAssumption DEF Mounts
<1>1. /\ UNCHANGED <<up, monitorVars, closure, refresh, restarts, synced, worldVars, store,
                     pull, task, late, crossed>>
      /\ opened = "catalogue" /\ opened' = "everything"
  BY DEF OpenStock, Hydrate
<1>2. pull[0] = NoPull /\ warehouse[0] = NoRow /\ Bare
  BY <1>1 DEF CacheInv, OpenInv
<1>3. Rows' = Rows
  BY <1>1 DEF Rows
<1>4. PICK first \in IF Rows = {} THEN {NoRow} ELSE {r[1] : r \in Rows} :
          warehouse' = [warehouse EXCEPT ![0] = first]
  BY DEF OpenStock, Hydrate
<1>5. /\ \A r \in Rows : r[1] \in Warehouses
      /\ Rows = {} => first = NoRow
      /\ Rows # {} => first \in Warehouses /\ \E r \in Rows : first = r[1]
  BY <1>4 DEF Rows
<1>6. /\ warehouse'[0] = first
      /\ \A m \in Mounts \ {0} : warehouse'[m] = warehouse[m]
      /\ warehouse' \in [Mounts -> Warehouses \cup {NoRow}]
  BY <1>0, <1>4, <1>5 DEF CacheInv, TypeOK, StockTypeOK
<1>7. PICK last \in [Variants -> Warehouses] :
          /\ \A v \in Variants : Stored(v) # {} => last[v] \in Stored(v)
          /\ held' = [v \in Variants |->
                        IF Stored(v) = {} THEN Unheld
                        ELSE [of |-> last[v], n |-> store[last[v]][v]]]
  BY DEF OpenStock, Hydrate
<1>8. \A v \in Variants : Stored(v) # {} => <<last[v], v>> \in Rows
  BY <1>7 DEF Stored
<1>9. TypeOK'
  <2>1. held' \in [Variants -> [of : Warehouses \cup {NoRow}, n : Row]]
    BY <1>7 DEF CacheInv, TypeOK, StockTypeOK, Unheld, Row, Figures
  <2>2. StockTypeOK'
    BY <1>1, <1>6, <2>1 DEF CacheInv, TypeOK, StockTypeOK, worldVars
  <2> QED  BY <1>1, <2>2 DEF CacheInv, TypeOK, monitorVars, Pulling
<1>10. TaskInv' /\ PullInv'
  BY <1>1, <1>2, <1>6 DEF CacheInv, TaskInv, PullInv, NoPull
<1>11. OpenInv'
  <2>1. warehouse'[0] = NoRow => Rows' = {} /\ \A v \in Variants : Stored(v) = {}
    BY <1>3, <1>5, <1>6, <1>8, StockAssumption
  <2>2. warehouse'[0] = NoRow => Bare'
    BY <1>1, <1>2, <1>7, <2>1 DEF Bare
  <2> QED  BY <1>1, <2>1, <2>2 DEF CacheInv, OpenInv
<1>12. CrossInv'
  BY <1>1, <1>2, <1>3 DEF CacheInv, CrossInv, TaskInv, Bare, Astray, Pulling, NoPull
<1>13. OneWarehouse'
  <2>1. "store" \notin crossed => \A r \in Rows' : warehouse'[0] = r[1]
    BY <1>3, <1>5, <1>6 DEF CacheInv, OneWarehouse
  <2>2. crossed = {} => \A v \in Variants : held'[v] # Unheld => held'[v].of = warehouse'[0]
    BY <1>3, <1>7, <1>8, <2>1
  <2> QED  BY <1>1, <2>1, <2>2 DEF OneWarehouse
<1> QED  BY <1>9, <1>10, <1>11, <1>12, <1>13 DEF CacheInv

\* A mount that starts has nothing in memory.
LEMMA FreshKeeps ==
    ASSUME CacheInv, Fresh, warehouse' \in [Mounts -> Warehouses \cup {NoRow}],
           warehouse'[0] = NoRow, pull' \in [Mounts -> Pulls], pull'[0] = NoPull,
           task' \in [Slots -> Tasks], late' \subseteq Left, TaskInv', PullInv',
           \A s \in Slots : task'[s].at # "idle" => task'[s].left,
           crossed' \subseteq {"store", "memory"},
           "store" \in crossed => "store" \in crossed',
           Astray' => "store" \in crossed'
    PROVE  CacheInv'
<1>1. Rows' = Rows
  BY DEF Fresh, Rows
<1>2. StockTypeOK'
  BY DEF Fresh, worldVars, CacheInv, TypeOK, StockTypeOK, Unheld, Row
<1>3. TypeOK'
  <2>1. restarts' \in 0..MaxRestarts
    BY RestartAssumption DEF Fresh, CacheInv, TypeOK
  <2>2. ~Pulling(0)' /\ refresh' = "idle"
    BY DEF Fresh, NoPull, Pulling
  <2> QED  BY <1>2, <2>1, <2>2 DEF Fresh, CacheInv, TypeOK
<1>4. OpenInv' /\ CrossInv'
  BY DEF Fresh, OpenInv, Bare, CrossInv, TaskInv, NoPull
<1>5. OneWarehouse'
  BY <1>1 DEF Fresh, CacheInv, OneWarehouse
<1> QED  BY <1>3, <1>4, <1>5 DEF CacheInv

\* What was in memory is gone, what was under way with it.
LEMMA RestartKeeps ==
    ASSUME CacheInv, Restart
    PROVE  CacheInv'
<1>0. 0 \in Mounts
  BY RestartAssumption DEF Mounts
<1>1. /\ Fresh
      /\ warehouse' = [m \in Mounts |-> NoRow]
      /\ pull' = [m \in Mounts |-> NoPull]
      /\ task' = [s \in Slots |-> Idle]
      /\ late' = {}
      /\ crossed' = crossed \ {"memory"}
  BY DEF Restart
<1>2. NoPull \in Pulls /\ Idle \in Tasks
  BY DEF NoPull, Pulls, Nothing, Figures, Row, Idle, Tasks
<1>3. TaskInv' /\ PullInv' /\ ~Astray'
  BY <1>1 DEF TaskInv, PullInv, Astray, Pulling, Left, Idle, NoPull
<1>4. crossed' \subseteq {"store", "memory"} /\ ("store" \in crossed => "store" \in crossed')
  BY <1>1 DEF CacheInv, TypeOK, StockTypeOK
<1>5. \A s \in Slots : task'[s].at # "idle" => task'[s].left
  BY <1>1 DEF Idle
<1> QED  BY <1>0, <1>1, <1>2, <1>3, <1>4, <1>5, FreshKeeps

\* What a mount leaves behind is counted as crossing the next one.
LEMMA RemountKeeps ==
    ASSUME CacheInv, Remount
    PROVE  CacheInv'
<1> DEFINE m == restarts + 1
<1>1. /\ Fresh
      /\ pull' = [pull EXCEPT ![0] = NoPull, ![m] = Owed]
      /\ late' = IF Probing /\ refresh # "idle" THEN late \cup {m} ELSE late
      /\ warehouse' = [warehouse EXCEPT ![0] = NoRow, ![m] = warehouse[0]]
      /\ task' = [s \in Slots |-> Leave(task[s])]
      /\ crossed' = (crossed \ {"memory"}) \cup (IF Owed = NoPull THEN {} ELSE {"store"})
  BY DEF Remount
<1>2. 0 \in Mounts /\ m \in Mounts /\ m # 0 /\ m \in Left
  BY <1>1, RestartAssumption DEF Fresh, CacheInv, TypeOK, Mounts, Left
<1>3. /\ NoPull \in Pulls
      /\ Owed \in Pulls
      /\ Owed.phase \in {"idle", "asked"} \/ Owed = pull[0]
  BY <1>2 DEF Owed, NoPull, Pulls, Nothing, Figures, Row, CacheInv, TypeOK, StockTypeOK
<1> HIDE DEF m
<1>4. /\ pull' \in [Mounts -> Pulls] /\ pull'[0] = NoPull /\ pull'[m] = Owed
      /\ \A n \in Mounts \ {0, m} : pull'[n] = pull[n]
  BY <1>1, <1>2, <1>3 DEF CacheInv, TypeOK, StockTypeOK
<1>5. /\ warehouse' \in [Mounts -> Warehouses \cup {NoRow}]
      /\ warehouse'[0] = NoRow /\ warehouse'[m] = warehouse[0]
      /\ \A n \in Mounts \ {0, m} : warehouse'[n] = warehouse[n]
  BY <1>1, <1>2 DEF CacheInv, TypeOK, StockTypeOK
<1>6. \A s \in Slots : /\ Leave(task[s]) \in Tasks
                       /\ \/ Leave(task[s]) = Idle
                          \/ /\ task[s].at \in {"get", "update"}
                             /\ Leave(task[s]) = [task[s] EXCEPT !.left = TRUE]
  <2>1. Idle \in Tasks
    BY DEF Idle, Tasks, Row
  <2>2. ASSUME NEW s \in Slots PROVE task[s] \in Tasks
    BY <2>2 DEF CacheInv, TypeOK, StockTypeOK
  <2>3. ASSUME NEW t \in Tasks PROVE [t EXCEPT !.left = TRUE] \in Tasks
    BY <2>3 DEF Tasks
  <2> QED  BY <2>1, <2>2, <2>3 DEF Leave
<1>7. /\ task' \in [Slots -> Tasks] /\ TaskInv'
      /\ \A s \in Slots : task'[s].at # "idle" => task'[s].left
  <2>1. task' \in [Slots -> Tasks]
    BY <1>1, <1>6
  <2>2. ASSUME NEW s \in Slots
        PROVE  /\ task'[s].at # "idle" => task'[s].v \in Variants /\ task'[s].of \in Warehouses
               /\ task'[s].at = "update" => task'[s].base \in Int
               /\ task'[s].left => task'[s].at \in {"get", "update"}
               /\ task'[s].at # "idle" => task'[s].left
    <3>1. task'[s] = Leave(task[s]) /\ task[s] \in Tasks
      BY <1>1 DEF CacheInv, TypeOK, StockTypeOK
    <3>2. CASE Leave(task[s]) = Idle
      BY <3>1, <3>2 DEF Idle
    <3>3. CASE /\ task[s].at \in {"get", "update"}
               /\ Leave(task[s]) = [task[s] EXCEPT !.left = TRUE]
      <4>1. /\ task'[s].at = task[s].at /\ task'[s].v = task[s].v
            /\ task'[s].of = task[s].of /\ task'[s].base = task[s].base
            /\ task'[s].left = TRUE
        BY <3>1, <3>3 DEF Tasks
      <4> QED  BY <3>3, <4>1 DEF CacheInv, TaskInv
    <3> QED  BY <1>6, <3>2, <3>3
  <2> QED  BY <2>1, <2>2 DEF TaskInv
<1>8. PullInv'
  <2>1. ASSUME NEW n \in Mounts
        PROVE  /\ pull'[n].phase \in {"answered", "clear", "empty", "put"}
                     => pull'[n].of \in Warehouses
               /\ pull'[n].phase = "put" => warehouse'[n] = pull'[n].of
    <3>1. CASE n = 0
      BY <1>4, <3>1 DEF NoPull
    <3>2. CASE n = m
      BY <1>2, <1>3, <1>4, <1>5, <3>2 DEF CacheInv, PullInv
    <3>3. CASE n \notin {0, m}
      BY <1>4, <1>5, <3>3 DEF CacheInv, PullInv
    <3> QED  BY <3>1, <3>2, <3>3
  <2> QED  BY <2>1 DEF PullInv
<1>9. late' \subseteq Left /\ crossed' \subseteq {"store", "memory"}
      /\ ("store" \in crossed => "store" \in crossed')
  BY <1>1, <1>2 DEF CacheInv, TypeOK, StockTypeOK
<1>10. Astray' => "store" \in crossed'
  <2>1. Probing => Owed # NoPull
    BY DEF Owed, Owing, NoPull
  <2>2. ASSUME NEW n \in Left, pull'[n].phase # "idle" PROVE "store" \in crossed'
    <3>1. CASE n = m
      <4>1. Owed # NoPull
        BY <1>4, <2>2, <3>1 DEF NoPull
      <4> QED  BY <1>1, <4>1
    <3>2. CASE n # m
      <4>1. pull'[n] = pull[n]
        BY <1>4, <3>2 DEF Left
      <4> QED  BY <1>9, <2>2, <4>1 DEF CacheInv, CrossInv, Astray, Pulling
    <3> QED  BY <3>1, <3>2
  <2>3. late' # {} => "store" \in crossed'
    BY <1>1, <1>9, <2>1 DEF CacheInv, CrossInv, Astray
  <2> QED  BY <2>2, <2>3 DEF Astray, Pulling, Left, Mounts
<1> QED  BY <1>1, <1>4, <1>5, <1>7, <1>8, <1>9, <1>10, FreshKeeps

-----------------------------------------------------------------------------
(* Messages.                                                               *)

\* Steps of a message: only the rows, the figures and the messages move.
LEMMA MessageKeeps ==
    ASSUME CacheInv, Still, TaskInv', Rows' \subseteq Rows,
           UNCHANGED <<ledger, home, moves, warehouse, pull, late, crossed>>,
           warehouse[0] = NoRow => Bare',
           crossed = {} =>
              /\ \A v \in Variants : held'[v] # Unheld => held'[v].of = warehouse[0]
              /\ \A s \in Slots : task'[s].at = "set" => task'[s].of = warehouse[0],
           news' \in [Warehouses -> [Variants -> Nat]],
           store' \in [Warehouses -> Figures],
           held' \in [Variants -> [of : Warehouses \cup {NoRow}, n : Row]],
           task' \in [Slots -> Tasks]
    PROVE  CacheInv'
<1>1. StockTypeOK'
  BY DEF CacheInv, TypeOK, StockTypeOK
<1>2. TypeOK'
  BY <1>1 DEF CacheInv, TypeOK, Still, hookVars, monitorVars, Pulling
<1>3. PullInv' /\ OpenInv'
  BY DEF CacheInv, PullInv, OpenInv, Still, hookVars
<1>4. CrossInv' /\ OneWarehouse'
  BY DEF CacheInv, CrossInv, OneWarehouse, Astray, Pulling
<1> QED  BY <1>2, <1>3, <1>4 DEF CacheInv

\* A message is taken up for the warehouse believed to be home, or dropped.
LEMMA HearKeeps ==
    ASSUME CacheInv, Still, NEW s \in Slots, NEW w \in Warehouses, NEW v \in Variants,
           Hear(s, w, v)
    PROVE  CacheInv'
<1> DEFINE new == [at |-> "get", v |-> v, of |-> w, base |-> NoRow, left |-> FALSE]
<1>1. /\ UNCHANGED <<ledger, home, moves, store, held, warehouse, pull, late, crossed>>
      /\ news' = [news EXCEPT ![w][v] = @ - 1] /\ news[w][v] > 0
      /\ task' = task \/ (task' = [task EXCEPT ![s] = new] /\ warehouse[0] = w)
  BY DEF Hear, cacheVars
<1>2. Rows' = Rows
  BY <1>1 DEF Rows
<1>3. news' \in [Warehouses -> [Variants -> Nat]]
  BY <1>1 DEF CacheInv, TypeOK, StockTypeOK
<1>4. new \in Tasks
  BY DEF Tasks, Row
<1>5. /\ task' \in [Slots -> Tasks]
      /\ \A q \in Slots : task'[q] = task[q] \/ task'[q] = new
  BY <1>1, <1>4 DEF CacheInv, TypeOK, StockTypeOK
<1>6. TaskInv' /\ \A q \in Slots : task'[q].at = "set" => task'[q] = task[q]
  BY <1>5 DEF CacheInv, TaskInv
<1> HIDE DEF new
<1>7. warehouse[0] = NoRow => Bare'
  BY <1>1, StockAssumption DEF CacheInv, OpenInv, Bare
<1>8. crossed = {} =>
         /\ \A u \in Variants : held'[u] # Unheld => held'[u].of = warehouse[0]
         /\ \A q \in Slots : task'[q].at = "set" => task'[q].of = warehouse[0]
  BY <1>1, <1>6 DEF CacheInv, OneWarehouse, CrossInv
<1> QED
  BY <1>1, <1>2, <1>3, <1>5, <1>6, <1>7, <1>8, MessageKeeps DEF CacheInv, TypeOK, StockTypeOK

\* A row that is read in hand is one of the store's, and so, unless a pull has
\* strayed, of the till's warehouse.
LEMMA ReadKeeps ==
    ASSUME CacheInv, Still, NEW s \in Slots, Get(s) \/ Reread(s)
    PROVE  CacheInv'
<1> DEFINE row == store[task[s].of][task[s].v]
<1>1. PICK at, next :
         /\ <<at, next>> \in {<<"get", "update">>, <<"reread", "set">>}
         /\ Read(s, at, next)
  BY DEF Get, Reread
<1>2. /\ UNCHANGED <<ledger, home, moves, news, store, held, warehouse, pull, late, crossed>>
      /\ task[s].at = at
      /\ task' = [task EXCEPT ![s] = IF row = NoRow THEN Idle
                                     ELSE [@ EXCEPT !.at = next, !.base = row]]
  BY <1>1 DEF Read, RowOf, worldVars, cacheVars
<1>3. /\ task[s] \in Tasks /\ row \in Row
      /\ task[s].v \in Variants /\ task[s].of \in Warehouses
  BY <1>1, <1>2 DEF CacheInv, TaskInv, TypeOK, StockTypeOK, Figures
<1>4. row # NoRow => row \in Int /\ <<task[s].of, task[s].v>> \in Rows
  BY <1>3 DEF Row, Rows
<1> DEFINE new == [task[s] EXCEPT !.at = next, !.base = row]
<1>5. /\ new \in Tasks /\ new.at = next /\ new.v = task[s].v /\ new.of = task[s].of
      /\ new.base = row /\ new.left = task[s].left
  BY <1>1, <1>3 DEF Tasks
<1>6. Idle \in Tasks
  BY DEF Idle, Tasks, Row
<1> HIDE DEF row, new
<1>7. task' = [task EXCEPT ![s] = IF row = NoRow THEN Idle ELSE new]
  BY <1>2 DEF new
<1>8. /\ task' \in [Slots -> Tasks]
      /\ \A q \in Slots \ {s} : task'[q] = task[q]
      /\ task'[s] = IF row = NoRow THEN Idle ELSE new
  BY <1>5, <1>6, <1>7 DEF CacheInv, TypeOK, StockTypeOK
<1>9. TaskInv'
  <2>1. ASSUME NEW q \in Slots
        PROVE  /\ task'[q].at # "idle" => task'[q].v \in Variants /\ task'[q].of \in Warehouses
               /\ task'[q].at = "update" => task'[q].base \in Int
               /\ task'[q].left => task'[q].at \in {"get", "update"}
    <3>1. CASE q # s
      BY <1>8, <3>1 DEF CacheInv, TaskInv
    <3>2. CASE q = s /\ row = NoRow
      BY <1>8, <3>2 DEF Idle
    <3>3. CASE q = s /\ row # NoRow
      <4>1. task[s].left => at = "get"
        BY <1>1, <1>2 DEF CacheInv, TaskInv
      <4> QED  BY <1>1, <1>3, <1>4, <1>5, <1>8, <3>3, <4>1
    <3> QED  BY <3>1, <3>2, <3>3
  <2> QED  BY <2>1 DEF TaskInv
<1>10. warehouse[0] = NoRow => Bare'
  <2> SUFFICES ASSUME warehouse[0] = NoRow PROVE Bare'
    OBVIOUS
  <2>1. Bare
    BY DEF CacheInv, OpenInv
  <2>2. task[s].left
    BY <1>1, <1>2, <2>1 DEF Bare
  <2> QED  BY <1>2, <1>5, <1>8, <2>1, <2>2 DEF Bare, Idle
<1>11. crossed = {} => \A q \in Slots : task'[q].at = "set" => task'[q].of = warehouse[0]
  <2> SUFFICES ASSUME crossed = {}, NEW q \in Slots, task'[q].at = "set"
               PROVE  task'[q].of = warehouse[0]
    OBVIOUS
  <2>1. CASE q # s
    BY <1>8, <2>1 DEF CacheInv, CrossInv
  <2>2. CASE q = s
    <3>1. row # NoRow /\ task'[s] = new /\ at = "reread"
      BY <1>1, <1>5, <1>8, <2>2 DEF Idle
    <3>2. ~task[s].left /\ task[s].at # "idle"
      BY <1>2, <3>1 DEF CacheInv, TaskInv
    <3>3. warehouse[0] # NoRow
      BY <3>2 DEF CacheInv, OpenInv, Bare
    <3>4. task[s].of = warehouse[0]
      BY <1>4, <3>1, <3>3 DEF CacheInv, OneWarehouse
    <3> QED  BY <1>5, <2>2, <3>1, <3>4
  <2> QED  BY <2>1, <2>2
<1>12. Rows' = Rows
  BY <1>2 DEF Rows
<1> QED
  BY <1>2, <1>8, <1>9, <1>10, <1>11, <1>12, MessageKeeps
     DEF CacheInv, TypeOK, StockTypeOK, OneWarehouse

\* UPDATE of a row that a pull has cleared away writes nothing.
LEMMA UpdateKeeps ==
    ASSUME CacheInv, Still, NEW s \in Slots, Update(s)
    PROVE  CacheInv'
<1> DEFINE w == task[s].of
           v == task[s].v
           n == task[s].base - 1
           new == [task[s] EXCEPT !.at = "reread", !.base = NoRow]
<1>1. /\ UNCHANGED <<ledger, home, moves, news, held, warehouse, pull, late, crossed>>
      /\ task[s].at = "update" /\ UpdateRow(w, v, n)
      /\ task' = [task EXCEPT ![s] = IF task[s].left THEN Idle ELSE new]
  BY DEF Update, worldVars
<1>2. v \in Variants /\ w \in Warehouses /\ n \in Int /\ task[s] \in Tasks
  BY <1>1 DEF CacheInv, TaskInv, TypeOK, StockTypeOK
<1>3. /\ new \in Tasks /\ new.at = "reread" /\ new.v = v /\ new.of = w
      /\ new.left = task[s].left /\ Idle \in Tasks
  BY <1>2 DEF Tasks, Row, Idle
<1> HIDE DEF w, v, n, new
<1>4. Rows' \subseteq Rows
  BY <1>1, <1>2, UpdateRows DEF CacheInv, TypeOK
<1>5. store' \in [Warehouses -> Figures]
  BY <1>1, <1>2 DEF UpdateRow, Put, CacheInv, TypeOK, StockTypeOK, Figures, Row
<1>6. /\ task' \in [Slots -> Tasks]
      /\ \A q \in Slots \ {s} : task'[q] = task[q]
      /\ task'[s] = IF task[s].left THEN Idle ELSE new
  BY <1>1, <1>3 DEF CacheInv, TypeOK, StockTypeOK
<1>7. TaskInv'
  BY <1>2, <1>3, <1>6 DEF CacheInv, TaskInv, Idle
<1>8. warehouse[0] = NoRow => Bare'
  BY <1>1, <1>6 DEF CacheInv, OpenInv, Bare, Idle
<1>9. crossed = {} => \A q \in Slots : task'[q].at = "set" => task'[q].of = warehouse[0]
  BY <1>3, <1>6 DEF CacheInv, CrossInv, Idle
<1> QED
  BY <1>1, <1>4, <1>5, <1>6, <1>7, <1>8, <1>9, MessageKeeps
     DEF CacheInv, TypeOK, StockTypeOK, OneWarehouse

\* A row in hand that no pull has overtaken is of the till's warehouse.
LEMMA SetKeeps ==
    ASSUME CacheInv, Still, NEW s \in Slots, Set(s)
    PROVE  CacheInv'
<1> DEFINE w == task[s].of
           v == task[s].v
           n == task[s].base
<1>1. /\ UNCHANGED <<ledger, home, moves, news, store, warehouse, pull, late, crossed>>
      /\ task[s].at = "set" /\ task' = [task EXCEPT ![s] = Idle]
      /\ held' = [held EXCEPT ![v] = [of |-> w, n |-> n]]
  BY DEF Set, worldVars
<1>2. v \in Variants /\ w \in Warehouses /\ n \in Row
  BY <1>1 DEF CacheInv, TaskInv, TypeOK, StockTypeOK, Tasks
<1>3. crossed = {} => w = warehouse[0]
  BY <1>1 DEF CacheInv, CrossInv
<1>4. warehouse[0] # NoRow
  BY <1>1 DEF CacheInv, OpenInv, Bare, TaskInv
<1> HIDE DEF w, v, n
<1>5. held' \in [Variants -> [of : Warehouses \cup {NoRow}, n : Row]]
  BY <1>1, <1>2 DEF CacheInv, TypeOK, StockTypeOK
<1>6. /\ task' \in [Slots -> Tasks]
      /\ \A q \in Slots : task'[q] = task[q] \/ task'[q] = Idle
  BY <1>1 DEF CacheInv, TypeOK, StockTypeOK, Idle, Tasks, Row
<1>7. TaskInv'
  BY <1>6 DEF CacheInv, TaskInv, Idle
<1>8. crossed = {} =>
         /\ \A u \in Variants : held'[u] # Unheld => held'[u].of = warehouse[0]
         /\ \A q \in Slots : task'[q].at = "set" => task'[q].of = warehouse[0]
  <2>1. \A q \in Slots : task'[q].at = "set" => task'[q] = task[q]
    BY <1>6 DEF Idle
  <2>2. \A u \in Variants : held'[u] = held[u] \/ held'[u] = [of |-> w, n |-> n]
    BY <1>1, <1>2 DEF CacheInv, TypeOK, StockTypeOK
  <2> QED  BY <1>3, <2>1, <2>2 DEF CacheInv, CrossInv, OneWarehouse
<1>9. Rows' = Rows
  BY <1>1 DEF Rows
<1> QED
  BY <1>1, <1>4, <1>5, <1>6, <1>7, <1>8, <1>9, MessageKeeps DEF CacheInv, TypeOK, StockTypeOK

-----------------------------------------------------------------------------
(* The refresh.                                                            *)

\* The catalogue's pull ends, and the stock's may begin.
LEMMA SyncKeeps ==
    ASSUME CacheInv, SyncCatalogue
    PROVE  CacheInv'
<1>0. 0 \in Mounts
  BY RestartAssumption DEF Mounts
<1>1. /\ UNCHANGED <<up, monitorVars, opened, closure, restarts, worldVars, cacheVars, task,
                     late, crossed>>
      /\ synced' \in BOOLEAN /\ refresh = "catalogue"
      /\ \/ refresh' = "stock" /\ closure = "everything"
            /\ pull' = [pull EXCEPT ![0].phase = "asked"]
         \/ refresh' = "idle" /\ pull' = pull
  BY DEF SyncCatalogue, Ask, stockVars, CacheInv, TypeOK
<1>2. /\ pull' \in [Mounts -> Pulls]
      /\ \A m \in Mounts \ {0} : pull'[m] = pull[m]
      /\ pull'[0] = pull[0] \/ pull'[0].phase = "asked"
      /\ pull'[0].phase # "idle" <=> refresh' = "stock"
  <2> DEFINE p == [pull[0] EXCEPT !.phase = "asked"]
  <2>1. pull \in [Mounts -> Pulls] /\ (pull[0].phase # "idle" => refresh = "stock")
    BY DEF CacheInv, TypeOK, StockTypeOK, Pulling
  <2>2. p \in Pulls /\ p.phase = "asked"
    BY <1>0, <2>1 DEF Pulls
  <2>3. (pull' = [pull EXCEPT ![0] = p] /\ refresh' = "stock") \/ (pull' = pull /\ refresh' = "idle")
    BY <1>1
  <2> HIDE DEF p
  <2> QED  BY <1>0, <1>1, <2>1, <2>2, <2>3
<1>3. StockTypeOK'
  BY <1>1, <1>2 DEF CacheInv, TypeOK, StockTypeOK, worldVars, cacheVars
<1>4. TypeOK'
  BY <1>1, <1>2, <1>3 DEF CacheInv, TypeOK, monitorVars, Pulling
<1>5. TaskInv' /\ PullInv'
  BY <1>1, <1>2 DEF CacheInv, TaskInv, PullInv, cacheVars
<1>6. Rows' = Rows
  BY <1>1 DEF Rows, cacheVars
<1>7. OneWarehouse'
  BY <1>1, <1>6 DEF CacheInv, OneWarehouse, cacheVars
<1>8. OpenInv'
  BY <1>1, <1>6 DEF CacheInv, OpenInv, Bare, cacheVars
<1>9. CrossInv'
  BY <1>1, <1>2, <1>6 DEF CacheInv, CrossInv, Astray, Pulling, Left, cacheVars
<1> QED  BY <1>4, <1>5, <1>7, <1>8, <1>9 DEF CacheInv

\* What a step of a pull does, whichever mount's.
PullAct(m) == Serve(m) \/ Arrive(m) \/ Fail(m) \/ Digest(m)

\* It moves its own mount's pull and warehouse, in type, and no message.
LEMMA PullTypes ==
    ASSUME CacheInv, NEW m \in Mounts, PullAct(m)
    PROVE  /\ StockTypeOK' /\ TaskInv' /\ PullInv'
           /\ UNCHANGED <<task, late>>
           /\ pull[m].phase # "idle"
           /\ pull'[m] = NoPull \/ pull'[m].phase # "idle"
           /\ \A n \in Mounts \ {m} : pull'[n] = pull[n] /\ warehouse'[n] = warehouse[n]
           /\ m # 0 => held' = held /\ crossed' = crossed
<1> USE DEF CacheInv, TypeOK
<1>0. NoPull \in Pulls
  BY DEF NoPull, Pulls, Nothing, Figures, Row
<1>1. TaskInv'
  BY DEF PullAct, Serve, Arrive, Fail, Digest, Clear, Empty, Land, PutLine, TaskInv
<1>2. UNCHANGED <<task, late, ledger, home, moves, news>>
  BY DEF PullAct, Serve, Arrive, Fail, Digest, Clear, Empty, Land, PutLine, worldVars
<1>3. m # 0 => held' = held /\ crossed' = crossed
  BY DEF PullAct, Serve, Arrive, Fail, Digest, Clear, Empty, Land, PutLine, TakeUp, cacheVars
<1>4. crossed' \subseteq {"store", "memory"}
  BY DEF PullAct, Serve, Arrive, Fail, Digest, Clear, Empty, Land, PutLine, StockTypeOK
<1>5. store' \in [Warehouses -> Figures]
  <2>1. ASSUME NEW v \in Variants, PutLine(m, v) PROVE store' \in [Warehouses -> Figures]
    <3>1. pull[m].of \in Warehouses /\ pull[m].lines \in Figures
      BY <2>1 DEF PutLine, PullInv, StockTypeOK, Pulls
    <3> QED  BY <2>1, <3>1 DEF PutLine, Put, StockTypeOK, Figures
  <2>2. CASE Clear(m)
    BY <2>2 DEF Clear, Nothing, Figures, Row
  <2>3. ASSUME Serve(m) \/ Arrive(m) \/ Fail(m) \/ Empty(m) \/ Land(m)
        PROVE  store' \in [Warehouses -> Figures]
    BY <2>3 DEF Serve, Arrive, Fail, Empty, Land, cacheVars, StockTypeOK
  <2> QED  BY <2>1, <2>2, <2>3 DEF PullAct, Digest
<1>6. held' \in [Variants -> [of : Warehouses \cup {NoRow}, n : Row]]
  <2>1. CASE Land(m)
    <3>1. pull[m].of \in Warehouses /\ pull[m].lines \in Figures
      BY <2>1 DEF Land, PullInv, StockTypeOK, Pulls
    <3> QED  BY <2>1, <3>1 DEF Land, TakeUp, StockTypeOK, Figures
  <2>2. CASE Empty(m)
    BY <2>2 DEF Empty, TakeUp, StockTypeOK, Unheld, Row
  <2>3. ASSUME Serve(m) \/ Arrive(m) \/ Fail(m) \/ Clear(m) \/ \E v \in Variants : PutLine(m, v)
        PROVE  held' = held
    BY <2>3 DEF Serve, Arrive, Fail, Clear, PutLine, cacheVars
  <2> QED  BY <2>1, <2>2, <2>3 DEF PullAct, Digest, StockTypeOK
\* The phases, each with what it makes of the pull and of the mount's warehouse.
<1>7. /\ pull[m].phase # "idle"
      /\ \/ pull' = [pull EXCEPT ![m] = NoPull] /\ warehouse' = warehouse
         \/ /\ StartPut(m) /\ pull[m].of \in Warehouses
         \/ /\ warehouse' = warehouse
            /\ \E p \in Pulls :
                  /\ pull' = [pull EXCEPT ![m] = p]
                  /\ p.phase # "idle"
                  /\ p.phase \in {"answered", "clear", "empty", "put"} => p.of \in Warehouses
                  /\ p.phase = "put" => pull[m].phase = "put" /\ p.of = pull[m].of
  <2>1. CASE Serve(m)
    <3> DEFINE p == [pull[m] EXCEPT !.phase = "answered", !.of = home, !.lines = ledger[home]]
    <3>1. ledger[home] \in Figures
      BY DEF StockTypeOK, Figures, Row
    <3>2. p \in Pulls /\ p.phase = "answered" /\ p.of \in Warehouses
      BY <3>1 DEF StockTypeOK, Pulls
    <3>3. pull' = [pull EXCEPT ![m] = p]
      BY <2>1 DEF Serve
    <3>4. warehouse' = warehouse /\ pull[m].phase # "idle"
      BY <2>1 DEF Serve, cacheVars
    <3> QED  BY <3>2, <3>3, <3>4
  <2>2. CASE Fail(m)
    BY <2>2 DEF Fail, cacheVars
  <2>3. CASE Arrive(m)
    <3>1. pull[m].phase = "answered" /\ pull[m].of \in Warehouses
      BY <2>3 DEF Arrive, PullInv
    <3>2. CASE StartPut(m)
      BY <3>1, <3>2
    <3>3. CASE /\ pull' = [pull EXCEPT ![m].phase = "clear"]
               /\ warehouse' = warehouse
      <4> DEFINE p == [pull[m] EXCEPT !.phase = "clear"]
      <4>1. p \in Pulls /\ p.phase = "clear" /\ p.of = pull[m].of
        BY DEF StockTypeOK, Pulls
      <4>2. pull' = [pull EXCEPT ![m] = p]
        BY <3>3
      <4> QED  BY <3>1, <3>3, <4>1, <4>2
    <3> QED  BY <2>3, <3>2, <3>3 DEF Arrive
  <2>4. CASE Clear(m)
    <3> DEFINE p == [pull[m] EXCEPT !.phase = "empty"]
    <3>1. p \in Pulls /\ p.phase = "empty" /\ p.of = pull[m].of
      BY DEF StockTypeOK, Pulls
    <3>2. pull' = [pull EXCEPT ![m] = p] /\ warehouse' = warehouse
      BY <2>4 DEF Clear
    <3>3. pull[m].phase = "clear" /\ pull[m].of \in Warehouses
      BY <2>4 DEF Clear, PullInv
    <3> QED  BY <3>1, <3>2, <3>3
  <2>5. CASE Empty(m)
    <3>1. pull[m].phase = "empty" /\ pull[m].of \in Warehouses
      BY <2>5 DEF Empty, PullInv
    <3> QED  BY <2>5, <3>1 DEF Empty
  <2>6. CASE Land(m)
    BY <2>6 DEF Land
  <2>7. ASSUME NEW v \in Variants, PutLine(m, v)
        PROVE  /\ pull[m].phase = "put" /\ warehouse' = warehouse
               /\ \E p \in Pulls : /\ pull' = [pull EXCEPT ![m] = p]
                                   /\ p.phase = "put" /\ p.of = pull[m].of
                                   /\ p.of \in Warehouses
    <3> DEFINE p == [pull[m] EXCEPT !.todo = @ \ {v}]
    <3>1. pull[m].phase = "put" /\ pull[m].of \in Warehouses /\ warehouse' = warehouse
      BY <2>7 DEF PutLine, PullInv
    <3>2. p \in Pulls /\ p.phase = "put" /\ p.of = pull[m].of
      BY <3>1 DEF StockTypeOK, Pulls
    <3>3. pull' = [pull EXCEPT ![m] = p]
      BY <2>7 DEF PutLine
    <3> QED  BY <3>1, <3>2, <3>3
  <2> QED  BY <2>1, <2>2, <2>3, <2>4, <2>5, <2>6, <2>7 DEF PullAct, Digest
<1>8. /\ pull' \in [Mounts -> Pulls] /\ warehouse' \in [Mounts -> Warehouses \cup {NoRow}]
      /\ PullInv'
      /\ pull'[m] = NoPull \/ pull'[m].phase # "idle"
      /\ \A n \in Mounts \ {m} : pull'[n] = pull[n] /\ warehouse'[n] = warehouse[n]
  <2>1. CASE pull' = [pull EXCEPT ![m] = NoPull] /\ warehouse' = warehouse
    BY <1>0, <2>1 DEF StockTypeOK, PullInv, NoPull
  <2>2. CASE StartPut(m) /\ pull[m].of \in Warehouses
    <3> DEFINE p == [pull[m] EXCEPT !.phase = "put", !.todo = Variants]
    <3>1. p \in Pulls /\ p.phase = "put" /\ p.of = pull[m].of
      BY DEF StockTypeOK, Pulls
    <3>2. pull' = [pull EXCEPT ![m] = p] /\ warehouse' = [warehouse EXCEPT ![m] = pull[m].of]
      BY <2>2 DEF StartPut
    <3> HIDE DEF p
    <3> QED  BY <2>2, <3>1, <3>2 DEF StockTypeOK, PullInv
  <2>3. ASSUME NEW p \in Pulls, pull' = [pull EXCEPT ![m] = p], warehouse' = warehouse,
               p.phase # "idle",
               p.phase \in {"answered", "clear", "empty", "put"} => p.of \in Warehouses,
               p.phase = "put" => pull[m].phase = "put" /\ p.of = pull[m].of
        PROVE  /\ pull' \in [Mounts -> Pulls]
               /\ warehouse' \in [Mounts -> Warehouses \cup {NoRow}]
               /\ PullInv' /\ pull'[m].phase # "idle"
               /\ \A n \in Mounts \ {m} : pull'[n] = pull[n] /\ warehouse'[n] = warehouse[n]
    BY <2>3 DEF StockTypeOK, PullInv
  <2> QED  BY <1>7, <2>1, <2>2, <2>3
<1>9. StockTypeOK'
  BY <1>2, <1>4, <1>5, <1>6, <1>8 DEF StockTypeOK
<1> QED  BY <1>1, <1>2, <1>3, <1>7, <1>8, <1>9

\* A step of the pull of the mount that is shown keeps the cache on one
\* warehouse, or has crossed.
LEMMA ShownPullKeeps ==
    ASSUME CacheInv, opened = "everything", PullAct(0)
    PROVE  /\ OneWarehouse' /\ CrossInv'
           /\ warehouse'[0] = NoRow => Bare' /\ ("store" \notin crossed' => Rows' = {})
<1>0. 0 \in Mounts
  BY RestartAssumption DEF Mounts
<1>1. /\ TaskInv' /\ UNCHANGED <<task, late>>
      /\ \A n \in Mounts \ {0} : pull'[n] = pull[n] /\ warehouse'[n] = warehouse[n]
      /\ pull \in [Mounts -> Pulls] /\ warehouse \in [Mounts -> Warehouses \cup {NoRow}]
  BY <1>0, PullTypes DEF CacheInv, TypeOK, StockTypeOK
<1>2. Astray' <=> Astray
  BY <1>1 DEF Astray, Pulling, Left
<1> USE DEF CacheInv, TypeOK
<1>3. CASE Serve(0) \/ Fail(0)
  <2>1. UNCHANGED <<store, held, warehouse, crossed>> /\ pull'[0].phase \in {"answered", "idle"}
    <3> DEFINE p == [pull[0] EXCEPT !.phase = "answered", !.of = home, !.lines = ledger[home]]
    <3>1. UNCHANGED <<store, held, warehouse, crossed>>
      BY <1>3 DEF Serve, Fail, cacheVars
    <3>2. p.phase = "answered" /\ NoPull.phase = "idle"
      BY <1>0, <1>1 DEF Pulls, NoPull
    <3>3. pull' = [pull EXCEPT ![0] = p] \/ pull' = [pull EXCEPT ![0] = NoPull]
      BY <1>3 DEF Serve, Fail
    <3> HIDE DEF p
    <3> QED  BY <1>0, <1>1, <3>1, <3>2, <3>3
  <2>2. Rows' = Rows
    BY <2>1 DEF Rows
  <2> QED  BY <1>1, <1>2, <2>1, <2>2 DEF OneWarehouse, CrossInv, OpenInv, Bare
<1>4. CASE Arrive(0)
  <2>1. UNCHANGED <<store, held, crossed>> /\ pull'[0].phase \in {"clear", "put"}
    <3> DEFINE p == [pull[0] EXCEPT !.phase = "clear"]
               q == [pull[0] EXCEPT !.phase = "put", !.todo = Variants]
    <3>1. p.phase = "clear" /\ q.phase = "put"
      BY <1>0, <1>1 DEF Pulls
    <3>2. pull' = [pull EXCEPT ![0] = p] \/ pull' = [pull EXCEPT ![0] = q]
      BY <1>4 DEF Arrive, StartPut
    <3> HIDE DEF p, q
    <3> QED  BY <1>0, <1>1, <1>4, <3>1, <3>2 DEF Arrive
  <2>2. Rows' = Rows
    BY <2>1 DEF Rows
  <2>3. CASE warehouse'[0] = warehouse[0]
    BY <1>1, <1>2, <2>1, <2>2, <2>3 DEF OneWarehouse, CrossInv, OpenInv, Bare
  <2>4. CASE warehouse[0] = NoRow /\ warehouse'[0] \in Warehouses
    <3>1. Bare /\ ("store" \notin crossed => Rows = {})
      BY <2>4 DEF OpenInv
    <3>2. \A s \in Slots : task[s].at # "set"
      BY <3>1 DEF Bare, TaskInv
    <3> QED  BY <1>1, <1>2, <2>1, <2>2, <2>4, <3>1, <3>2, StockAssumption
                DEF OneWarehouse, CrossInv, Bare
  <2>5. warehouse'[0] = warehouse[0] \/ (warehouse[0] = NoRow /\ warehouse'[0] \in Warehouses)
    BY <1>0, <1>1, <1>4 DEF Arrive, StartPut, Moved, PullInv
  <2> QED  BY <2>3, <2>4, <2>5
<1>5. CASE Clear(0)
  <2>1. /\ UNCHANGED <<held, warehouse>> /\ pull'[0].phase = "empty"
        /\ crossed' = IF ~Astray /\ crossed # {} THEN {"memory"} ELSE crossed
    BY <1>0, <1>1, <1>5 DEF Clear
  <2>2. Rows' = {}
    BY <1>5 DEF Clear, Rows, Nothing
  <2>3. crossed' = {} <=> crossed = {}
    BY <2>1
  <2> QED  BY <1>1, <1>2, <2>1, <2>2, <2>3 DEF OneWarehouse, CrossInv, OpenInv, Bare
<1>6. CASE Empty(0)
  <2>1. /\ store' = store /\ held' = [v \in Variants |-> Unheld]
        /\ pull[0].phase = "empty" /\ pull'[0].phase = "put"
        /\ warehouse'[0] = pull[0].of /\ pull[0].of \in Warehouses
        /\ crossed' = IF Overtaken THEN crossed \cup {"memory"} ELSE crossed \ {"memory"}
    BY <1>0, <1>1, <1>6 DEF Empty, TakeUp, StartPut, PullInv
  <2>2. Rows' = Rows /\ ("store" \in crossed' <=> "store" \in crossed)
    BY <2>1 DEF Rows
  <2>3. "store" \notin crossed' => Rows' = {}
    BY <2>1, <2>2 DEF CrossInv
  <2>4. crossed' = {} => \A s \in Slots : task[s].at # "set"
    BY <2>1 DEF Overtaken
  <2> QED  BY <1>1, <1>2, <2>1, <2>2, <2>3, <2>4, StockAssumption DEF OneWarehouse, CrossInv
<1>7. CASE Land(0)
  <2>1. /\ UNCHANGED <<store, warehouse>>
        /\ held' = [v \in Variants |-> [of |-> pull[0].of, n |-> pull[0].lines[v]]]
        /\ pull'[0].phase = "idle"
        /\ warehouse[0] = pull[0].of /\ pull[0].of \in Warehouses
        /\ crossed' = IF Overtaken THEN crossed ELSE crossed \ {"memory"}
    BY <1>0, <1>1, <1>7 DEF Land, TakeUp, PullInv, NoPull
  <2>2. Rows' = Rows /\ ("store" \in crossed' <=> "store" \in crossed)
    BY <2>1 DEF Rows
  <2>3. crossed' = {} => crossed = {} \/ \A s \in Slots : task[s].at # "set"
    BY <2>1 DEF Overtaken
  <2> QED  BY <1>1, <1>2, <2>1, <2>2, <2>3, StockAssumption DEF OneWarehouse, CrossInv
<1>8. ASSUME NEW v \in Variants, PutLine(0, v)
      PROVE  OneWarehouse' /\ CrossInv' /\ warehouse'[0] # NoRow
  <2>1. /\ UNCHANGED <<held, warehouse, crossed>>
        /\ pull'[0].phase = "put" /\ Put(pull[0].of, v, pull[0].lines[v])
        /\ warehouse[0] = pull[0].of /\ pull[0].of \in Warehouses
    BY <1>0, <1>1, <1>8 DEF PutLine, PullInv
  <2>2. Rows' \subseteq Rows \cup {<<pull[0].of, v>>}
    BY <2>1, PutRows
  <2>3. "store" \notin crossed => \A r \in Rows' : r[1] = warehouse[0]
    BY <2>1, <2>2, StockAssumption DEF OneWarehouse
  <2> QED  BY <1>1, <1>2, <2>1, <2>3, StockAssumption DEF OneWarehouse, CrossInv
<1> QED  BY <1>3, <1>4, <1>5, <1>6, <1>7, <1>8 DEF PullAct, Digest

\* A stock pull of the mount that is shown, line by line too.
LEMMA PullKeeps ==
    ASSUME CacheInv, PullStock
    PROVE  CacheInv'
<1>0. 0 \in Mounts
  BY RestartAssumption DEF Mounts
<1>1. /\ PullAct(0)
      /\ UNCHANGED <<up, monitorVars, opened, closure, restarts, synced>>
      /\ refresh' = IF pull'[0] = NoPull THEN "idle" ELSE "stock"
  BY DEF PullStock, PullStep, PullAct
<1>2. /\ StockTypeOK' /\ TaskInv' /\ PullInv' /\ pull[0].phase # "idle"
      /\ pull'[0] = NoPull \/ pull'[0].phase # "idle"
  BY <1>0, <1>1, PullTypes
<1>3. opened = "everything" /\ closure # "nothing"
  <2>1. pull[0] # NoPull /\ refresh = "stock"
    BY <1>2 DEF CacheInv, TypeOK, Pulling, NoPull
  <2> QED  BY <2>1 DEF CacheInv, OpenInv
<1>4. /\ OneWarehouse' /\ CrossInv'
      /\ warehouse'[0] = NoRow => Bare' /\ ("store" \notin crossed' => Rows' = {})
  BY <1>1, <1>3, ShownPullKeeps
<1>5. TypeOK'
  BY <1>1, <1>2 DEF CacheInv, TypeOK, Pulling, NoPull, monitorVars
<1>6. OpenInv'
  BY <1>1, <1>3, <1>4 DEF CacheInv, OpenInv
<1> QED  BY <1>2, <1>4, <1>5, <1>6 DEF CacheInv

\* What a left mount pulls, or may yet pull, has crossed: it writes the store,
\* and nothing else of the mount that is shown.
LEMMA LeftKeeps ==
    ASSUME CacheInv, NEW m \in Left, PullLeft(m) \/ ProbeLeft(m)
    PROVE  CacheInv'
<1>0. 0 \in Mounts /\ m \in Mounts /\ m # 0
  BY RestartAssumption DEF Mounts, Left
<1>1. UNCHANGED <<up, monitorVars, hookVars, held, task, crossed>>
      /\ pull'[0] = pull[0] /\ warehouse'[0] = warehouse[0] /\ late' \subseteq late
  <2>1. CASE PullLeft(m)
    <3>1. PullAct(m)
      BY <2>1 DEF PullLeft, PullStep, PullAct
    <3> QED  BY <1>0, <2>1, <3>1, PullTypes DEF PullLeft
  <2>2. CASE ProbeLeft(m)
    <3>1. pull'[0] = pull[0]
      BY <1>0, <2>2 DEF ProbeLeft, CacheInv, TypeOK, StockTypeOK
    <3> QED  BY <2>2, <3>1 DEF ProbeLeft, cacheVars
  <2> QED  BY <2>1, <2>2
<1>2. StockTypeOK' /\ TaskInv' /\ PullInv'
  <2>1. CASE PullLeft(m)
    <3>1. PullAct(m)
      BY <2>1 DEF PullLeft, PullStep, PullAct
    <3> QED  BY <1>0, <3>1, PullTypes
  <2>2. CASE ProbeLeft(m)
    <3>1. /\ UNCHANGED <<ledger, home, moves, news, store, held, warehouse, task, crossed>>
          /\ late' = late \ {m}
          /\ pull' = pull \/ pull' = [pull EXCEPT ![m].phase = "asked"]
      BY <2>2 DEF ProbeLeft, worldVars, cacheVars
    <3>2. /\ pull' \in [Mounts -> Pulls]
          /\ \A n \in Mounts : pull'[n] = pull[n] \/ pull'[n].phase = "asked"
      <4> DEFINE p == [pull[m] EXCEPT !.phase = "asked"]
      <4>1. pull \in [Mounts -> Pulls]
        BY DEF CacheInv, TypeOK, StockTypeOK
      <4>2. p \in Pulls /\ p.phase = "asked"
        BY <1>0, <4>1 DEF Pulls
      <4>3. pull' = [pull EXCEPT ![m] = p] \/ pull' = pull
        BY <3>1
      <4> HIDE DEF p
      <4> QED  BY <1>0, <4>1, <4>2, <4>3
    <3> QED  BY <3>1, <3>2 DEF CacheInv, TypeOK, StockTypeOK, TaskInv, PullInv
  <2> QED  BY <2>1, <2>2
<1>3. "store" \in crossed
  <2>1. CASE PullLeft(m)
    <3>1. PullAct(m)
      BY <2>1 DEF PullLeft, PullStep, PullAct
    <3>2. pull[m].phase # "idle"
      BY <1>0, <3>1, PullTypes
    <3> QED  BY <3>2 DEF CacheInv, CrossInv, Astray, Pulling
  <2>2. CASE ProbeLeft(m)
    BY <2>2 DEF ProbeLeft, CacheInv, CrossInv, Astray
  <2> QED  BY <2>1, <2>2
<1>4. TypeOK'
  BY <1>1, <1>2 DEF CacheInv, TypeOK, Pulling, hookVars, monitorVars
<1>5. OpenInv' /\ CrossInv' /\ OneWarehouse'
  BY <1>1, <1>3 DEF CacheInv, OpenInv, Bare, CrossInv, OneWarehouse, hookVars
<1> QED  BY <1>2, <1>4, <1>5 DEF CacheInv

-----------------------------------------------------------------------------

\* The caches' invariant, whatever pulls, messages, moves, restarts and
\* changes of screen cross.
THEOREM CachesCorrect == Spec => []CacheInv
<1>1. Init => CacheInv
  BY InitCaches
<1>2. CacheInv /\ [Next]_vars => CacheInv'
  <2> SUFFICES ASSUME CacheInv, [Next]_vars PROVE CacheInv'
    OBVIOUS
  <2>1. CASE Stock
    <3>1. ASSUME NEW s \in Slots, Apply(s), Still PROVE CacheInv'
      BY <3>1, ReadKeeps, UpdateKeeps, SetKeeps DEF Apply
    <3>2. ASSUME NEW w \in Warehouses, NEW v \in Variants, NEW s \in Slots, Hear(s, w, v),
                 Still
          PROVE  CacheInv'
      BY <3>2, HearKeeps
    <3> QED  BY <2>1, <3>1, <3>2, ShopKeeps DEF Stock
  <2>2. CASE UNCHANGED vars
    <3>1. TypeOK'
      BY <2>2 DEF vars, stockVars, worldVars, cacheVars, monitorVars, hookVars, CacheInv,
                  TypeOK, StockTypeOK, Pulling
    <3> QED  BY <2>2, <3>1, AsideKeeps
                DEF vars, stockVars, hookVars, CacheInv, OpenInv
  <2> QED
    BY <2>1, <2>2, MonitorKeeps, HookKeeps, OpenKeeps, OpenStockKeeps, SyncKeeps,
       PullKeeps, RestartKeeps, RemountKeeps, LeftKeeps DEF Next
<1> QED  BY <1>1, <1>2, PTL DEF Spec

\* Types.
THEOREM CacheTypeCorrect == Spec => []TypeOK
<1>1. CacheInv => TypeOK
  BY DEF CacheInv
<1> QED  BY <1>1, CachesCorrect, PTL

\* The figures of a till are of one warehouse, the one it believes it sells
\* from, on disk and in memory, until a pull crosses a message or another
\* mount, and again from the next pull that crosses neither.
THEOREM OneWarehouseCorrect == Spec => []OneWarehouse
<1>1. CacheInv => OneWarehouse
  BY DEF CacheInv
<1> QED  BY <1>1, CachesCorrect, PTL
=============================================================================
