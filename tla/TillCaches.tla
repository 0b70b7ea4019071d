------------------------------ MODULE TillCaches ------------------------------
(***************************************************************************)
(* How a till keeps its caches current: the connectivity monitor           *)
(* (pos/src/offline/connectivity.ts) and the terminal hook that opens the  *)
(* store, renders, and refreshes the catalogue and then the stock figures  *)
(* (pos/src/offline/useTerminal.ts), over StockCache.                      *)
(***************************************************************************)
EXTENDS StockCache

VARIABLES
    up,         \* does the server answer this till?
    probe,      \* the monitor's probe: none, or under way
    due,        \* a probe is booked
    reachable,  \* what the monitor last found
    opened,     \* what of the local store the hook holds
    closure,    \* what the refresh callback in use was built over
    refresh,    \* the refresh under way
    restarts,   \* times the till was started, or its screen shown, again
    synced      \* the catalogue has been pulled by the mount shown

monitorVars == <<probe, due, reachable>>
hookVars    == <<opened, closure, refresh, restarts, synced>>
vars        == <<stockVars, up, monitorVars, hookVars>>

TypeOK ==
    /\ StockTypeOK
    /\ up \in BOOLEAN
    /\ probe \in {"none", "out"}
    /\ due \in BOOLEAN
    /\ reachable \in BOOLEAN
    /\ opened \in {"nothing", "catalogue", "everything"}
    /\ closure \in {"nothing", "catalogue", "everything"}
    /\ refresh \in {"idle", "catalogue", "stock"}
    /\ restarts \in 0..MaxRestarts
    /\ synced \in BOOLEAN
    /\ Pulling(0) <=> refresh = "stock"

Init ==
    /\ StockInit
    /\ up \in BOOLEAN
    /\ probe = "out"
    /\ due = FALSE
    /\ reachable = FALSE
    /\ opened = "nothing"
    /\ closure = "nothing"
    /\ refresh = "idle"
    /\ restarts = 0
    /\ synced = FALSE

-----------------------------------------------------------------------------
(* The monitor.                                                            *)

\* The timer, the network coming up, a request that failed: all look now.
Check ==
    /\ probe = "none"
    /\ probe' = "out"
    /\ due' = FALSE
    /\ UNCHANGED <<stockVars, up, reachable, hookVars>>

\* A slip: nothing is booked while the server is away.
BookOnline(ok) == due' = ok

Book(ok) == due' = TRUE

\* A refresh starts when none is under way and the callback has a catalogue.
Refresh ==
    IF refresh = "idle" /\ closure # "nothing" THEN refresh' = "catalogue"
                                               ELSE UNCHANGED refresh

\* The probe ends, at its timeout if need be.  Contact that is restored asks
\* for a refresh.
Settle ==
    /\ probe = "out"
    /\ probe' = "none"
    /\ reachable' = up
    /\ Book(up)
    /\ IF up /\ ~reachable THEN Refresh ELSE UNCHANGED refresh
    /\ UNCHANGED <<stockVars, up, opened, closure, restarts, synced>>

Flip ==
    /\ up' = ~up
    /\ UNCHANGED <<stockVars, monitorVars, hookVars>>

-----------------------------------------------------------------------------
(* The hook.                                                               *)

\* The store opens: the catalogue is set, then, after an await, the stock
\* figures are read from disk and set.
Open ==
    /\ opened = "nothing"
    /\ opened' = "catalogue"
    /\ UNCHANGED <<stockVars, up, monitorVars, closure, refresh, restarts, synced>>

OpenStock ==
    /\ opened = "catalogue"
    /\ opened' = "everything"
    /\ Hydrate
    /\ UNCHANGED <<up, monitorVars, closure, refresh, restarts, synced>>

\* The callback is built again when the catalogue changes, and only then: its
\* dependencies do not name the stock cache.
Stale == opened # "nothing" /\ closure = "nothing"

\* React renders when it comes to it.
Render ==
    /\ Stale
    /\ closure' = opened
    /\ refresh' = "catalogue"
    /\ UNCHANGED <<stockVars, up, monitorVars, opened, restarts, synced>>

\* The quarter of an hour is over.
Tick ==
    /\ refresh = "idle"
    /\ closure # "nothing"
    /\ Refresh
    /\ UNCHANGED <<stockVars, up, monitorVars, opened, closure, restarts, synced>>

\* A slip: a pull that throws leaves the refresh marked as under way.
SyncUnended ==
    /\ refresh = "catalogue"
    /\ IF up /\ closure = "everything"
         THEN refresh' = "stock" /\ Ask(0)
         ELSE refresh' = (IF up THEN "idle" ELSE "stock") /\ UNCHANGED stockVars
    /\ synced' = (synced \/ up)
    /\ UNCHANGED <<up, monitorVars, opened, closure, restarts>>

\* The catalogue's pull ends; one that failed ends the refresh.
SyncCatalogue ==
    /\ refresh = "catalogue"
    /\ IF up /\ closure = "everything"
         THEN refresh' = "stock" /\ Ask(0)
         ELSE refresh' = "idle" /\ UNCHANGED stockVars
    /\ synced' = (synced \/ up)
    /\ UNCHANGED <<up, monitorVars, opened, closure, restarts>>

\* A step of a mount's stock pull, for as long as there is one.
PullStep(m) ==
    \/ up /\ (Serve(m) \/ Arrive(m))
    \/ ~up /\ Fail(m)
    \/ Digest(m)

\* The refresh ends with its pull.
PullStock ==
    /\ PullStep(0)
    /\ refresh' = IF pull'[0] = NoPull THEN "idle" ELSE "stock"
    /\ UNCHANGED <<up, monitorVars, opened, closure, restarts, synced>>

-----------------------------------------------------------------------------
(* The hook comes and goes with the counter screen.                        *)

Fresh ==
    /\ restarts < MaxRestarts
    /\ restarts' = restarts + 1
    /\ held' = [v \in Variants |-> Unheld]
    /\ probe' = "out"
    /\ due' = FALSE
    /\ reachable' = FALSE
    /\ opened' = "nothing"
    /\ closure' = "nothing"
    /\ refresh' = "idle"
    /\ synced' = FALSE
    /\ UNCHANGED <<worldVars, store, up>>

\* The till is started again: the store is all that survives.
Restart ==
    /\ Fresh
    /\ warehouse' = [m \in Mounts |-> NoRow]
    /\ pull' = [m \in Mounts |-> NoPull]
    /\ task' = [s \in Slots |-> Idle]
    /\ late' = {}
    /\ crossed' = crossed \ {"memory"}

\* What the mount shown may still do to the stock figures: the pull under way,
\* one that its catalogue's pull goes before, or one that the probe that is out
\* sets off.  Until it asks for figures the last two are not told apart.
Probing == probe = "out" /\ ~reachable /\ closure = "everything"
Owing   == Probing \/ (refresh = "catalogue" /\ closure = "everything")
Owed    == IF pull[0] = NoPull /\ Owing THEN [NoPull EXCEPT !.phase = "asked"] ELSE pull[0]

\* Another screen and back: the guard, the cache and the monitor are new, the
\* promises of the old ones go on.
Remount ==
    LET m == restarts + 1
    IN  /\ Fresh
        /\ pull' = [pull EXCEPT ![0] = NoPull, ![m] = Owed]
        /\ late' = IF Probing /\ refresh # "idle" THEN late \cup {m} ELSE late
        /\ warehouse' = [warehouse EXCEPT ![0] = NoRow, ![m] = warehouse[0]]
        /\ task' = [s \in Slots |-> Leave(task[s])]
        /\ crossed' = (crossed \ {"memory"}) \cup (IF Owed = NoPull THEN {} ELSE {"store"})

PullLeft(m) == PullStep(m) /\ UNCHANGED <<up, monitorVars, hookVars>>

\* The monitor was stopped, the probe it had out was not: contact restored
\* still asks for a refresh, which a refresh under way turns down.
ProbeLeft(m) ==
    /\ m \in late
    /\ late' = late \ {m}
    /\ pull' = IF up /\ ~Pulling(m) THEN [pull EXCEPT ![m].phase = "asked"] ELSE pull
    /\ UNCHANGED <<worldVars, cacheVars, task, crossed, up, monitorVars, hookVars>>

Still == UNCHANGED <<up, monitorVars, hookVars>>

Stock ==
    /\ Still
    /\ \/ \E w \in Warehouses, v \in Variants :
             Move(w, v) \/ Miss(w, v) \/ \E s \in Slots : Hear(s, w, v)
       \/ \E w \in Warehouses : Rehome(w)
       \/ \E s \in Slots : Apply(s)

Next ==
    \/ Stock \/ Check \/ Settle \/ Flip
    \/ Open \/ OpenStock \/ Render \/ Tick \/ SyncCatalogue \/ PullStock
    \/ Restart \/ Remount
    \/ \E m \in Left : PullLeft(m) \/ ProbeLeft(m)

Spec == Init /\ [][Next]_vars

-----------------------------------------------------------------------------
(* Timers fire, awaits end, messages are delivered or missed.  Nothing is   *)
(* asked of what a mount left behind.                                      *)

Fairness ==
    /\ WF_vars(due /\ Check) /\ WF_vars(Settle)
    /\ WF_vars(Open) /\ WF_vars(OpenStock) /\ WF_vars(Render)
    /\ WF_vars(Tick) /\ WF_vars(SyncCatalogue) /\ WF_vars(PullStock)
    /\ \A s \in Slots : WF_vars(Apply(s) /\ Still)
    /\ \A w \in Warehouses, v \in Variants : WF_vars(Miss(w, v) /\ Still)

LiveSpec == Spec /\ Fairness

\* A till whose connection stays up, or stays away, knows it in the end.
KnowsItsConnection ==
    /\ <>[]up => <>[]reachable
    /\ <>[]~up => <>[]~reachable

\* With the connection up, the catalogue is pulled in the end.
CatalogueArrives == <>[]up => <>[]synced

\* With the connection up, a refresh that has the stock cache makes it agree
\* with the ledger for good once the shop is quiet, whatever pulls, messages
\* and restarts crossed before: "the next pull replaces everything".
CacheCatchesUp == <>[](up /\ closure = "everything") => <>[]Agrees

\* With the connection up, the till holds stock figures in the end: "the stock
\* figures ride along on the same schedule and the same reconnect trigger".
StockFiguresArrive == <>[]up => <>[](\A v \in Variants : held[v] # Unheld)
=============================================================================
