-------------------------- MODULE CounterBooksProofs --------------------------
(***************************************************************************)
(* Proofs about the transactions that meet on a store's rows, for any      *)
(* number of them, of items, of sessions and of lines in a document: what  *)
(* the session's lock is for, what the number series' is, and what those   *)
(* on the layers are.                                                      *)
(***************************************************************************)
EXTENDS CounterBooks, FiniteSetTheorems, SequenceTheorems, TLAPS

Lines == [v : Variants, n : Nat \ {0}]

\* The steps a document of a kind goes through.
StepsOf(k) ==
    CASE k = "sale"     -> {"session", "pool", "layers", "consume", "commit"}
      [] k = "issue"    -> {"consume", "commit"}
      [] k = "delivery" -> {"receive", "settle", "commit"}
      [] k = "return"   -> {"session", "restore", "number", "commit"}
      [] k = "movement" -> {"session", "commit"}
      [] k = "close"    -> {"session", "count", "commit"}
      [] OTHER          -> {}

ShapeInv ==
    /\ sessions \in 1..MaxSessions
    /\ DOMAIN frozen \subseteq 1..MaxSessions
    /\ DOMAIN charged = Born \X Variants
    /\ kind \in [Txns -> Kinds \cup {"none"}]
    /\ doc \in [Txns -> Seq(Lines)]
    /\ of \in [Txns -> Born]
    /\ pc \in [Txns -> Steps \cup Ended \cup {"none"}]
    /\ held = [t \in Txns |-> held[t]]
    /\ want = [t \in Txns |-> want[t]]
    /\ figure = [t \in Txns |-> figure[t]]
    /\ sess \in [Txns -> 0..MaxSessions]

TxnInv ==
    \A t \in Txns :
        /\ pc[t] \in Steps => pc[t] \in StepsOf(kind[t])
        /\ pc[t] = "none" <=> kind[t] = "none"
        /\ pc[t] \notin Steps => held[t] = {} /\ want[t] = {}
        /\ pc[t] = "restore" => want[t] = {}
        /\ pc[t] = "number" => want[t] \in {{}, {Series}}
        /\ kind[t] = "return" => Len(doc[t]) = 1 /\ of[t] \in Committed

\* No two transactions hold a row in modes that conflict.
LockInv ==
    \A t, u \in Txns : t # u => \A r \in held[t] \cap held[u] : ~Conflict(t, u, r)

\* A document past its first step holds its session, which is open.
InSession(t) == /\ kind[t] \in {"sale", "return", "movement", "close"}
                /\ pc[t] \in Steps \ {"session"}

SessionInv ==
    \A t \in Txns :
        /\ kind[t] \in {"none", "issue", "delivery"} => sess[t] = 0
        /\ InSession(t) => /\ sess[t] \in 1..MaxSessions /\ IsOpen(sess[t])
                           /\ Session(sess[t]) \in held[t]
        /\ kind[t] = "close" /\ pc[t] = "commit" => figure[t] = Drawer(sess[t])

\* A return that has its number holds the series, and fits.
ReturnInv ==
    \A t \in Txns : kind[t] = "return" /\ pc[t] = "commit" =>
                       Series \in held[t] /\ Returnable(t)

BooksInv ==
    /\ ShapeInv /\ TxnInv /\ LockInv /\ SessionInv /\ ReturnInv
    /\ FrozenIsComplete /\ NeverOverReturned

-----------------------------------------------------------------------------

\* Sessions and the series are different rows, and only sessions are shared.
LEMMA RowKinds ==
    /\ \A n : Session(n)[1] = "session" /\ Session(n)[2] = n
    /\ Series[1] = "series"
  BY DEF Series, Session

\* A drawer depends on the documents rung in it and their kinds.
LEMMA DrawerSame ==
    ASSUME NEW n, Rung(n)' = Rung(n), \A t \in Rung(n) : kind'[t] = kind[t]
    PROVE  Drawer(n)' = Drawer(n)
<1>1. \A t \in Rung(n) : Cash(kind[t])' = Cash(kind[t])
  BY DEF Cash
<1>2. [t \in Rung(n) |-> Cash(kind[t])]' = [t \in Rung(n) |-> Cash(kind[t])]
  BY <1>1
<1> QED  BY <1>2 DEF Drawer

\* A return's one line is about an item.
LEMMA ItemIsVariant ==
    ASSUME ShapeInv, TxnInv, NEW t \in Txns, kind[t] = "return"
    PROVE  Item(t) \in Variants
<1>1. doc[t] \in Seq(Lines) /\ Len(doc[t]) = 1
  BY DEF ShapeInv, TxnInv
<1>2. 1 \in DOMAIN doc[t]
  BY <1>1, LenProperties
<1>3. doc[t][1] \in Lines
  BY <1>1, <1>2, ElementOfSeq
<1> QED  BY <1>3 DEF Item, Lines

\* The opening: no transaction yet.
LEMMA InitBooks == Init => BooksInv
<1> SUFFICES ASSUME Init PROVE BooksInv
  OBVIOUS
<1>1. DOMAIN charged = Born \X Variants
  BY DEF Init
<1>2. /\ sessions = 1 /\ frozen = << >>
      /\ kind = [t \in Txns |-> "none"] /\ doc = [t \in Txns |-> << >>]
      /\ of = [t \in Txns |-> 0] /\ pc = [t \in Txns |-> "none"]
      /\ held = [t \in Txns |-> {}] /\ want = [t \in Txns |-> {}]
      /\ figure = [t \in Txns |-> 0] /\ sess = [t \in Txns |-> 0]
  BY DEF Init
<1>3. ShapeInv
  <2>1. sessions \in 1..MaxSessions /\ 0 \in Born /\ 0 \in 0..MaxSessions
    BY <1>2, BooksAssumption DEF Born
  <2>2. << >> \in Seq(Lines)
    OBVIOUS
  <2> QED  BY <1>1, <1>2, <2>1, <2>2 DEF ShapeInv
<1>4. TxnInv /\ LockInv /\ SessionInv /\ ReturnInv
  BY <1>2 DEF TxnInv, LockInv, SessionInv, InSession, ReturnInv, Steps
<1>5. FrozenIsComplete
  BY <1>2 DEF FrozenIsComplete
<1>6. NeverOverReturned
  <2> SUFFICES ASSUME NEW u \in Committed, NEW v \in Variants, u = 0 \/ kind[u] = "sale"
               PROVE  Back(u, v) <= Sold(u, v)
    BY DEF NeverOverReturned
  <2>1. u = 0
    BY <1>2 DEF Committed
  <2>2. Returns(u, v) \cap Committed = {}
    BY <1>2 DEF Returns
  <2>3. Back(u, v) = 0
    BY <2>2, FS_EmptySet DEF Back
  <2> QED  BY <2>1, <2>3 DEF Sold
<1> QED  BY <1>3, <1>4, <1>5, <1>6 DEF BooksInv

-----------------------------------------------------------------------------
(* What a step of one transaction leaves alone.                            *)

Calm(t) ==
    /\ UNCHANGED <<frozen, kind, doc, of>>
    /\ sessions' \in 1..MaxSessions
    /\ DOMAIN charged' = DOMAIN charged
    /\ \A v \in Variants : charged'[<<0, v>>] = charged[<<0, v>>]
    /\ pc[t] \in Steps /\ pc'[t] \notin {"none", "committed"}
    /\ pc' = [pc EXCEPT ![t] = pc'[t]]
    /\ held' = [held EXCEPT ![t] = held'[t]]
    /\ want' = [want EXCEPT ![t] = want'[t]]
    /\ figure' = [figure EXCEPT ![t] = figure'[t]]
    /\ sess' = [sess EXCEPT ![t] = sess'[t]]

\* The others are where they were.
LEMMA CalmOthers ==
    ASSUME ShapeInv, NEW t \in Txns, Calm(t)
    PROVE  \A u \in Txns \ {t} : /\ pc'[u] = pc[u] /\ held'[u] = held[u]
                                 /\ want'[u] = want[u]
                                 /\ figure'[u] = figure[u] /\ sess'[u] = sess[u]
  BY DEF ShapeInv, Calm

\* Until a transaction commits, the drawers and the counts of returns stay.
LEMMA CalmKeeps ==
    ASSUME BooksInv, NEW t \in Txns, Calm(t)
    PROVE  /\ Committed' = Committed
           /\ \A n : Drawer(n)' = Drawer(n)
           /\ \A u \in Txns : kind[u] = "return" => (Returnable(u)' <=> Returnable(u))
           /\ FrozenIsComplete' /\ NeverOverReturned'
<1>0. \A u \in Txns \ {t} : pc'[u] = pc[u] /\ sess'[u] = sess[u]
  BY CalmOthers DEF BooksInv
<1>1. Committed' = Committed /\ t \notin Committed
  BY <1>0, BooksAssumption DEF Calm, Committed, Steps, Txns
<1>2. ASSUME NEW n PROVE Drawer(n)' = Drawer(n)
  <2>1. \A u \in Committed \ {0} : u \in Txns /\ u # t
    BY <1>1 DEF Committed
  <2>2. Rung(n)' = Rung(n)
    BY <1>0, <1>1, <2>1 DEF Calm, Rung
  <2>3. \A u \in Rung(n) : kind'[u] = kind[u]
    BY DEF Calm
  <2> QED  BY <2>2, <2>3, DrawerSame
<1>3. ASSUME NEW u, NEW v \in Variants
      PROVE  Back(u, v)' = Back(u, v) /\ Sold(u, v)' = Sold(u, v)
  BY <1>1 DEF Calm, Back, Returns, Item, Sold, LineVariants
<1>4. ASSUME NEW u \in Txns, kind[u] = "return"
      PROVE  Returnable(u)' <=> Returnable(u)
  <2>1. Item(u) \in Variants
    BY <1>4, ItemIsVariant DEF BooksInv
  <2>2. Item(u)' = Item(u) /\ of'[u] = of[u]
    BY DEF Calm, Item
  <2> QED  BY <1>3, <2>1, <2>2 DEF Returnable
<1>5. FrozenIsComplete'
  BY <1>2 DEF BooksInv, FrozenIsComplete, Calm
<1>6. NeverOverReturned'
  BY <1>1, <1>3 DEF BooksInv, NeverOverReturned, Calm
<1> QED  BY <1>1, <1>2, <1>4, <1>5, <1>6

\* What holds of a transaction between two of its statements holds of the
\* others while it is calm, and has to be shown of it alone.
LEMMA StepKeeps ==
    ASSUME BooksInv, NEW t \in Txns, Calm(t),
           pc'[t] \in Steps \cup Ended \cup {"none"}, sess'[t] \in 0..MaxSessions,
           pc'[t] \in Steps => pc'[t] \in StepsOf(kind[t]),
           pc'[t] \notin Steps => held'[t] = {} /\ want'[t] = {},
           pc'[t] = "restore" => want'[t] = {},
           pc'[t] = "number" => want'[t] \in {{}, {Series}},
           \A r \in held'[t] \ held[t] : Holders(t, r) = {},
           kind[t] \in {"none", "issue", "delivery"} => sess'[t] = 0,
           InSession(t)' => /\ sess'[t] \in 1..MaxSessions /\ IsOpen(sess'[t])
                            /\ Session(sess'[t]) \in held'[t],
           kind[t] = "close" /\ pc'[t] = "commit" => figure'[t] = Drawer(sess'[t]),
           kind[t] = "return" /\ pc'[t] = "commit" => Series \in held'[t] /\ Returnable(t)
    PROVE  BooksInv'
<1>1. /\ Committed' = Committed /\ \A n : Drawer(n)' = Drawer(n)
      /\ \A u \in Txns : kind[u] = "return" => (Returnable(u)' <=> Returnable(u))
      /\ FrozenIsComplete' /\ NeverOverReturned'
  BY CalmKeeps
<1>2. \A u \in Txns \ {t} : /\ pc'[u] = pc[u] /\ held'[u] = held[u]
                            /\ want'[u] = want[u]
                            /\ figure'[u] = figure[u] /\ sess'[u] = sess[u]
  BY CalmOthers DEF BooksInv
<1>3. /\ UNCHANGED <<frozen, kind, doc, of>>
      /\ pc[t] \in Steps /\ pc'[t] \notin {"none", "committed"}
  BY DEF Calm
<1>4. ShapeInv'
  BY DEF BooksInv, ShapeInv, Calm
<1>5. TxnInv'
  <2> SUFFICES ASSUME NEW u \in Txns
        PROVE /\ pc'[u] \in Steps => pc'[u] \in StepsOf(kind[u])
              /\ pc'[u] = "none" <=> kind[u] = "none"
              /\ pc'[u] \notin Steps => held'[u] = {} /\ want'[u] = {}
              /\ pc'[u] = "restore" => want'[u] = {}
              /\ pc'[u] = "number" => want'[u] \in {{}, {Series}}
              /\ kind[u] = "return" => Len(doc[u]) = 1 /\ of[u] \in Committed
    BY <1>1, <1>3 DEF TxnInv, StepsOf, Series
  <2>1. CASE u = t
    BY <1>3, <2>1 DEF BooksInv, TxnInv, Steps
  <2>2. CASE u # t
    BY <1>2, <2>2 DEF BooksInv, TxnInv
  <2> QED  BY <2>1, <2>2
<1>6. LockInv'
  <2>1. \A a, b, r : Conflict(a, b, r)' = Conflict(a, b, r)
    BY <1>3 DEF Conflict
  <2>2. \A a, b, r : Conflict(a, b, r) <=> Conflict(b, a, r)
    BY DEF Conflict
  <2>3. ASSUME NEW u \in Txns \ {t}, NEW r \in held'[t] \cap held'[u]
        PROVE  ~Conflict(t, u, r)
    <3>1. r \in held[u] /\ u \in Running
      BY <1>2, <2>3 DEF BooksInv, TxnInv, Running
    <3>2. CASE r \in held[t]
      BY <3>1, <3>2 DEF BooksInv, LockInv
    <3>3. CASE r \notin held[t]
      BY <2>3, <3>1, <3>3 DEF Holders
    <3> QED  BY <3>2, <3>3
  <2>4. ASSUME NEW a \in Txns \ {t}, NEW b \in Txns \ {t}, a # b,
               NEW r \in held'[a] \cap held'[b]
        PROVE  ~Conflict(a, b, r)
    BY <1>2, <2>4 DEF BooksInv, LockInv
  <2> QED  BY <2>1, <2>2, <2>3, <2>4 DEF LockInv
<1>7. SessionInv'
  <2> SUFFICES ASSUME NEW u \in Txns
        PROVE /\ kind[u] \in {"none", "issue", "delivery"} => sess'[u] = 0
              /\ InSession(u)' => /\ sess'[u] \in 1..MaxSessions /\ IsOpen(sess'[u])
                                  /\ Session(sess'[u]) \in held'[u]
              /\ kind[u] = "close" /\ pc'[u] = "commit" => figure'[u] = Drawer(sess'[u])
    BY <1>1, <1>3 DEF SessionInv, IsOpen, Session
  <2>1. CASE u = t
    BY <2>1
  <2>2. CASE u # t
    <3>1. InSession(u)' => InSession(u)
      BY <1>2, <1>3, <2>2 DEF InSession
    <3> QED  BY <1>2, <2>2, <3>1 DEF BooksInv, SessionInv
  <2> QED  BY <2>1, <2>2
<1>8. ReturnInv'
  BY <1>1, <1>2, <1>3 DEF BooksInv, ReturnInv
<1> QED  BY <1>1, <1>4, <1>5, <1>6, <1>7, <1>8 DEF BooksInv

-----------------------------------------------------------------------------
(* Waiting, giving up, and the statements that need no more than that.     *)

\* A step that moves nothing the invariant speaks of.
LEMMA StillKeeps ==
    ASSUME BooksInv,
           sessions' \in 1..MaxSessions,
           UNCHANGED <<frozen, charged, docVars, pc, held, want, figure, sess>>
    PROVE  BooksInv'
<1> USE DEF docVars
<1>1. Committed' = Committed
  BY DEF Committed
<1>2. \A n : Drawer(n)' = Drawer(n)
  BY <1>1, DrawerSame DEF Rung
<1>3. \A u, v : Back(u, v)' = Back(u, v) /\ Sold(u, v)' = Sold(u, v)
  BY <1>1 DEF Back, Returns, Item, Sold, LineVariants
<1>4. ShapeInv' /\ LockInv'
  BY DEF BooksInv, ShapeInv, LockInv, Conflict
<1>5. TxnInv'
  BY <1>1 DEF BooksInv, TxnInv, StepsOf, Series
<1>6. SessionInv'
  BY <1>2 DEF BooksInv, SessionInv, InSession, IsOpen
<1>7. ReturnInv'
  BY <1>3 DEF BooksInv, ReturnInv, Returnable, Item
<1>8. FrozenIsComplete' /\ NeverOverReturned'
  BY <1>1, <1>2, <1>3 DEF BooksInv, FrozenIsComplete, NeverOverReturned
<1> QED  BY <1>4, <1>5, <1>6, <1>7, <1>8 DEF BooksInv

\* A statement that waits.
LEMMA WaitKeeps ==
    ASSUME BooksInv, NEW t \in Txns, NEW rows, Wait(t, rows),
           pc[t] \in Steps \ {"restore"}, pc[t] = "number" => rows = {Series}
    PROVE  BooksInv'
<1>1. /\ UNCHANGED <<sessions, frozen, charged, kind, doc, of, pc, held, figure, sess>>
      /\ want' = [want EXCEPT ![t] = rows]
  BY DEF Wait, rowVars, docVars
<1>2. want'[t] = rows
  BY <1>1 DEF BooksInv, ShapeInv
<1>3. pc[t] \notin {"none", "committed"}
  BY DEF Steps
<1>4. Calm(t)
  BY <1>1, <1>2, <1>3 DEF Calm, BooksInv, ShapeInv
<1>5. /\ pc[t] \in StepsOf(kind[t]) /\ sess[t] \in 0..MaxSessions
      /\ kind[t] \in {"none", "issue", "delivery"} => sess[t] = 0
      /\ InSession(t) => /\ sess[t] \in 1..MaxSessions /\ IsOpen(sess[t])
                         /\ Session(sess[t]) \in held[t]
      /\ kind[t] = "close" /\ pc[t] = "commit" => figure[t] = Drawer(sess[t])
      /\ kind[t] = "return" /\ pc[t] = "commit" => Series \in held[t] /\ Returnable(t)
  BY DEF BooksInv, ShapeInv, TxnInv, SessionInv, ReturnInv
<1>6. InSession(t)' <=> InSession(t)
  BY <1>1 DEF InSession
<1> QED  BY <1>1, <1>2, <1>4, <1>5, <1>6, StepKeeps

\* A transaction that ends uncommitted lets go of all it had.
LEMMA GiveUpKeeps ==
    ASSUME BooksInv, NEW t \in Txns, NEW how \in {"refused", "rolled back"},
           pc[t] \in Steps, End(t, how), UNCHANGED <<rowVars, docVars>>
    PROVE  BooksInv'
<1>1. /\ pc' = [pc EXCEPT ![t] = how]
      /\ held' = [held EXCEPT ![t] = {}]
      /\ want' = [want EXCEPT ![t] = {}]
      /\ figure' = [figure EXCEPT ![t] = 0]
      /\ UNCHANGED <<sess, sessions, frozen, charged, kind, doc, of>>
  BY DEF End, Goto, rowVars, docVars
<1>2. /\ pc'[t] = how /\ held'[t] = {} /\ want'[t] = {}
      /\ how \notin Steps /\ how \in Ended /\ how \notin {"none", "committed"}
  BY <1>1 DEF BooksInv, ShapeInv, Steps, Ended
<1>3. Calm(t)
  BY <1>1, <1>2 DEF Calm, BooksInv, ShapeInv
<1>4. ~InSession(t)'
  BY <1>2 DEF InSession
<1>5. /\ sess'[t] \in 0..MaxSessions
      /\ kind[t] \in {"none", "issue", "delivery"} => sess'[t] = 0
  BY <1>1 DEF BooksInv, ShapeInv, SessionInv
<1>6. pc'[t] # "commit"
  BY <1>2
<1>7. \A r \in held'[t] \ held[t] : Holders(t, r) = {}
  BY <1>2
<1> QED  BY <1>2, <1>3, <1>4, <1>5, <1>6, <1>7, StepKeeps

\* A statement within a transaction that needs its session, if at all, only to
\* stay held.
Advances(t) ==
    /\ UNCHANGED <<sessions, frozen, kind, doc, of, figure, sess>>
    /\ \A v \in Variants : charged'[<<0, v>>] = charged[<<0, v>>]
    /\ DOMAIN charged' = DOMAIN charged
    /\ pc[t] \in Steps \ {"session"}
    /\ pc' = [pc EXCEPT ![t] = pc'[t]]
    /\ held' = [held EXCEPT ![t] = held'[t]]
    /\ want' = [want EXCEPT ![t] = {}]
    /\ held[t] \subseteq held'[t]
    /\ \A r \in held'[t] \ held[t] : Holders(t, r) = {}

LEMMA AdvanceKeeps ==
    ASSUME BooksInv, NEW t \in Txns, Advances(t),
           pc'[t] \in StepsOf(kind[t]) \cap Steps,
           kind[t] = "close" => pc'[t] # "commit",
           kind[t] = "return" /\ pc'[t] = "commit" => Series \in held'[t] /\ Returnable(t)
    PROVE  BooksInv'
<1>1. pc'[t] \notin {"none", "committed"}
  BY DEF Steps
<1>2. Calm(t)
  BY <1>1 DEF Advances, Calm, BooksInv, ShapeInv
<1>3. InSession(t)' => /\ sess'[t] \in 1..MaxSessions /\ IsOpen(sess'[t])
                       /\ Session(sess'[t]) \in held'[t]
  <2>1. InSession(t)' => InSession(t)
    BY DEF Advances, InSession
  <2> QED  BY <2>1 DEF BooksInv, SessionInv, Advances
<1>4. /\ sess'[t] \in 0..MaxSessions
      /\ kind[t] \in {"none", "issue", "delivery"} => sess'[t] = 0
  BY DEF Advances, BooksInv, ShapeInv, SessionInv
<1>5. want'[t] = {} /\ \A r \in held'[t] \ held[t] : Holders(t, r) = {}
  BY DEF Advances, BooksInv, ShapeInv
<1> QED  BY <1>1, <1>2, <1>3, <1>4, <1>5, StepKeeps

\* What taking rows does to the locks.
LEMMA LockAdds ==
    ASSUME ShapeInv, NEW t \in Txns, NEW rows, Lock(t, rows)
    PROVE  /\ held' = [held EXCEPT ![t] = held'[t]]
           /\ held'[t] = held[t] \cup Asked(t, rows)
           /\ want' = [want EXCEPT ![t] = {}]
           /\ \A r \in held'[t] \ held[t] : Holders(t, r) = {}
<1>1. held' = [held EXCEPT ![t] = held[t] \cup Asked(t, rows)]
  BY DEF Lock
<1>2. held'[t] = held[t] \cup Asked(t, rows)
  BY <1>1 DEF ShapeInv
<1> QED  BY <1>1, <1>2 DEF Lock

-----------------------------------------------------------------------------
(* The statements.                                                         *)

\* The locks on the stock.
LEMMA LockStockKeeps ==
    ASSUME BooksInv, NEW t \in Txns, LockPool(t) \/ LockLayers(t)
    PROVE  BooksInv'
<1>1. CASE \E rows : Wait(t, rows)
  BY <1>1, WaitKeeps DEF LockPool, LockLayers, Steps
<1>2. CASE ~\E rows : Wait(t, rows)
  <2>1. PICK rows : Lock(t, rows)
    BY <1>2 DEF LockPool, LockLayers
  <2>2. /\ UNCHANGED <<sessions, frozen, charged, kind, doc, of, figure, sess>>
        /\ pc[t] \in {"pool", "layers"}
        /\ pc' = [pc EXCEPT ![t] = pc'[t]]
        /\ pc'[t] \in {"pool", "layers", "consume"}
    BY <1>2 DEF LockPool, LockLayers, NextLine, Goto, rowVars, docVars, BooksInv, ShapeInv
  <2>3. Advances(t)
    BY <2>1, <2>2, LockAdds DEF Advances, Steps, BooksInv
  <2>4. kind[t] = "sale"
    BY <2>2 DEF BooksInv, TxnInv, StepsOf, Steps, ShapeInv, Kinds
  <2> QED  BY <2>2, <2>3, <2>4, AdvanceKeeps DEF StepsOf, Steps
<1> QED  BY <1>1, <1>2

\* Units going out: of a sale's layers, or an issue's.
LEMMA ConsumeKeeps ==
    ASSUME BooksInv, NEW t \in Txns, Consume(t)
    PROVE  BooksInv'
<1>1. CASE \E rows : Wait(t, rows)
  BY <1>1, WaitKeeps DEF Consume, Steps
<1>2. CASE ~\E rows : Wait(t, rows)
  <2>1. PICK rows : Lock(t, rows)
    BY <1>2 DEF Consume
  <2>2. PICK total : charged' = [charged EXCEPT ![<<t, Line(t).v>>] = total]
    BY <1>2 DEF Consume
  <2>3. \A v \in Variants : charged'[<<0, v>>] = charged[<<0, v>>]
    <3>1. 0 # t /\ 0 \in Born
      BY BooksAssumption DEF Txns, Born
    <3> QED  BY <2>2, <3>1 DEF BooksInv, ShapeInv
  <2>4. /\ UNCHANGED <<sessions, frozen, kind, doc, of, figure, sess>>
        /\ pc[t] = "consume"
        /\ pc' = [pc EXCEPT ![t] = pc'[t]]
        /\ pc'[t] \in {"consume", "commit"}
    BY <1>2 DEF Consume, NextLine, Goto, docVars, BooksInv, ShapeInv
  <2>5. Advances(t)
    BY <2>1, <2>2, <2>3, <2>4, LockAdds DEF Advances, Steps, BooksInv
  <2>6. kind[t] \in {"sale", "issue"}
    BY <2>4 DEF BooksInv, TxnInv, StepsOf, Steps, ShapeInv, Kinds
  <2> QED  BY <2>4, <2>5, <2>6, AdvanceKeeps DEF StepsOf, Steps
<1> QED  BY <1>1, <1>2

\* A delivery's statements.
LEMMA DeliveryKeeps ==
    ASSUME BooksInv, NEW t \in Txns, Receive(t) \/ Settle(t)
    PROVE  BooksInv'
<1>1. CASE \E rows : Wait(t, rows)
  BY <1>1, WaitKeeps DEF Receive, Settle, Steps
<1>2. CASE ~\E rows : Wait(t, rows)
  <2>1. PICK rows : Lock(t, rows)
    BY <1>2 DEF Receive, Settle
  <2>2. /\ UNCHANGED <<sessions, frozen, charged, kind, doc, of, figure, sess>>
        /\ pc[t] \in {"receive", "settle"}
        /\ pc' = [pc EXCEPT ![t] = pc'[t]]
        /\ pc'[t] \in {"receive", "settle", "commit"}
    BY <1>2 DEF Receive, Settle, NextLine, Goto, rowVars, docVars, BooksInv, ShapeInv
  <2>3. Advances(t)
    BY <2>1, <2>2, LockAdds DEF Advances, Steps, BooksInv
  <2>4. kind[t] = "delivery"
    BY <2>2 DEF BooksInv, TxnInv, StepsOf, Steps, ShapeInv, Kinds
  <2> QED  BY <2>2, <2>3, <2>4, AdvanceKeeps DEF StepsOf, Steps
<1> QED  BY <1>1, <1>2

\* A return's goods come back, if they may.
LEMMA RestoreKeeps ==
    ASSUME BooksInv, NEW t \in Txns, Restore(t)
    PROVE  BooksInv'
<1>1. pc[t] = "restore" /\ pc[t] \in Steps
  BY DEF Restore, Steps
<1>2. CASE ~Returnable(t)
  <2>1. Refuse(t)
    BY <1>2 DEF Restore
  <2> QED  BY <1>1, <2>1, GiveUpKeeps DEF Refuse
<1>3. CASE Returnable(t)
  <2>1. /\ UNCHANGED <<sessions, frozen, charged, kind, doc, of, held, figure, sess>>
        /\ pc' = [pc EXCEPT ![t] = "number"]
    BY <1>3 DEF Restore, Goto, docVars
  <2>2. want' = [want EXCEPT ![t] = {}]
    BY <1>1, <1>3 DEF Restore, BooksInv, ShapeInv, TxnInv
  <2>3. pc'[t] = "number" /\ Advances(t)
    BY <1>1, <2>1, <2>2 DEF Advances, BooksInv, ShapeInv
  <2>4. kind[t] = "return"
    BY <1>1 DEF BooksInv, TxnInv, StepsOf, Steps, ShapeInv, Kinds
  <2> QED  BY <2>3, <2>4, AdvanceKeeps DEF StepsOf, Steps
<1> QED  BY <1>2, <1>3

\* A return takes its number: with the series held, what is returnable is final.
LEMMA NumberKeeps ==
    ASSUME BooksInv, NEW t \in Txns, Number(t)
    PROVE  BooksInv'
<1>1. pc[t] = "number" /\ pc[t] \in Steps
  BY DEF Number, Steps
<1>2. CASE Wait(t, {Series})
  BY <1>1, <1>2, WaitKeeps
<1>3. CASE Refuse(t)
  BY <1>1, <1>3, GiveUpKeeps DEF Refuse
<1>4. CASE /\ Lock(t, {Series}) /\ Returnable(t) /\ Goto(t, "commit")
           /\ UNCHANGED <<rowVars, docVars, line, drawn, posts, figure, sess, blind>>
  <2>1. /\ UNCHANGED <<sessions, frozen, charged, kind, doc, of, figure, sess>>
        /\ pc' = [pc EXCEPT ![t] = "commit"]
    BY <1>4 DEF Goto, rowVars, docVars
  <2>2. pc'[t] = "commit" /\ Advances(t)
    BY <1>1, <1>4, <2>1, LockAdds DEF Advances, BooksInv, ShapeInv
  <2>3. kind[t] = "return"
    BY <1>1 DEF BooksInv, TxnInv, StepsOf, Steps, ShapeInv, Kinds
  <2>4. Series \in held'[t]
    BY <1>1, <1>4, LockAdds DEF Asked, BooksInv, TxnInv
  <2> QED  BY <1>4, <2>2, <2>3, <2>4, AdvanceKeeps DEF StepsOf, Steps
<1> QED  BY <1>2, <1>3, <1>4 DEF Number

\* A request given up, and a transaction rolled back for a cycle of waits.
LEMMA RollbackKeeps ==
    ASSUME BooksInv, NEW t \in Txns, Rollback(t) \/ Victim(t)
    PROVE  BooksInv'
<1>1. t \in Running
  BY DEF Rollback, Victim, BooksInv, TxnInv, Running
<1>2. pc[t] \in Steps /\ End(t, "rolled back") /\ UNCHANGED <<rowVars, docVars>>
  BY <1>1 DEF Rollback, Victim, Running
<1> QED  BY <1>2, GiveUpKeeps

\* The session is found open with its lock held.
LEMMA TakeSessionKeeps ==
    ASSUME BooksInv, NEW t \in Txns, TakeSession(t)
    PROVE  BooksInv'
<1>1. pc[t] = "session" /\ pc[t] \in Steps
  BY DEF TakeSession, Steps
<1>2. CASE Wait(t, SessionRows)
  BY <1>1, <1>2, WaitKeeps
<1>3. CASE Refuse(t)
  BY <1>1, <1>3, GiveUpKeeps DEF Refuse
<1>4. CASE Lock(t, SessionRows) /\ ~Wait(t, SessionRows) /\ ~Refuse(t)
  <2>1. PICK n \in 1..sessions : /\ Session(n) \in Asked(t, SessionRows)
                                 /\ IsOpen(n)
                                 /\ sess' = [sess EXCEPT ![t] = n]
                                 /\ Goto(t, AfterSession(t))
                                 /\ UNCHANGED <<rowVars, docVars, line, drawn, posts,
                                                figure, blind>>
    BY <1>4 DEF TakeSession
  <2>2. /\ UNCHANGED <<sessions, frozen, charged, kind, doc, of, figure>>
        /\ pc' = [pc EXCEPT ![t] = AfterSession(t)]
    BY <2>1 DEF Goto, rowVars, docVars
  <2>3. n \in 1..MaxSessions
    BY BooksAssumption DEF BooksInv, ShapeInv
  <2>4. kind[t] \in {"sale", "return", "movement", "close"}
    BY <1>1 DEF BooksInv, TxnInv, ShapeInv, StepsOf, Kinds
  <2>5. /\ kind[t] = "sale"     => AfterSession(t) = "pool"
        /\ kind[t] = "return"   => AfterSession(t) = "restore"
        /\ kind[t] = "close"    => AfterSession(t) = "count"
        /\ kind[t] = "movement" => AfterSession(t) = "commit"
    BY DEF AfterSession
  <2>6. /\ pc'[t] = AfterSession(t) /\ sess'[t] = n
        /\ want' = [want EXCEPT ![t] = {}] /\ want'[t] = {}
    BY <1>4, <2>1, <2>2, LockAdds DEF BooksInv, ShapeInv
  <2>7. /\ held' = [held EXCEPT ![t] = held'[t]]
        /\ Session(n) \in held'[t]
        /\ \A r \in held'[t] \ held[t] : Holders(t, r) = {}
    BY <1>4, <2>1, LockAdds DEF BooksInv
  <2>8. pc'[t] \in Steps /\ pc'[t] \notin {"none", "committed"}
    BY <2>4, <2>5, <2>6 DEF Steps
  <2>9. pc'[t] \in StepsOf(kind[t])
    BY <2>4, <2>5, <2>6 DEF StepsOf
  <2>10. Calm(t)
    BY <1>1, <2>1, <2>2, <2>6, <2>7, <2>8 DEF Calm, BooksInv, ShapeInv
  <2>11. /\ sess'[t] \in 1..MaxSessions /\ sess'[t] \in 0..MaxSessions
         /\ IsOpen(sess'[t]) /\ Session(sess'[t]) \in held'[t]
    BY <2>1, <2>3, <2>6, <2>7
  <2> QED  BY <2>4, <2>5, <2>6, <2>7, <2>8, <2>9, <2>10, <2>11, StepKeeps
<1> QED  BY <1>1, <1>2, <1>3, <1>4 DEF TakeSession

\* The close counts the drawer.
LEMMA CountKeeps ==
    ASSUME BooksInv, NEW t \in Txns, Count(t)
    PROVE  BooksInv'
<1>1. /\ pc[t] = "count" /\ pc[t] \in Steps
      /\ UNCHANGED <<sessions, frozen, charged, kind, doc, of, held, want, sess>>
      /\ figure' = [figure EXCEPT ![t] = Drawer(sess[t])]
      /\ pc' = [pc EXCEPT ![t] = "commit"]
  BY DEF Count, Goto, rowVars, docVars, Steps
<1>2. pc'[t] = "commit" /\ figure'[t] = Drawer(sess[t]) /\ "commit" \in Steps
  BY <1>1 DEF BooksInv, ShapeInv, Steps
<1>3. Calm(t)
  BY <1>1, <1>2 DEF Calm, BooksInv, ShapeInv
<1>4. kind[t] = "close"
  BY <1>1 DEF BooksInv, TxnInv, ShapeInv, StepsOf, Kinds
<1>5. /\ InSession(t) /\ sess[t] \in 1..MaxSessions /\ IsOpen(sess[t])
      /\ Session(sess[t]) \in held[t] /\ sess[t] \in 0..MaxSessions
  BY <1>1, <1>4 DEF BooksInv, ShapeInv, SessionInv, InSession
<1>6. "commit" \in StepsOf("close")
  BY DEF StepsOf
<1> QED  BY <1>1, <1>2, <1>3, <1>4, <1>5, <1>6, StepKeeps

\* The next session of the till.
LEMMA OpenSessionKeeps ==
    ASSUME BooksInv, OpenSession
    PROVE  BooksInv'
<1>1. sessions' \in 1..MaxSessions
  BY BooksAssumption DEF OpenSession, BooksInv, ShapeInv
<1> QED  BY <1>1, StillKeeps DEF OpenSession, txnVars

\* A transaction begins: it holds nothing, and nothing counts it yet.
LEMMA BeginKeeps ==
    ASSUME BooksInv, NEW t \in Txns, NEW k \in Kinds, NEW d \in Seq(Lines),
           NEW u \in Born, Begins(t, k, d, u),
           k = "return" => Len(d) = 1 /\ u \in Committed
    PROVE  BooksInv'
<1> DEFINE first == CASE k = "issue" -> "consume" [] k = "delivery" -> "receive"
                      [] OTHER -> "session"
<1>1. /\ pc[t] = "none"
      /\ kind' = [kind EXCEPT ![t] = k]
      /\ doc' = [doc EXCEPT ![t] = d]
      /\ of' = [of EXCEPT ![t] = u]
      /\ pc' = [pc EXCEPT ![t] = first]
      /\ UNCHANGED <<sessions, frozen, charged, held, want, figure, sess>>
  BY DEF Begins, Goto, rowVars
<1>2. first \in {"session", "consume", "receive"} /\ first \in Steps
  BY DEF Steps
<1>3. /\ first \in StepsOf(k) /\ k # "none"
      /\ k \notin {"issue", "delivery"} => first = "session"
  BY DEF StepsOf, Kinds
<1> HIDE DEF first
<1> USE DEF BooksInv
<1>4. /\ \A s \in Txns \ {t} : /\ pc'[s] = pc[s] /\ kind'[s] = kind[s] /\ doc'[s] = doc[s]
                               /\ of'[s] = of[s]
      /\ pc'[t] = first /\ kind'[t] = k /\ doc'[t] = d /\ of'[t] = u
  BY <1>1 DEF ShapeInv
<1>5. held[t] = {} /\ want[t] = {} /\ t \notin Committed
  BY <1>1, BooksAssumption DEF TxnInv, Steps, Committed, Txns
<1>6. Committed' = Committed
  BY <1>1, <1>2, <1>4 DEF Committed
<1>7. \A n : Drawer(n)' = Drawer(n)
  <2> SUFFICES ASSUME NEW n PROVE Drawer(n)' = Drawer(n)
    OBVIOUS
  <2>1. \A s \in Committed \ {0} : s \in Txns /\ s # t
    BY <1>5 DEF Committed
  <2>2. Rung(n)' = Rung(n) /\ \A s \in Rung(n) : kind'[s] = kind[s]
    BY <1>1, <1>4, <1>6, <2>1 DEF Rung
  <2> QED  BY <2>2, DrawerSame
<1>8. \A s \in Committed : \A v : Back(s, v)' = Back(s, v) /\ Sold(s, v)' = Sold(s, v)
  <2> SUFFICES ASSUME NEW s \in Committed, NEW v
               PROVE  Back(s, v)' = Back(s, v) /\ Sold(s, v)' = Sold(s, v)
    OBVIOUS
  <2>1. s # t /\ (s = 0 \/ s \in Txns)
    BY <1>5 DEF Committed
  <2>2. (Returns(s, v) \cap Committed)' = Returns(s, v) \cap Committed
    BY <1>4, <1>5, <1>6 DEF Returns, Item
  <2>3. Sold(s, v)' = Sold(s, v)
    BY <1>1, <1>4, <2>1 DEF Sold, LineVariants
  <2> QED  BY <2>2, <2>3 DEF Back
<1>9. ShapeInv'
  BY <1>1, <1>2 DEF ShapeInv
<1>10. TxnInv'
  <2> SUFFICES ASSUME NEW s \in Txns
        PROVE /\ pc'[s] \in Steps => pc'[s] \in StepsOf(kind'[s])
              /\ pc'[s] = "none" <=> kind'[s] = "none"
              /\ pc'[s] \notin Steps => held'[s] = {} /\ want'[s] = {}
              /\ pc'[s] = "restore" => want'[s] = {}
              /\ pc'[s] = "number" => want'[s] \in {{}, {Series}}
              /\ kind'[s] = "return" => Len(doc'[s]) = 1 /\ of'[s] \in Committed'
    BY DEF TxnInv, StepsOf, Series
  <2>1. CASE s = t
    BY <1>1, <1>2, <1>3, <1>4, <1>5, <1>6, <2>1 DEF TxnInv
  <2>2. CASE s # t
    BY <1>1, <1>4, <1>6, <2>2 DEF TxnInv
  <2> QED  BY <2>1, <2>2
<1>11. LockInv'
  BY <1>1, <1>4, <1>5 DEF LockInv, Conflict
<1>12. SessionInv'
  <2>1. \A s \in Txns : InSession(s)' => s # t /\ InSession(s)
    BY <1>1, <1>3, <1>4 DEF InSession
  <2>2. kind[t] = "none" /\ sess[t] = 0
    BY <1>1 DEF TxnInv, SessionInv
  <2>3. \A s \in Txns : kind'[s] = "close" /\ pc'[s] = "commit" =>
                            figure'[s] = Drawer(sess[s])'
    BY <1>1, <1>2, <1>4, <1>7 DEF SessionInv
  <2>4. \A s \in Txns :
          /\ kind'[s] \in {"none", "issue", "delivery"} => sess'[s] = 0
          /\ InSession(s)' => /\ sess'[s] \in 1..MaxSessions /\ IsOpen(sess[s])'
                              /\ Session(sess'[s]) \in held'[s]
    BY <1>1, <1>4, <2>1, <2>2 DEF SessionInv, IsOpen
  <2> QED  BY <1>1, <1>7, <2>3, <2>4 DEF SessionInv, IsOpen, Session
<1>13. ReturnInv'
  <2>1. \A s \in Txns \ {t} : kind[s] = "return" => (Returnable(s)' <=> Returnable(s))
    BY <1>4, <1>8 DEF TxnInv, Returnable, Item
  <2> QED  BY <1>1, <1>2, <1>4, <2>1 DEF ReturnInv, Series
<1>14. FrozenIsComplete'
  BY <1>1, <1>7 DEF FrozenIsComplete
<1>15. NeverOverReturned'
  <2>1. \A s \in Committed : s = 0 \/ kind'[s] = kind[s]
    BY <1>4, <1>5 DEF Committed
  <2> QED  BY <1>6, <1>8, <2>1 DEF NeverOverReturned
<1> QED
  BY <1>9, <1>10, <1>11, <1>12, <1>13, <1>14, <1>15

-----------------------------------------------------------------------------
(* Committing.                                                             *)

\* What a line sold is a number.
LEMMA SoldIsNat ==
    ASSUME ShapeInv, NEW t \in Txns, NEW v \in Variants
    PROVE  Sold(t, v) \in Nat
<1>1. t # 0
  BY BooksAssumption DEF Txns
<1>2. CASE v \notin LineVariants(t)
  BY <1>1, <1>2 DEF Sold
<1>3. CASE v \in LineVariants(t)
  <2> DEFINE i == CHOOSE j \in DOMAIN doc[t] : doc[t][j].v = v
  <2>1. i \in DOMAIN doc[t]
    BY <1>3 DEF LineVariants
  <2>2. doc[t] \in Seq(Lines)
    BY DEF ShapeInv
  <2>3. doc[t][i] \in Lines
    BY <2>1, <2>2, ElementOfSeq, LenProperties
  <2>4. Sold(t, v) = doc[t][i].n
    BY <1>1, <1>3 DEF Sold
  <2> QED  BY <2>3, <2>4 DEF Lines
<1> QED  BY <1>2, <1>3

\* What a commit moves: it lets its rows go, and its document counts.
LEMMA CommitMoves ==
    ASSUME BooksInv, NEW t \in Txns, Commit(t)
    PROVE  /\ pc[t] = "commit" /\ pc[t] \in Steps
           /\ kind[t] \in Kinds /\ t \notin Committed
           /\ Committed' = Committed \cup {t}
           /\ UNCHANGED <<sessions, charged, kind, doc, of, sess>>
           /\ frozen' = IF kind[t] = "close" THEN With(frozen, sess[t], figure[t])
                                             ELSE frozen
           /\ pc' = [pc EXCEPT ![t] = "committed"]
           /\ held' = [held EXCEPT ![t] = {}] /\ want' = [want EXCEPT ![t] = {}]
           /\ figure' = [figure EXCEPT ![t] = 0]
           /\ pc'[t] = "committed" /\ held'[t] = {} /\ want'[t] = {}
           /\ \A u \in Txns \ {t} : /\ pc'[u] = pc[u] /\ held'[u] = held[u]
                                    /\ want'[u] = want[u] /\ figure'[u] = figure[u]
<1> USE DEF BooksInv
<1>1. /\ pc[t] = "commit" /\ pc[t] \in Steps
      /\ UNCHANGED <<sessions, charged, kind, doc, of, sess>>
      /\ frozen' = IF kind[t] = "close" THEN With(frozen, sess[t], figure[t])
                                        ELSE frozen
      /\ pc' = [pc EXCEPT ![t] = "committed"]
      /\ held' = [held EXCEPT ![t] = {}] /\ want' = [want EXCEPT ![t] = {}]
      /\ figure' = [figure EXCEPT ![t] = 0]
  BY DEF Commit, End, Goto, docVars, Steps
<1>2. /\ pc'[t] = "committed" /\ held'[t] = {} /\ want'[t] = {}
      /\ \A u \in Txns \ {t} : /\ pc'[u] = pc[u] /\ held'[u] = held[u]
                               /\ want'[u] = want[u] /\ figure'[u] = figure[u]
  BY <1>1 DEF ShapeInv
<1>3. t \notin Committed
  BY <1>1, BooksAssumption DEF Committed, Txns
<1>4. Committed' = Committed \cup {t}
  BY <1>2 DEF Committed
<1>5. kind[t] \in Kinds
  BY <1>1 DEF ShapeInv, TxnInv, StepsOf
<1> QED  BY <1>1, <1>2, <1>3, <1>4, <1>5

\* A document that lands is in a session still open, and no close that has
\* counted it stands beside it.
LEMMA CommitDrawer ==
    ASSUME BooksInv, NEW t \in Txns, Commit(t)
    PROVE  /\ \A n \in DOMAIN frozen : Drawer(n)' = Drawer(n) /\ n # sess[t]
           /\ kind[t] = "close" => Drawer(sess[t])' = Drawer(sess[t])
           /\ \A u \in Txns \ {t} : InSession(u) /\ "close" \in {kind[t], kind[u]} =>
                 sess[u] # sess[t] /\ Drawer(sess[u])' = Drawer(sess[u])
<1> USE DEF BooksInv
<1>1. /\ pc[t] = "commit" /\ pc[t] \in Steps /\ kind[t] \in Kinds /\ t \notin Committed
      /\ Committed' = Committed \cup {t} /\ UNCHANGED <<kind, sess>>
  BY CommitMoves
<1>2. ASSUME NEW n, n # sess[t] \/ kind[t] = "close"
      PROVE  Drawer(n)' = Drawer(n)
  <2>1. t # 0
    BY BooksAssumption DEF Txns
  <2>2. Rung(n)' = Rung(n)
    BY <1>1, <1>2, <2>1 DEF Rung
  <2> QED  BY <1>1, <2>2, DrawerSame
<1>3. \/ kind[t] \in {"issue", "delivery"} /\ sess[t] = 0
      \/ InSession(t) /\ IsOpen(sess[t]) /\ Session(sess[t]) \in held[t]
  BY <1>1 DEF Kinds, InSession, SessionInv, Steps
<1>4. \A n \in DOMAIN frozen : n # sess[t]
  BY <1>3 DEF IsOpen, ShapeInv
<1>5. ASSUME NEW u \in Txns \ {t}, InSession(u), "close" \in {kind[t], kind[u]}
      PROVE  sess[u] # sess[t]
  <2> SUFFICES ASSUME sess[u] = sess[t] PROVE FALSE
    OBVIOUS
  <2>1. sess[u] \in 1..MaxSessions /\ Session(sess[u]) \in held[u]
    BY <1>5 DEF SessionInv
  <2>2. Session(sess[t]) \in held[t]
    BY <1>3, <2>1
  <2>3. ~Conflict(t, u, Session(sess[t]))
    BY <2>1, <2>2 DEF LockInv
  <2> QED  BY <1>5, <2>3 DEF Conflict
<1>6. \A n \in DOMAIN frozen : Drawer(n)' = Drawer(n) /\ n # sess[t]
  BY <1>2, <1>4
<1>7. kind[t] = "close" => Drawer(sess[t])' = Drawer(sess[t])
  <2> SUFFICES ASSUME kind[t] = "close" PROVE Drawer(sess[t])' = Drawer(sess[t])
    OBVIOUS
  <2>1. \A n : Drawer(n)' = Drawer(n)
    BY <1>2
  <2> QED  BY <1>1, <2>1
<1>8. ASSUME NEW u \in Txns \ {t}, InSession(u), "close" \in {kind[t], kind[u]}
      PROVE  Drawer(sess[u])' = Drawer(sess[u])
  <2>1. \A n : n # sess[t] => Drawer(n)' = Drawer(n)
    BY <1>2
  <2>2. sess[u] # sess[t]
    BY <1>5, <1>8
  <2> QED  BY <1>1, <2>1, <2>2
<1> QED  BY <1>5, <1>6, <1>7, <1>8

\* What came back of a line is more by the return that lands, and no other.
LEMMA CommitBack ==
    ASSUME BooksInv, NEW t \in Txns, Commit(t), NEW u, NEW v
    PROVE  /\ Sold(u, v)' = Sold(u, v)
           /\ t \notin Returns(u, v) => Back(u, v)' = Back(u, v)
           /\ t \in Returns(u, v) => Back(u, v)' = Back(u, v) + 1
           /\ Back(u, v) \in Nat
<1>1. /\ t \notin Committed /\ Committed' = Committed \cup {t}
      /\ UNCHANGED <<charged, kind, doc, of>>
  BY CommitMoves
<1>2. Sold(u, v)' = Sold(u, v) /\ Returns(u, v)' = Returns(u, v)
  BY <1>1 DEF Sold, LineVariants, Returns, Item
<1>3. IsFiniteSet(Returns(u, v) \cap Committed)
  <2>1. IsFiniteSet(Txns)
    BY BooksAssumption, FS_Interval DEF Txns
  <2> QED  BY <2>1, FS_Subset DEF Returns
<1>4. t \notin Returns(u, v) => Back(u, v)' = Back(u, v)
  <2> SUFFICES ASSUME t \notin Returns(u, v) PROVE Back(u, v)' = Back(u, v)
    OBVIOUS
  <2>1. (Returns(u, v) \cap Committed)' = Returns(u, v) \cap Committed
    BY <1>1, <1>2
  <2> QED  BY <2>1 DEF Back
<1>5. t \in Returns(u, v) => Back(u, v)' = Back(u, v) + 1
  <2> SUFFICES ASSUME t \in Returns(u, v) PROVE Back(u, v)' = Back(u, v) + 1
    OBVIOUS
  <2>1. (Returns(u, v) \cap Committed)' = (Returns(u, v) \cap Committed) \cup {t}
    BY <1>1, <1>2
  <2> QED  BY <1>1, <1>3, <2>1, FS_AddElement DEF Back
<1>6. Back(u, v) \in Nat
  BY <1>3, FS_CardinalityType DEF Back
<1> QED  BY <1>2, <1>4, <1>5, <1>6

\* A transaction commits.
LEMMA CommitKeeps ==
    ASSUME BooksInv, NEW t \in Txns, Commit(t)
    PROVE  BooksInv'
<1> USE DEF BooksInv
<1>1. /\ pc[t] = "commit" /\ pc[t] \in Steps
      /\ kind[t] \in Kinds /\ t \notin Committed
      /\ Committed' = Committed \cup {t}
      /\ UNCHANGED <<sessions, charged, kind, doc, of, sess>>
      /\ frozen' = IF kind[t] = "close" THEN With(frozen, sess[t], figure[t])
                                        ELSE frozen
      /\ pc' = [pc EXCEPT ![t] = "committed"]
      /\ held' = [held EXCEPT ![t] = {}] /\ want' = [want EXCEPT ![t] = {}]
      /\ figure' = [figure EXCEPT ![t] = 0]
  BY CommitMoves
<1>2. /\ pc'[t] = "committed" /\ held'[t] = {} /\ want'[t] = {}
      /\ \A u \in Txns \ {t} : /\ pc'[u] = pc[u] /\ held'[u] = held[u]
                               /\ want'[u] = want[u] /\ figure'[u] = figure[u]
  BY CommitMoves
<1>3. kind[t] = "close" => /\ sess[t] \in 1..MaxSessions
                           /\ figure[t] = Drawer(sess[t])
  BY <1>1 DEF SessionInv, InSession
<1>4. \A n : n \in DOMAIN frozen' =>
         \/ n \in DOMAIN frozen /\ (n # sess[t] => frozen'[n] = frozen[n])
         \/ kind[t] = "close" /\ n = sess[t] /\ frozen'[n] = figure[t]
  BY <1>1 DEF With
<1>5. ShapeInv'
  <2>1. DOMAIN frozen' \subseteq 1..MaxSessions
    BY <1>3, <1>4 DEF ShapeInv
  <2>2. pc' \in [Txns -> Steps \cup Ended \cup {"none"}]
    BY <1>1 DEF ShapeInv, Ended
  <2> QED  BY <1>1, <2>1, <2>2 DEF ShapeInv
<1>6. TxnInv'
  <2> SUFFICES ASSUME NEW s \in Txns
        PROVE /\ pc'[s] \in Steps => pc'[s] \in StepsOf(kind[s])
              /\ pc'[s] = "none" <=> kind[s] = "none"
              /\ pc'[s] \notin Steps => held'[s] = {} /\ want'[s] = {}
              /\ pc'[s] = "restore" => want'[s] = {}
              /\ pc'[s] = "number" => want'[s] \in {{}, {Series}}
              /\ kind[s] = "return" => Len(doc[s]) = 1 /\ of[s] \in Committed'
    BY <1>1 DEF TxnInv, StepsOf, Series
  <2>1. CASE s = t
    BY <1>1, <1>2, <2>1 DEF TxnInv, Steps, Kinds
  <2>2. CASE s # t
    BY <1>1, <1>2, <2>2 DEF TxnInv
  <2> QED  BY <2>1, <2>2
<1>7. LockInv'
  BY <1>1, <1>2 DEF LockInv, Conflict
<1>8. SessionInv'
  <2>1. \A s \in Txns : InSession(s)' => s # t /\ InSession(s)
    BY <1>1, <1>2 DEF InSession, Steps
  <2>2. ASSUME NEW s \in Txns, InSession(s)'
        PROVE  /\ sess[s] \in 1..MaxSessions /\ IsOpen(sess[s])'
               /\ Session(sess[s]) \in held'[s]
    <3>1. /\ s # t /\ InSession(s) /\ sess[s] \in 1..MaxSessions /\ IsOpen(sess[s])
          /\ Session(sess[s]) \in held'[s]
      BY <1>2, <2>1, <2>2 DEF SessionInv
    <3>2. kind[t] = "close" => sess[s] # sess[t]
      BY <3>1, CommitDrawer
    <3>3. sess[s] \notin DOMAIN frozen'
      BY <1>4, <3>1, <3>2 DEF IsOpen
    <3>4. IsOpen(sess[s])'
      BY <1>1, <3>3 DEF IsOpen
    <3> QED  BY <3>1, <3>4
  <2>3. ASSUME NEW s \in Txns, kind[s] = "close", pc'[s] = "commit"
        PROVE  figure'[s] = Drawer(sess[s])'
    <3>1. /\ s # t /\ InSession(s) /\ figure[s] = Drawer(sess[s])
          /\ figure'[s] = figure[s]
      BY <1>2, <2>3 DEF InSession, SessionInv, Steps
    <3> QED  BY <2>3, <3>1, CommitDrawer
  <2>4. \A s \in Txns : kind[s] \in {"none", "issue", "delivery"} => sess[s] = 0
    BY DEF SessionInv
  <2> QED  BY <1>1, <2>2, <2>3, <2>4 DEF SessionInv, IsOpen, Session
<1>9. ReturnInv'
  <2> SUFFICES ASSUME NEW s \in Txns, kind[s] = "return", pc'[s] = "commit"
               PROVE  Series \in held'[s] /\ Returnable(s)'
    BY <1>1 DEF ReturnInv, Series
  <2>1. s # t /\ Series \in held[s] /\ held'[s] = held[s] /\ Returnable(s)
    BY <1>2 DEF ReturnInv
  <2>2. kind[t] # "return"
    <3> SUFFICES ASSUME kind[t] = "return" PROVE FALSE
      OBVIOUS
    <3>1. Series \in held[t]
      BY <1>1 DEF ReturnInv
    <3> QED  BY <2>1, <3>1 DEF LockInv, Conflict, Series
  <2>3. t \notin Returns(of[s], Item(s))
    BY <2>2 DEF Returns
  <2>4. /\ Back(of[s], Item(s))' = Back(of[s], Item(s))
        /\ Sold(of[s], Item(s))' = Sold(of[s], Item(s))
    <3>1. of'[s] = of[s] /\ Item(s)' = Item(s)
      BY <1>1 DEF Item
    <3> QED  BY <2>3, <3>1, CommitBack
  <2> QED  BY <2>1, <2>4 DEF Returnable
<1>10. FrozenIsComplete'
  <2> SUFFICES ASSUME NEW n \in DOMAIN frozen' PROVE frozen'[n] = Drawer(n)'
    BY DEF FrozenIsComplete
  <2>1. CASE n \in DOMAIN frozen
    BY <1>4, <2>1, CommitDrawer DEF FrozenIsComplete
  <2>2. CASE n \notin DOMAIN frozen
    BY <1>1, <1>3, <1>4, <2>2, CommitDrawer
  <2> QED  BY <2>1, <2>2
<1>11. NeverOverReturned'
  <2> SUFFICES ASSUME NEW u \in Committed', NEW v \in Variants, u = 0 \/ kind[u] = "sale"
               PROVE  Back(u, v)' <= Sold(u, v)'
    BY <1>1 DEF NeverOverReturned
  <2>1. CASE t \in Returns(u, v)
    <3>1. kind[t] = "return" /\ of[t] = u /\ Item(t) = v
      BY <2>1 DEF Returns
    <3>2. Returnable(t)
      BY <1>1, <3>1 DEF ReturnInv
    <3> QED  BY <2>1, <3>1, <3>2, CommitBack DEF Returnable
  <2>2. CASE t \notin Returns(u, v) /\ u # t
    <3>1. u \in Committed
      BY <1>1, <2>2
    <3> QED  BY <2>2, <3>1, CommitBack DEF NeverOverReturned
  <2>3. CASE u = t
    <3>1. Returns(t, v) = {}
      BY <1>1 DEF Returns, TxnInv
    <3>2. Back(t, v) = 0
      BY <3>1, FS_EmptySet DEF Back
    <3>3. t \notin Returns(t, v)
      BY <3>1
    <3> QED  BY <2>3, <3>2, <3>3, CommitBack, SoldIsNat
  <2> QED  BY <2>1, <2>2, <2>3
<1> QED  BY <1>5, <1>6, <1>7, <1>8, <1>9, <1>10, <1>11

-----------------------------------------------------------------------------
(* The theorems.                                                           *)

\* The documents a transaction may begin with are ones BeginKeeps is about.
LEMMA SomeBeginKeeps ==
    ASSUME BooksInv, NEW t \in Txns, BeginStock(t) \/ BeginCash(t) \/ BeginReturn(t)
    PROVE  BooksInv'
<1>1. 0 \in Born /\ Committed \subseteq Born
  BY BooksAssumption DEF Born, Committed, Txns
<1>2. CASE BeginStock(t)
  <2>1. PICK k \in {"sale", "issue", "delivery"}, d \in Documents : Begins(t, k, d, 0)
    BY <1>2 DEF BeginStock
  <2>2. k \in Kinds /\ k # "return" /\ d \in Seq(Lines)
    BY BooksAssumption DEF Kinds, Lines
  <2> QED  BY <1>1, <2>1, <2>2, BeginKeeps
<1>3. CASE BeginCash(t)
  <2>1. PICK k \in {"movement", "close"} : Begins(t, k, << >>, 0)
    BY <1>3 DEF BeginCash
  <2>2. k \in Kinds /\ k # "return" /\ << >> \in Seq(Lines)
    BY DEF Kinds
  <2> QED  BY <1>1, <2>1, <2>2, BeginKeeps
<1>4. CASE BeginReturn(t)
  <2>1. PICK u \in Committed, v \in Variants :
               Begins(t, "return", <<[v |-> v, n |-> 1]>>, u)
    BY <1>4 DEF BeginReturn, Committed
  <2> DEFINE d == <<[v |-> v, n |-> 1]>>
  <2>2. d \in Seq(Lines) /\ Len(d) = 1
    <3>1. [v |-> v, n |-> 1] \in Lines
      BY DEF Lines
    <3> QED  BY <3>1
  <2>3. "return" \in Kinds
    BY DEF Kinds
  <2> QED  BY <1>1, <2>1, <2>2, <2>3, BeginKeeps
<1> QED  BY <1>2, <1>3, <1>4

\* However many transactions meet on a store's rows, their locks, their steps
\* and what they have read stay in the relation BooksInv states: the session a
\* document is rung in stays locked and open, the series a credit note numbers
\* from stays locked, from the read to the commit (terminal.go, shift.go,
\* refund.go).
THEOREM BooksCorrect == Spec => []BooksInv
<1>1. Init => BooksInv
  BY InitBooks
<1>2. BooksInv /\ [Next]_vars => BooksInv'
  <2> SUFFICES ASSUME BooksInv, [Next]_vars PROVE BooksInv'
    OBVIOUS
  <2>1. CASE UNCHANGED vars
    <3>1. sessions' \in 1..MaxSessions
      BY <2>1 DEF vars, rowVars, BooksInv, ShapeInv
    <3> QED  BY <2>1, <3>1, StillKeeps DEF vars, rowVars, txnVars
  <2>2. CASE OpenSession
    BY <2>2, OpenSessionKeeps
  <2>3. ASSUME NEW t \in Txns, BeginStock(t) \/ BeginCash(t) \/ BeginReturn(t)
        PROVE  BooksInv'
    BY <2>3, SomeBeginKeeps
  <2>4. ASSUME NEW t \in Txns, Step(t)
        PROVE  BooksInv'
    BY <2>4, TakeSessionKeeps, CountKeeps, LockStockKeeps, ConsumeKeeps, DeliveryKeeps,
       RestoreKeeps, NumberKeeps, CommitKeeps DEF Step
  <2>5. ASSUME NEW t \in Txns, Rollback(t) \/ Victim(t)
        PROVE  BooksInv'
    BY <2>5, RollbackKeeps
  <2> QED  BY <2>1, <2>2, <2>3, <2>4, <2>5 DEF Next
<1> QED  BY <1>1, <1>2, PTL DEF Spec

\* The cash a closed session froze is that of every document rung in it: none
\* lands after the count (shift.go:461, terminal.go:347).
THEOREM FrozenIsCompleteHolds == Spec => []FrozenIsComplete
<1>1. BooksInv => FrozenIsComplete
  BY DEF BooksInv
<1> QED  BY <1>1, BooksCorrect, PTL

\* No line of a sale goes back more often than it was sold, however many
\* returns of it run at once (migration 0019:26, refund.go:502).
THEOREM NeverOverReturnedHolds == Spec => []NeverOverReturned
<1>1. BooksInv => NeverOverReturned
  BY DEF BooksInv
<1> QED  BY <1>1, BooksCorrect, PTL

-----------------------------------------------------------------------------
(* The stock's rows: what a transaction draws.                             *)

StockKinds == {"sale", "issue", "delivery"}
Drawing    == {"consume", "receive", "settle"}

\* A row of stock_layer or of stock_shortfall, with units that are a count.
RowInv ==
    \A r \in DOMAIN stock :
        /\ stock[r] = [qty |-> stock[r].qty, cost |-> stock[r].cost]
        /\ stock[r].qty \in Nat

\* A document about goods is on one of its lines.
LineInv(t) ==
    /\ kind[t] = "none" => line[t] = 1
    /\ kind[t] \in StockKinds => doc[t] \in Documents /\ line[t] \in DOMAIN doc[t]

\* A row of the stock t may draw from, once it has its lock.
Drawable(t, r) ==
    r \in DOMAIN stock /\ r[1] \in {"layer", "hole"} /\ r[2] \in Committed \cup {t}

\* What t draws, it has locked, and there is that much of it; of rows of its
\* own it draws only those its earlier lines have made.
DrawInv(t) ==
    /\ pc[t] \notin Drawing \cup {"commit"} => DOMAIN drawn[t] = {}
    /\ \A r \in DOMAIN drawn[t] :
          /\ Drawable(t, r) /\ r \in held[t] /\ drawn[t][r] \in 0..stock[r].qty
          /\ pc[t] \in Drawing /\ r[2] = t =>
                \E i \in DOMAIN doc[t] : i < line[t] /\ doc[t][i].v = r[3]
    /\ pc[t] \in {"consume", "settle"} =>
          \A r \in want[t] : /\ Drawable(t, r) /\ r[3] = Line(t).v
                             /\ pc[t] = "consume" => r[1] = "layer"

StockInv ==
    /\ drawn = [t \in Txns |-> drawn[t]]
    /\ line = [t \in Txns |-> line[t]]
    /\ RowInv
    /\ \A t \in Txns : LineInv(t) /\ DrawInv(t)

\* Only t moves.
Alone(t) ==
    /\ UNCHANGED <<kind, doc>>
    /\ pc' = [pc EXCEPT ![t] = pc'[t]]
    /\ held' = [held EXCEPT ![t] = held'[t]]
    /\ want' = [want EXCEPT ![t] = want'[t]]
    /\ line' = [line EXCEPT ![t] = line'[t]]
    /\ drawn' = [drawn EXCEPT ![t] = drawn'[t]]
    /\ pc[t] \in Steps

\* Where nothing is drawn, no row is.
LEMMA NothingDrawn == DOMAIN << >> = {}
<1>1. << >> \in Seq({}) /\ Len(<< >>) = 0
  BY EmptySeq
<1>2. DOMAIN << >> = 1..Len(<< >>)
  BY <1>1, LenProperties
<1> QED  BY <1>1, <1>2

\* The opening stock is one unit of each row, and nothing is drawn.
LEMMA InitStock == Init => StockInv
<1> SUFFICES ASSUME Init PROVE StockInv
  OBVIOUS
<1>1. /\ kind = [t \in Txns |-> "none"] /\ pc = [t \in Txns |-> "none"]
      /\ line = [t \in Txns |-> 1] /\ drawn = [t \in Txns |-> << >>]
  BY DEF Init
<1>2. RowInv
  <2>1. PICK S : stock = [r \in S |-> [qty |-> 1, cost |-> OldCost]]
    BY DEF Init
  <2> QED  BY <2>1 DEF RowInv
<1>3. \A t \in Txns : LineInv(t) /\ DrawInv(t)
  BY <1>1, NothingDrawn DEF LineInv, DrawInv, StockKinds, Drawing
<1> QED  BY <1>1, <1>2, <1>3 DEF StockInv

\* While t moves alone, the others keep what they have: of a row they have
\* drawn from, nobody else takes.
LEMMA OthersDraw ==
    ASSUME ShapeInv, StockInv, NEW t \in Txns, Alone(t), RowInv',
           DOMAIN stock \subseteq DOMAIN stock',
           \A u \in Txns \ {t} : \A r \in DOMAIN drawn[u] : stock'[r].qty = stock[r].qty,
           LineInv(t)', DrawInv(t)'
    PROVE  StockInv'
<1>1. \A u \in Txns \ {t} : /\ pc'[u] = pc[u] /\ held'[u] = held[u] /\ want'[u] = want[u]
                            /\ line'[u] = line[u] /\ drawn'[u] = drawn[u]
  BY DEF ShapeInv, StockInv, Alone
<1>2. Committed \subseteq Committed'
  BY <1>1 DEF Committed, Alone, Steps
<1>3. ASSUME NEW u \in Txns \ {t} PROVE LineInv(u)' /\ DrawInv(u)'
  <2>1. LineInv(u) /\ DrawInv(u)
    BY DEF StockInv
  <2>2. LineInv(u)'
    BY <1>1, <2>1 DEF LineInv, Alone
  <2>3. \A r : Drawable(u, r) => Drawable(u, r)'
    BY <1>2 DEF Drawable
  <2>4. Line(u)' = Line(u)
    BY <1>1 DEF Line, Alone
  <2>5. \A r \in DOMAIN drawn'[u] :
          /\ Drawable(u, r)' /\ r \in held'[u] /\ drawn'[u][r] \in 0..stock'[r].qty
          /\ pc'[u] \in Drawing /\ r[2] = u =>
                \E i \in DOMAIN doc'[u] : i < line'[u] /\ doc'[u][i].v = r[3]
    BY <1>1, <2>1, <2>3 DEF DrawInv, Alone
  <2>6. pc'[u] \in {"consume", "settle"} =>
          \A r \in want'[u] : /\ Drawable(u, r)' /\ r[3] = Line(u).v
                              /\ pc'[u] = "consume" => r[1] = "layer"
    BY <1>1, <2>1, <2>3 DEF DrawInv
  <2>7. pc'[u] \notin Drawing \cup {"commit"} => DOMAIN drawn'[u] = {}
    BY <1>1, <2>1 DEF DrawInv
  <2> QED  BY <2>2, <2>4, <2>5, <2>6, <2>7 DEF DrawInv, Drawing
<1>4. drawn' = [u \in Txns |-> drawn'[u]] /\ line' = [u \in Txns |-> line'[u]]
  BY DEF StockInv, Alone
<1> QED  BY <1>3, <1>4 DEF StockInv

\* A row t makes is one nobody has drawn from.
LEMMA InsertFresh ==
    ASSUME StockInv, NEW t \in Txns, NEW row, row[2] = t, pc[t] \in Steps,
           NEW n \in Nat, NEW each, Insert(row, n, each), row \notin DOMAIN drawn[t]
    PROVE  /\ RowInv' /\ DOMAIN stock \subseteq DOMAIN stock' /\ row \in DOMAIN stock'
           /\ \A u \in Txns : \A r \in DOMAIN drawn[u] : stock'[r].qty = stock[r].qty
           /\ \A r \in DOMAIN stock : r # row => stock'[r] = stock[r]
<1>1. /\ DOMAIN stock' = DOMAIN stock \cup {row}
      /\ stock'[row] = [qty |-> n, cost |-> each]
      /\ \A r \in DOMAIN stock : r # row => stock'[r] = stock[r]
  BY DEF Insert, With
<1>2. RowInv'
  BY <1>1 DEF RowInv, StockInv
<1>3. t \notin Committed
  BY BooksAssumption DEF Committed, Steps, Txns
<1>4. \A u \in Txns : \A r \in DOMAIN drawn[u] : r # row /\ r \in DOMAIN stock
  BY <1>3 DEF StockInv, DrawInv, Drawable
<1> QED  BY <1>1, <1>2, <1>4

\* A statement that draws nothing and puts nothing in.
LEMMA StillDraws ==
    ASSUME ShapeInv, StockInv, NEW t \in Txns, Alone(t), UNCHANGED <<stock, drawn>>,
           held[t] \subseteq held'[t], LineInv(t)',
           pc'[t] \notin Drawing \cup {"commit"} => DOMAIN drawn[t] = {},
           \/ pc'[t] = pc[t] /\ line'[t] = line[t]
           \/ DOMAIN drawn[t] = {},
           pc'[t] \in {"consume", "settle"} =>
              \A r \in want'[t] : /\ Drawable(t, r) /\ r[3] = Line(t)'.v
                                  /\ pc'[t] = "consume" => r[1] = "layer"
    PROVE  StockInv'
<1>1. Committed \subseteq Committed'
  BY DEF Committed, Alone, Steps, ShapeInv
<1>2. \A r : Drawable(t, r) => Drawable(t, r)'
  BY <1>1 DEF Drawable
<1>3. DrawInv(t)
  BY DEF StockInv
<1>4. \A r \in DOMAIN drawn'[t] :
          /\ Drawable(t, r)' /\ r \in held'[t] /\ drawn'[t][r] \in 0..stock'[r].qty
          /\ pc'[t] \in Drawing /\ r[2] = t =>
                \E i \in DOMAIN doc'[t] : i < line'[t] /\ doc'[t][i].v = r[3]
  BY <1>2, <1>3 DEF DrawInv, Alone
<1>5. DrawInv(t)'
  BY <1>2, <1>4 DEF DrawInv, Drawing
<1>6. RowInv'
  BY DEF StockInv, RowInv
<1> QED  BY <1>5, <1>6, OthersDraw

-----------------------------------------------------------------------------
(* The statements, and what they draw.                                     *)

\* A document about goods has a first line.
LEMMA FirstLine ==
    ASSUME ShapeInv, StockInv, NEW t \in Txns, kind[t] \in StockKinds
    PROVE  /\ doc[t] \in Documents /\ line[t] \in DOMAIN doc[t]
           /\ DOMAIN doc[t] = 1..Len(doc[t]) /\ Len(doc[t]) \in Nat /\ 1 \in DOMAIN doc[t]
<1>1. /\ doc[t] \in Documents /\ line[t] \in DOMAIN doc[t] /\ doc[t] \in Seq(Lines)
      /\ doc[t] # << >>
  BY BooksAssumption DEF StockInv, LineInv, ShapeInv
<1> QED  BY <1>1, EmptySeq, LenProperties

\* On to the next line, or past the last one and back to the first.
LEMMA NextLineMoves ==
    ASSUME ShapeInv, StockInv, NEW t \in Txns, kind[t] \in StockKinds, UNCHANGED docVars,
           NEW first, NEW after, NextLine(t, first, after)
    PROVE  /\ pc' = [pc EXCEPT ![t] = pc'[t]] /\ line' = [line EXCEPT ![t] = line'[t]]
           /\ LineInv(t)'
           /\ \/ pc'[t] = first /\ line'[t] = line[t] + 1
              \/ pc'[t] = after /\ line'[t] = 1
<1>1. /\ doc[t] \in Documents /\ line[t] \in DOMAIN doc[t]
      /\ DOMAIN doc[t] = 1..Len(doc[t]) /\ Len(doc[t]) \in Nat /\ 1 \in DOMAIN doc[t]
  BY FirstLine
<1>2. \/ /\ line[t] < Len(doc[t]) /\ line' = [line EXCEPT ![t] = @ + 1]
         /\ pc' = [pc EXCEPT ![t] = first]
      \/ line' = [line EXCEPT ![t] = 1] /\ pc' = [pc EXCEPT ![t] = after]
  BY DEF NextLine, Goto
<1>3. /\ \/ pc'[t] = first /\ line'[t] = line[t] + 1 /\ line[t] < Len(doc[t])
         \/ pc'[t] = after /\ line'[t] = 1
      /\ pc' = [pc EXCEPT ![t] = pc'[t]] /\ line' = [line EXCEPT ![t] = line'[t]]
  BY <1>2 DEF ShapeInv, StockInv
<1>4. line'[t] \in DOMAIN doc[t]
  BY <1>1, <1>3
<1> QED  BY <1>1, <1>3, <1>4 DEF LineInv, docVars, StockKinds

\* A statement that waits.
LEMMA WaitDraws ==
    ASSUME BooksInv, StockInv, NEW t \in Txns, NEW rows, Wait(t, rows), pc[t] \in Steps,
           pc[t] \in {"consume", "settle"} =>
              \A r \in rows : /\ Drawable(t, r) /\ r[3] = Line(t).v
                              /\ pc[t] = "consume" => r[1] = "layer"
    PROVE  StockInv'
<1>1. /\ UNCHANGED <<stock, kind, doc, pc, line, held, drawn>>
      /\ want' = [want EXCEPT ![t] = rows]
  BY DEF Wait, rowVars, docVars
<1>2. want'[t] = rows /\ Alone(t)
  BY <1>1 DEF BooksInv, ShapeInv, StockInv, Alone
<1>3. LineInv(t)' /\ DrawInv(t)
  BY <1>1 DEF StockInv, LineInv
<1>4. Line(t)' = Line(t)
  BY <1>1 DEF Line
<1> QED  BY <1>1, <1>2, <1>3, <1>4, StillDraws DEF BooksInv, DrawInv

\* A transaction that ends uncommitted draws nothing.
LEMMA GiveUpDraws ==
    ASSUME BooksInv, StockInv, NEW t \in Txns, NEW how \in {"refused", "rolled back"},
           pc[t] \in Steps, End(t, how), UNCHANGED <<rowVars, docVars>>
    PROVE  StockInv'
<1>1. /\ UNCHANGED <<stock, kind, doc>> /\ pc' = [pc EXCEPT ![t] = how]
      /\ held' = [held EXCEPT ![t] = {}] /\ want' = [want EXCEPT ![t] = {}]
      /\ line' = [line EXCEPT ![t] = 1] /\ drawn' = [drawn EXCEPT ![t] = << >>]
  BY DEF End, Goto, rowVars, docVars
<1>2. /\ pc'[t] = how /\ line'[t] = 1 /\ drawn'[t] = << >> /\ Alone(t)
  BY <1>1 DEF BooksInv, ShapeInv, StockInv, Alone
<1>3. DOMAIN drawn'[t] = {}
  <2>1. drawn'[t] = << >>
    BY <1>2
  <2> QED  BY <2>1, NothingDrawn, Zenon
<1>4. DrawInv(t)'
  BY <1>2, <1>3 DEF DrawInv, Drawing
<1>5. LineInv(t)'
  <2> SUFFICES ASSUME kind[t] \in StockKinds PROVE 1 \in DOMAIN doc[t] /\ doc[t] \in Documents
    BY <1>1, <1>2 DEF LineInv, StockInv
  <2> QED  BY FirstLine DEF BooksInv
<1>6. RowInv'
  BY <1>1 DEF StockInv, RowInv
<1> QED  BY <1>1, <1>2, <1>4, <1>5, <1>6, OthersDraw DEF BooksInv

\* A statement before anything is drawn.
LEMMA EarlyDraws ==
    ASSUME BooksInv, StockInv, NEW t \in Txns, Alone(t), UNCHANGED <<stock, drawn>>,
           pc[t] \in {"session", "pool", "layers", "number", "count"},
           held[t] \subseteq held'[t], LineInv(t)',
           pc'[t] \in {"consume", "settle"} => want'[t] = {}
    PROVE  StockInv'
<1>1. DOMAIN drawn[t] = {}
  BY DEF StockInv, DrawInv, Drawing
<1> QED  BY <1>1, StillDraws DEF BooksInv

\* The session is found, or it is waited for, or there is none.
LEMMA TakeSessionDraws ==
    ASSUME BooksInv, StockInv, NEW t \in Txns, TakeSession(t)
    PROVE  StockInv'
<1>1. pc[t] = "session" /\ pc[t] \in Steps
  BY DEF TakeSession, Steps
<1>2. CASE Wait(t, SessionRows)
  BY <1>1, <1>2, WaitDraws
<1>3. CASE Refuse(t)
  BY <1>1, <1>3, GiveUpDraws DEF Refuse
<1>4. CASE Lock(t, SessionRows) /\ ~Wait(t, SessionRows) /\ ~Refuse(t)
  <2>1. UNCHANGED <<stock, drawn, kind, doc, line>> /\ Goto(t, AfterSession(t))
    BY <1>4 DEF TakeSession, rowVars, docVars
  <2>2. /\ pc' = [pc EXCEPT ![t] = pc'[t]]
        /\ held' = [held EXCEPT ![t] = held'[t]] /\ held[t] \subseteq held'[t]
        /\ want' = [want EXCEPT ![t] = {}] /\ want'[t] = {}
    BY <1>4, <2>1, LockAdds DEF Goto, BooksInv, ShapeInv
  <2>3. Alone(t) /\ LineInv(t)'
    BY <1>1, <2>1, <2>2 DEF Alone, StockInv, LineInv
  <2> QED  BY <1>1, <2>1, <2>2, <2>3, EarlyDraws
<1> QED  BY <1>1, <1>2, <1>3, <1>4 DEF TakeSession

\* The locks on the stock.
LEMMA LockStockDraws ==
    ASSUME BooksInv, StockInv, NEW t \in Txns, LockPool(t) \/ LockLayers(t)
    PROVE  StockInv'
<1>1. pc[t] \in {"pool", "layers"} /\ pc[t] \in Steps
  BY DEF LockPool, LockLayers, Steps
<1>2. CASE \E rows : Wait(t, rows)
  BY <1>1, <1>2, WaitDraws
<1>3. CASE ~\E rows : Wait(t, rows)
  <2>1. /\ UNCHANGED <<stock, drawn, docVars>>
        /\ \/ UNCHANGED line /\ Goto(t, "layers")
           \/ NextLine(t, "pool", "consume")
    BY <1>3 DEF LockPool, LockLayers, rowVars
  <2>2. PICK rows : Lock(t, rows)
    BY <1>3 DEF LockPool, LockLayers
  <2>3. kind[t] \in StockKinds
    BY <1>1 DEF BooksInv, TxnInv, StepsOf, Steps, ShapeInv, Kinds, StockKinds
  <2>4. LineInv(t)' /\ line' = [line EXCEPT ![t] = line'[t]] /\ pc' = [pc EXCEPT ![t] = pc'[t]]
    <3>1. CASE UNCHANGED line /\ Goto(t, "layers")
      BY <2>1, <3>1 DEF StockInv, LineInv, docVars, Goto, BooksInv, ShapeInv
    <3>2. CASE NextLine(t, "pool", "consume")
      BY <2>1, <2>3, <3>2, NextLineMoves DEF BooksInv
    <3> QED  BY <2>1, <3>1, <3>2
  <2>5. /\ held' = [held EXCEPT ![t] = held'[t]] /\ held[t] \subseteq held'[t]
        /\ want' = [want EXCEPT ![t] = {}] /\ want'[t] = {}
    BY <2>2, LockAdds DEF BooksInv, ShapeInv
  <2>6. Alone(t)
    BY <1>1, <2>1, <2>4, <2>5 DEF Alone, StockInv, docVars
  <2> QED  BY <1>1, <2>1, <2>4, <2>5, <2>6, EarlyDraws
<1> QED  BY <1>2, <1>3

\* The close counts; the return takes its number.
LEMMA CountAndNumberDraw ==
    ASSUME BooksInv, StockInv, NEW t \in Txns, Count(t) \/ Number(t)
    PROVE  StockInv'
<1>1. pc[t] \in {"count", "number"} /\ pc[t] \in Steps
  BY DEF Count, Number, Steps
<1>2. CASE Wait(t, {Series})
  BY <1>1, <1>2, WaitDraws
<1>3. CASE Refuse(t)
  BY <1>1, <1>3, GiveUpDraws DEF Refuse
<1>4. CASE ~Wait(t, {Series}) /\ ~Refuse(t)
  <2>1. /\ UNCHANGED <<stock, drawn, kind, doc, line>> /\ Goto(t, "commit")
        /\ UNCHANGED <<held, want>> \/ Lock(t, {Series})
    BY <1>4 DEF Count, Number, rowVars, docVars
  <2>2. /\ held' = [held EXCEPT ![t] = held'[t]] /\ held[t] \subseteq held'[t]
        /\ want' = [want EXCEPT ![t] = want'[t]]
    BY <2>1, LockAdds DEF BooksInv, ShapeInv
  <2>3. pc' = [pc EXCEPT ![t] = pc'[t]] /\ pc'[t] = "commit"
    BY <2>1 DEF Goto, BooksInv, ShapeInv
  <2>4. Alone(t) /\ LineInv(t)'
    BY <1>1, <2>1, <2>2, <2>3 DEF Alone, StockInv, LineInv
  <2> QED  BY <1>1, <2>1, <2>2, <2>3, <2>4, EarlyDraws
<1> QED  BY <1>2, <1>3, <1>4

-----------------------------------------------------------------------------
(* The statements that draw, and those that put stock in.                  *)

\* Of no row more is drawn than is left of it.
LEMMA DrawWithin ==
    ASSUME NEW t, NEW S, NEW n, NEW r \in S, Left(t, r) \in Nat
    PROVE  Draw(t, S, n)[r] \in 0..Left(t, r)
  BY DEF Draw

\* The rows a statement that draws comes to hold are ones it may draw from.
LEMMA AskedDrawable ==
    ASSUME StockInv, NEW t \in Txns, NEW rows, pc[t] \in {"consume", "settle"},
           \A r \in rows : /\ Drawable(t, r) /\ r[3] = Line(t).v
                           /\ pc[t] = "consume" => r[1] = "layer"
    PROVE  \A r \in Got(t, rows) :
              /\ Drawable(t, r) /\ r[3] = Line(t).v /\ Left(t, r) \in Nat
              /\ r \in Asked(t, rows)
              /\ pc[t] = "consume" => r[1] = "layer"
<1>1. \A r \in Asked(t, rows) : /\ Drawable(t, r) /\ r[3] = Line(t).v
                                /\ pc[t] = "consume" => r[1] = "layer"
  BY DEF Asked, StockInv, DrawInv
<1>2. ASSUME NEW r \in Got(t, rows) PROVE Left(t, r) \in Nat
  <2>1. r \in DOMAIN stock /\ Left(t, r) > 0
    BY <1>1, <1>2 DEF Got, Drawable
  <2>2. stock[r].qty \in Nat
    BY <2>1 DEF StockInv, RowInv
  <2>3. Drawn(t, r) \in Int
    BY DEF Drawn, StockInv, DrawInv
  <2> QED  BY <2>1, <2>2, <2>3 DEF Left
<1> QED  BY <1>1, <1>2 DEF Got

\* Drawing keeps within what is there.
LEMMA DrawnTooWithin ==
    ASSUME StockInv, NEW t \in Txns, NEW draw, drawn' = DrawnToo(t, draw),
           \A r \in DOMAIN draw : Drawable(t, r) /\ draw[r] \in 0..Left(t, r)
    PROVE  /\ drawn' = [drawn EXCEPT ![t] = drawn'[t]]
           /\ DOMAIN drawn'[t] = DOMAIN drawn[t] \cup DOMAIN draw
           /\ \A r \in DOMAIN drawn'[t] : drawn'[t][r] \in 0..stock[r].qty
<1> DEFINE more == [r \in DOMAIN drawn[t] \cup DOMAIN draw |->
                       Drawn(t, r) + (IF r \in DOMAIN draw THEN draw[r] ELSE 0)]
<1>1. drawn' = [drawn EXCEPT ![t] = more]
  BY DEF DrawnToo
<1>2. drawn'[t] = more
  BY <1>1 DEF StockInv
<1>3. ASSUME NEW r \in DOMAIN drawn[t] \cup DOMAIN draw
      PROVE  more[r] \in 0..stock[r].qty
  <2>1. r \in DOMAIN stock
    BY DEF StockInv, DrawInv, Drawable
  <2>2. stock[r].qty \in Nat
    BY <2>1 DEF StockInv, RowInv
  <2>3. Drawn(t, r) \in 0..stock[r].qty
    BY <2>2 DEF Drawn, StockInv, DrawInv
  <2>4. r \in DOMAIN draw => draw[r] \in 0..(stock[r].qty - Drawn(t, r))
    BY DEF Left
  <2>5. more[r] = Drawn(t, r) + (IF r \in DOMAIN draw THEN draw[r] ELSE 0)
    OBVIOUS
  <2> HIDE DEF more
  <2> QED  BY <2>2, <2>3, <2>4, <2>5
<1> QED  BY <1>1, <1>2, <1>3

\* A line's item is on no other line.
LEMMA OneLineEach ==
    ASSUME ShapeInv, StockInv, NEW t \in Txns, kind[t] \in StockKinds,
           NEW i \in DOMAIN doc[t], doc[t][i].v = Line(t).v
    PROVE  i = line[t]
<1>1. doc[t] \in Documents /\ line[t] \in DOMAIN doc[t]
  BY FirstLine
<1> QED  BY <1>1, BooksAssumption DEF Line

\* The unit that comes back is a layer of the return's own.
LEMMA RestoreDraws ==
    ASSUME BooksInv, StockInv, NEW t \in Txns, Restore(t)
    PROVE  StockInv'
<1>1. pc[t] = "restore" /\ pc[t] \in Steps
  BY DEF Restore, Steps
<1>2. CASE ~Returnable(t)
  BY <1>1, <1>2, GiveUpDraws DEF Restore, Refuse
<1>3. CASE Returnable(t)
  <2>1. PICK unit : Insert(Layer(t, Item(t)), 1, unit)
    BY <1>3 DEF Restore
  <2>2. /\ pc' = [pc EXCEPT ![t] = "number"]
        /\ UNCHANGED <<kind, doc, line, held, want, drawn>>
    BY <1>3 DEF Restore, Goto, docVars
  <2>3. Alone(t) /\ pc'[t] = "number"
    BY <1>1, <2>2 DEF Alone, BooksInv, ShapeInv, StockInv
  <2>4. DOMAIN drawn[t] = {}
    BY <1>1 DEF StockInv, DrawInv, Drawing
  <2>5. LineInv(t)' /\ DrawInv(t)'
    BY <2>2, <2>3, <2>4 DEF LineInv, DrawInv, StockInv, Drawing
  <2>6. Layer(t, Item(t))[2] = t
    BY DEF Layer
  <2> QED  BY <1>1, <2>1, <2>3, <2>4, <2>5, <2>6, InsertFresh, OthersDraw DEF BooksInv
<1> QED  BY <1>2, <1>3

\* The delivered units are a layer of the delivery's own.
LEMMA ReceiveDraws ==
    ASSUME BooksInv, StockInv, NEW t \in Txns, Receive(t)
    PROVE  StockInv'
<1> DEFINE row == Layer(t, Line(t).v)
<1>1. pc[t] = "receive" /\ pc[t] \in Steps
  BY DEF Receive, Steps
<1>2. CASE Wait(t, {Pool(Line(t).v)})
  BY <1>1, <1>2, WaitDraws
<1>3. CASE ~Wait(t, {Pool(Line(t).v)})
  <2>1. /\ Lock(t, {Pool(Line(t).v)}) /\ Insert(row, Line(t).n, NewCost)
        /\ pc' = [pc EXCEPT ![t] = "settle"] /\ UNCHANGED <<kind, doc, line, drawn>>
    BY <1>3 DEF Receive, Goto, docVars
  <2>2. kind[t] \in StockKinds
    BY <1>1 DEF BooksInv, TxnInv, StepsOf, Steps, ShapeInv, Kinds, StockKinds
  <2>3. /\ held' = [held EXCEPT ![t] = held'[t]] /\ held[t] \subseteq held'[t]
        /\ want' = [want EXCEPT ![t] = {}] /\ want'[t] = {} /\ pc'[t] = "settle"
    BY <2>1, LockAdds DEF BooksInv, ShapeInv
  <2>4. Alone(t)
    BY <1>1, <2>1, <2>3 DEF Alone, StockInv
  <2>5. Line(t).n \in Nat
    <3>1. line[t] \in DOMAIN doc[t] /\ doc[t] \in Seq(Lines)
      BY <2>2, FirstLine DEF BooksInv, ShapeInv
    <3>2. doc[t][line[t]] \in Lines
      BY <3>1, LenProperties, ElementOfSeq
    <3> QED  BY <3>2 DEF Line, Lines
  <2>6. row[2] = t /\ row[3] = Line(t).v
    BY DEF Layer
  <2>7. row \notin DOMAIN drawn[t]
    <3> SUFFICES ASSUME row \in DOMAIN drawn[t] PROVE FALSE
      OBVIOUS
    <3>1. PICK i \in DOMAIN doc[t] : i < line[t] /\ doc[t][i].v = Line(t).v
      BY <1>1, <2>6 DEF StockInv, DrawInv, Drawing
    <3>2. i = line[t] /\ line[t] \in Nat
      BY <2>2, <3>1, OneLineEach, FirstLine DEF BooksInv
    <3> QED  BY <3>1, <3>2
  <2> HIDE DEF row
  <2>8. /\ RowInv' /\ DOMAIN stock \subseteq DOMAIN stock'
        /\ \A u \in Txns : \A r \in DOMAIN drawn[u] : stock'[r].qty = stock[r].qty
    BY <1>1, <2>1, <2>5, <2>6, <2>7, InsertFresh
  <2>9. Committed \subseteq Committed'
    BY <2>4 DEF Committed, Alone, Steps, BooksInv, ShapeInv
  <2>10. DrawInv(t)'
    BY <1>1, <2>1, <2>3, <2>8, <2>9 DEF StockInv, DrawInv, Drawing, Drawable
  <2>11. LineInv(t)'
    BY <2>1 DEF StockInv, LineInv
  <2> QED  BY <2>4, <2>8, <2>10, <2>11, OthersDraw DEF BooksInv
<1> QED  BY <1>2, <1>3

\* Once a line's rows are drawn from, the line is behind.
LEMMA LineDraws ==
    ASSUME BooksInv, StockInv, NEW t \in Txns, kind[t] \in StockKinds, pc[t] \in Drawing,
           Alone(t), NEW got, DOMAIN drawn'[t] = DOMAIN drawn[t] \cup got,
           \A r \in got : Drawable(t, r) /\ r[3] = Line(t).v /\ r \in held'[t],
           \A r \in DOMAIN drawn'[t] : drawn'[t][r] \in 0..stock'[r].qty,
           held[t] \subseteq held'[t], want'[t] = {}, DOMAIN stock \subseteq DOMAIN stock',
           \/ pc'[t] \in Drawing /\ line'[t] = line[t] + 1
           \/ pc'[t] = "commit"
    PROVE  DrawInv(t)'
<1>1. Committed \subseteq Committed'
  BY DEF Committed, Alone, Steps, BooksInv, ShapeInv
<1>2. doc' = doc
  BY DEF Alone
<1>3. ASSUME NEW r \in DOMAIN drawn'[t]
      PROVE  Drawable(t, r)' /\ r \in held'[t]
  BY <1>1 DEF StockInv, DrawInv, Drawable
<1>4. ASSUME NEW r \in DOMAIN drawn'[t], pc'[t] \in Drawing, r[2] = t
      PROVE  \E i \in DOMAIN doc[t] : i < line'[t] /\ doc[t][i].v = r[3]
  <2>1. line'[t] = line[t] + 1 /\ line[t] \in Nat /\ line[t] \in DOMAIN doc[t]
    BY <1>4, FirstLine DEF Drawing, BooksInv
  <2>2. CASE r \in DOMAIN drawn[t]
    <3>1. PICK i \in DOMAIN doc[t] : i < line[t] /\ doc[t][i].v = r[3]
      BY <1>4, <2>2 DEF StockInv, DrawInv
    <3>2. i \in Nat
      BY FirstLine DEF BooksInv
    <3> QED  BY <2>1, <3>1, <3>2
  <2>3. CASE r \in got
    BY <2>1, <2>3 DEF Line
  <2> QED  BY <2>2, <2>3
<1> QED  BY <1>2, <1>3, <1>4 DEF DrawInv, Drawing

\* Units go out of the layers; those no layer covers make a hole, on whose item
\* the document has no other line.
LEMMA ConsumeDraws ==
    ASSUME BooksInv, StockInv, NEW t \in Txns, Consume(t)
    PROVE  StockInv'
<1> DEFINE v == Line(t).v
           rows == OpenRows(t, "layer", v)
           got == Got(t, rows)
           draw == Draw(t, got, Line(t).n)
           short == Line(t).n - Units(t, got)
<1>1. pc[t] = "consume" /\ pc[t] \in Steps
  BY DEF Consume, Steps
<1>2. kind[t] \in StockKinds
  BY <1>1 DEF BooksInv, TxnInv, StepsOf, Steps, ShapeInv, Kinds, StockKinds
<1>3. \A r \in rows : Drawable(t, r) /\ r[3] = v /\ r[1] = "layer"
  BY DEF OpenRows, Drawable
<1>4. CASE Wait(t, rows)
  BY <1>1, <1>3, <1>4, WaitDraws
<1>5. CASE ~Wait(t, rows)
  <2>1. PICK guess : /\ Lock(t, rows) /\ drawn' = DrawnToo(t, draw)
                     /\ IF short \in 1..Line(t).n THEN Insert(Hole(t, v), short, guess)
                                                   ELSE UNCHANGED stock
                     /\ NextLine(t, "consume", "commit") /\ UNCHANGED docVars
    BY <1>5 DEF Consume
  <2>2. \A r \in got : /\ Drawable(t, r) /\ r[3] = v /\ Left(t, r) \in Nat
                       /\ r \in Asked(t, rows) /\ r[1] = "layer"
    BY <1>1, <1>3, AskedDrawable
  <2>3. DOMAIN draw = got /\ \A r \in got : draw[r] \in 0..Left(t, r)
    BY <2>2, DrawWithin DEF Draw
  <2>4. /\ held' = [held EXCEPT ![t] = held'[t]]
        /\ held'[t] = held[t] \cup Asked(t, rows)
        /\ want' = [want EXCEPT ![t] = {}] /\ want'[t] = {}
    BY <2>1, LockAdds DEF BooksInv, ShapeInv
  <2> HIDE DEF v, rows, got, draw, short
  <2>5. /\ drawn' = [drawn EXCEPT ![t] = drawn'[t]]
        /\ DOMAIN drawn'[t] = DOMAIN drawn[t] \cup got
        /\ \A r \in DOMAIN drawn'[t] : drawn'[t][r] \in 0..stock[r].qty
    BY <2>1, <2>2, <2>3, DrawnTooWithin
  <2>6. /\ pc' = [pc EXCEPT ![t] = pc'[t]] /\ line' = [line EXCEPT ![t] = line'[t]]
        /\ LineInv(t)'
        /\ \/ pc'[t] = "consume" /\ line'[t] = line[t] + 1
           \/ pc'[t] = "commit" /\ line'[t] = 1
    BY <1>2, <2>1, NextLineMoves DEF BooksInv
  <2>7. Alone(t)
    BY <1>1, <2>1, <2>4, <2>5, <2>6 DEF Alone, docVars
  <2>8. Hole(t, v) \notin DOMAIN drawn[t] /\ Hole(t, v) \notin DOMAIN drawn'[t]
    <3>1. Hole(t, v)[1] = "hole" /\ Hole(t, v)[2] = t /\ Hole(t, v)[3] = v
      BY DEF Hole
    <3>2. Hole(t, v) \notin got
      BY <2>2, <3>1
    <3>3. ASSUME Hole(t, v) \in DOMAIN drawn[t] PROVE FALSE
      <4>1. PICK i \in DOMAIN doc[t] : i < line[t] /\ doc[t][i].v = Line(t).v
        BY <1>1, <3>1, <3>3 DEF StockInv, DrawInv, Drawing, v
      <4>2. i = line[t] /\ line[t] \in Nat
        BY <1>2, <4>1, OneLineEach, FirstLine DEF BooksInv
      <4> QED  BY <4>1, <4>2
    <3> QED  BY <2>5, <3>2, <3>3
  <2>9. /\ RowInv' /\ DOMAIN stock \subseteq DOMAIN stock'
        /\ \A u \in Txns : \A r \in DOMAIN drawn[u] : stock'[r].qty = stock[r].qty
        /\ \A r \in DOMAIN drawn'[t] : stock'[r].qty = stock[r].qty
    <3>1. \A r \in DOMAIN drawn'[t] : r \in DOMAIN stock
      BY <2>2, <2>5 DEF StockInv, DrawInv, Drawable
    <3>2. CASE short \in 1..Line(t).n
      <4>1. Hole(t, v)[2] = t /\ Insert(Hole(t, v), short, guess) /\ short \in Nat
        BY <2>1, <3>2 DEF Hole
      <4>2. /\ RowInv' /\ DOMAIN stock \subseteq DOMAIN stock'
            /\ \A u \in Txns : \A r \in DOMAIN drawn[u] : stock'[r].qty = stock[r].qty
            /\ \A r \in DOMAIN stock : r # Hole(t, v) => stock'[r] = stock[r]
        BY <1>1, <2>8, <4>1, InsertFresh
      <4> QED  BY <2>8, <3>1, <4>2
    <3>3. CASE short \notin 1..Line(t).n
      BY <2>1, <3>3 DEF StockInv, RowInv
    <3> QED  BY <3>2, <3>3
  <2>10. DrawInv(t)'
    <3>1. \A r \in got : r \in held'[t] /\ r[3] = Line(t).v
      BY <2>2, <2>4 DEF v
    <3>2. \A r \in DOMAIN drawn'[t] : drawn'[t][r] \in 0..stock'[r].qty
      BY <2>5, <2>9
    <3> QED
      BY <1>1, <1>2, <2>2, <2>4, <2>5, <2>6, <2>7, <2>9, <3>1, <3>2, LineDraws DEF Drawing
  <2> QED  BY <2>6, <2>7, <2>9, <2>10, OthersDraw DEF BooksInv
<1> QED  BY <1>4, <1>5

\* The holes a delivery settles, and the layers that settle them.
LEMMA SettleDraws ==
    ASSUME BooksInv, StockInv, NEW t \in Txns, Settle(t)
    PROVE  StockInv'
<1> DEFINE v == Line(t).v
           holes == OpenRows(t, "hole", v)
           rows == IF holes = {} THEN {} ELSE holes \cup OpenRows(t, "layer", v)
           got == Got(t, rows)
           owed == {r \in got : r[1] = "hole"}
           shelf == got \ owed
           n == Min({Units(t, owed), Units(t, shelf)})
           draw == [r \in got |-> IF r \in owed THEN Draw(t, owed, n)[r]
                                                ELSE Draw(t, shelf, n)[r]]
<1>1. pc[t] = "settle" /\ pc[t] \in Steps
  BY DEF Settle, Steps
<1>2. kind[t] \in StockKinds
  BY <1>1 DEF BooksInv, TxnInv, StepsOf, Steps, ShapeInv, Kinds, StockKinds
<1>3. \A r \in rows : Drawable(t, r) /\ r[3] = v
  BY DEF OpenRows, Drawable
<1>4. CASE Wait(t, rows)
  BY <1>1, <1>3, <1>4, WaitDraws
<1>5. CASE ~Wait(t, rows)
  <2>1. /\ Lock(t, rows) /\ drawn' = DrawnToo(t, draw)
        /\ NextLine(t, "receive", "commit") /\ UNCHANGED <<stock, kind, doc, of>>
    BY <1>5 DEF Settle, rowVars, docVars
  <2>2. \A r \in got : /\ Drawable(t, r) /\ r[3] = v /\ Left(t, r) \in Nat
                       /\ r \in Asked(t, rows)
    BY <1>1, <1>3, AskedDrawable
  <2>3. DOMAIN draw = got /\ \A r \in got : draw[r] \in 0..Left(t, r)
    <3>1. \A r \in owed : Draw(t, owed, n)[r] \in 0..Left(t, r)
      BY <2>2, DrawWithin
    <3>2. \A r \in shelf : Draw(t, shelf, n)[r] \in 0..Left(t, r)
      BY <2>2, DrawWithin
    <3>3. got = owed \cup shelf
      OBVIOUS
    <3> HIDE DEF owed, shelf, n, got
    <3> QED  BY <3>1, <3>2, <3>3
  <2>4. /\ held' = [held EXCEPT ![t] = held'[t]]
        /\ held'[t] = held[t] \cup Asked(t, rows)
        /\ want' = [want EXCEPT ![t] = {}] /\ want'[t] = {}
    BY <2>1, LockAdds DEF BooksInv, ShapeInv
  <2> HIDE DEF v, rows, got, draw
  <2>5. /\ drawn' = [drawn EXCEPT ![t] = drawn'[t]]
        /\ DOMAIN drawn'[t] = DOMAIN drawn[t] \cup got
        /\ \A r \in DOMAIN drawn'[t] : drawn'[t][r] \in 0..stock[r].qty
    BY <2>1, <2>2, <2>3, DrawnTooWithin
  <2>6. /\ pc' = [pc EXCEPT ![t] = pc'[t]] /\ line' = [line EXCEPT ![t] = line'[t]]
        /\ LineInv(t)'
        /\ \/ pc'[t] = "receive" /\ line'[t] = line[t] + 1
           \/ pc'[t] = "commit" /\ line'[t] = 1
    BY <1>2, <2>1, NextLineMoves DEF BooksInv, docVars
  <2>7. Alone(t)
    BY <1>1, <2>1, <2>4, <2>5, <2>6 DEF Alone
  <2>8. RowInv'
    BY <2>1 DEF StockInv, RowInv
  <2>9. DrawInv(t)'
    <3>1. \A r \in got : r \in held'[t] /\ r[3] = Line(t).v
      BY <2>2, <2>4 DEF v
    <3> QED
      BY <1>1, <1>2, <2>1, <2>2, <2>4, <2>5, <2>6, <2>7, <3>1, LineDraws DEF Drawing
  <2> QED  BY <2>1, <2>6, <2>7, <2>8, <2>9, OthersDraw DEF BooksInv
<1> QED  BY <1>4, <1>5

\* A commit takes out of each row what was drawn of it, which is there.
LEMMA CommitTakesOut ==
    ASSUME StockInv, NEW t \in Txns, Commit(t)
    PROVE  /\ DOMAIN stock' = DOMAIN stock
           /\ \A r \in DOMAIN stock :
                 /\ stock'[r] = [qty |-> stock[r].qty - Drawn(t, r), cost |-> stock[r].cost]
                 /\ stock'[r].qty = stock[r].qty - Drawn(t, r)
                 /\ stock'[r].cost = stock[r].cost
                 /\ stock'[r].qty \in Nat
                 /\ Drawn(t, r) = 0 => stock'[r].qty = stock[r].qty
<1>1. stock' = [r \in DOMAIN stock |-> [stock[r] EXCEPT !.qty = @ - Drawn(t, r)]]
  BY DEF Commit
<1>2. \A r \in DOMAIN stock : Drawn(t, r) \in 0..stock[r].qty /\ stock[r].qty \in Nat
  <2>1. \A r \in DOMAIN stock : stock[r].qty \in Nat
    BY DEF StockInv, RowInv
  <2> QED  BY <2>1 DEF Drawn, StockInv, DrawInv
<1>3. \A r \in DOMAIN stock :
         stock'[r] = [qty |-> stock[r].qty - Drawn(t, r), cost |-> stock[r].cost]
  BY <1>1 DEF StockInv, RowInv
<1>4. /\ DOMAIN stock' = DOMAIN stock
      /\ \A r \in DOMAIN stock : /\ stock'[r].qty = stock[r].qty - Drawn(t, r)
                                 /\ stock'[r].cost = stock[r].cost
                                 /\ stock'[r].qty \in Nat
                                 /\ Drawn(t, r) = 0 => stock'[r].qty = stock[r].qty
  <2>1. DOMAIN stock' = DOMAIN stock
    BY <1>1
  <2> SUFFICES ASSUME NEW r \in DOMAIN stock
        PROVE  /\ stock'[r].qty = stock[r].qty - Drawn(t, r)
               /\ stock'[r].cost = stock[r].cost
               /\ stock'[r].qty \in Nat
               /\ Drawn(t, r) = 0 => stock'[r].qty = stock[r].qty
    BY <2>1
  <2>2. stock'[r].qty = stock[r].qty - Drawn(t, r) /\ stock'[r].cost = stock[r].cost
    <3> DEFINE left == stock[r].qty - Drawn(t, r)
               cost == stock[r].cost
    <3>1. stock'[r] = [qty |-> left, cost |-> cost]
      BY <1>3
    <3> HIDE DEF left, cost
    <3>2. stock'[r].qty = left /\ stock'[r].cost = cost
      BY <3>1
    <3> QED  BY <3>2 DEF left, cost
  <2> DEFINE was == stock[r].qty
  <2>3. was \in Nat /\ Drawn(t, r) \in 0..was
    BY <1>2
  <2> HIDE DEF was
  <2>4. was - Drawn(t, r) \in Nat /\ (Drawn(t, r) = 0 => was - Drawn(t, r) = was)
    BY <2>3
  <2> QED  BY <2>2, <2>4 DEF was
<1> QED  BY <1>3, <1>4

\* A commit takes what was drawn; the rows it drew from are its own to take
\* from, for it holds them.
LEMMA CommitDraws ==
    ASSUME BooksInv, StockInv, NEW t \in Txns, Commit(t)
    PROVE  StockInv'
<1>1. /\ stock' = [r \in DOMAIN stock |-> [stock[r] EXCEPT !.qty = @ - Drawn(t, r)]]
      /\ UNCHANGED <<kind, doc>> /\ pc[t] = "commit"
      /\ pc' = [pc EXCEPT ![t] = "committed"]
      /\ held' = [held EXCEPT ![t] = {}] /\ want' = [want EXCEPT ![t] = {}]
      /\ line' = [line EXCEPT ![t] = 1] /\ drawn' = [drawn EXCEPT ![t] = << >>]
  BY DEF Commit, End, Goto, docVars
<1>2. /\ pc'[t] = "committed" /\ line'[t] = 1 /\ drawn'[t] = << >> /\ Alone(t)
  BY <1>1 DEF BooksInv, ShapeInv, StockInv, Alone, Steps
<1>3. DOMAIN drawn'[t] = {}
  <2>1. drawn'[t] = << >>
    BY <1>2
  <2> QED  BY <2>1, NothingDrawn, Zenon
<1>4. LineInv(t)' /\ DrawInv(t)'
  <2>1. kind[t] \in StockKinds => 1 \in DOMAIN doc[t] /\ doc[t] \in Documents
    BY FirstLine DEF BooksInv
  <2> QED  BY <1>1, <1>2, <1>3, <2>1 DEF LineInv, DrawInv, Drawing
<1>5. /\ DOMAIN stock' = DOMAIN stock
      /\ \A r \in DOMAIN stock :
            /\ stock'[r] = [qty |-> stock[r].qty - Drawn(t, r), cost |-> stock[r].cost]
            /\ stock'[r].qty = stock[r].qty - Drawn(t, r)
            /\ stock'[r].cost = stock[r].cost
            /\ stock'[r].qty \in Nat
            /\ Drawn(t, r) = 0 => stock'[r].qty = stock[r].qty
  BY CommitTakesOut
<1>6. RowInv'
  BY <1>5 DEF RowInv
<1>7. ASSUME NEW u \in Txns \ {t}, NEW r \in DOMAIN drawn[u]
      PROVE  stock'[r].qty = stock[r].qty
  <2>1. r \in held[u] /\ r \in DOMAIN stock /\ r[1] \in {"layer", "hole"}
    BY DEF StockInv, DrawInv, Drawable
  <2>2. r \notin held[t]
    BY <2>1 DEF BooksInv, LockInv, Conflict
  <2>3. Drawn(t, r) = 0
    BY <2>2 DEF Drawn, StockInv, DrawInv
  <2> QED  BY <1>5, <2>1, <2>3
<1> QED  BY <1>2, <1>4, <1>5, <1>6, <1>7, OthersDraw DEF BooksInv

\* A transaction begins on its document's first line, with nothing drawn.
LEMMA BeginDraws ==
    ASSUME BooksInv, StockInv, NEW t \in Txns, NEW k \in Kinds, NEW d, NEW u,
           Begins(t, k, d, u),
           k \in StockKinds => d \in Documents
    PROVE  StockInv'
<1> DEFINE first == CASE k = "issue" -> "consume" [] k = "delivery" -> "receive"
                      [] OTHER -> "session"
<1>1. /\ pc[t] = "none" /\ UNCHANGED <<stock, held, want, line, drawn>>
      /\ kind' = [kind EXCEPT ![t] = k] /\ doc' = [doc EXCEPT ![t] = d]
      /\ pc' = [pc EXCEPT ![t] = first]
  BY DEF Begins, Goto, rowVars
<1>2. first \in Steps
  BY DEF Steps
<1> HIDE DEF first
<1>3. /\ \A s \in Txns \ {t} : pc'[s] = pc[s] /\ kind'[s] = kind[s] /\ doc'[s] = doc[s]
      /\ pc'[t] = first /\ kind'[t] = k /\ doc'[t] = d
  BY <1>1 DEF BooksInv, ShapeInv
<1>4. DOMAIN drawn[t] = {} /\ line[t] = 1 /\ want[t] = {}
  BY <1>1 DEF StockInv, DrawInv, LineInv, Drawing, BooksInv, TxnInv, Steps
<1>5. Committed' = Committed
  BY <1>1, <1>2, <1>3 DEF Committed, Steps
<1>6. k # "none"
  BY DEF Kinds
<1>7. LineInv(t)'
  <2> SUFFICES ASSUME k \in StockKinds PROVE 1 \in DOMAIN d /\ d \in Documents
    BY <1>1, <1>3, <1>4, <1>6 DEF LineInv
  <2>1. d \in Seq(Lines) /\ d # << >>
    BY BooksAssumption DEF Lines
  <2> QED  BY <2>1, EmptySeq, LenProperties
<1>8. DrawInv(t)'
  BY <1>1, <1>3, <1>4 DEF DrawInv
<1>9. ASSUME NEW s \in Txns \ {t} PROVE LineInv(s)' /\ DrawInv(s)'
  <2>1. LineInv(s) /\ DrawInv(s)
    BY DEF StockInv
  <2>2. \A r : Drawable(s, r)' <=> Drawable(s, r)
    BY <1>1, <1>5 DEF Drawable
  <2>3. Line(s)' = Line(s)
    BY <1>1, <1>3 DEF Line
  <2> QED  BY <1>1, <1>3, <2>1, <2>2, <2>3 DEF LineInv, DrawInv
<1>10. RowInv'
  BY <1>1 DEF StockInv, RowInv
<1> QED  BY <1>1, <1>7, <1>8, <1>9, <1>10 DEF StockInv

\* Rows locked before they are drawn from are drawn from by one transaction at
\* a time, and never past what is left of them.
THEOREM StockCorrect == Spec => []StockInv
<1>1. Init => StockInv
  BY InitStock
<1>2. BooksInv /\ StockInv /\ [Next]_vars => StockInv'
  <2> SUFFICES ASSUME BooksInv, StockInv, [Next]_vars PROVE StockInv'
    OBVIOUS
  <2>1. CASE UNCHANGED vars \/ OpenSession
    <3>1. UNCHANGED <<stock, kind, doc, pc, line, held, want, drawn>>
      BY <2>1 DEF vars, rowVars, docVars, txnVars, OpenSession
    <3>2. Committed' = Committed
      BY <3>1 DEF Committed
    <3>3. \A t : Line(t)' = Line(t)
      BY <3>1 DEF Line
    <3>4. \A t, r : Drawable(t, r)' <=> Drawable(t, r)
      BY <3>1, <3>2 DEF Drawable
    <3> QED  BY <3>1, <3>3, <3>4 DEF StockInv, RowInv, LineInv, DrawInv
  <2>2. ASSUME NEW t \in Txns, BeginStock(t)
        PROVE  StockInv'
    <3>1. PICK k \in {"sale", "issue", "delivery"}, d \in Documents : Begins(t, k, d, 0)
      BY <2>2 DEF BeginStock
    <3>2. k \in Kinds
      BY DEF Kinds
    <3> QED  BY <3>1, <3>2, BeginDraws
  <2>3. ASSUME NEW t \in Txns, BeginCash(t) \/ BeginReturn(t)
        PROVE  StockInv'
    <3>1. PICK k \in {"movement", "close", "return"} : \E d, u : Begins(t, k, d, u)
      BY <2>3 DEF BeginCash, BeginReturn
    <3>2. PICK d, u : Begins(t, k, d, u)
      BY <3>1
    <3>3. k \in Kinds /\ k \notin StockKinds
      BY DEF Kinds, StockKinds
    <3> QED  BY <3>2, <3>3, BeginDraws
  <2>4. ASSUME NEW t \in Txns, Step(t)
        PROVE  StockInv'
    BY <2>4, TakeSessionDraws, CountAndNumberDraw, LockStockDraws, ConsumeDraws,
       ReceiveDraws, SettleDraws, RestoreDraws, CommitDraws DEF Step
  <2>5. ASSUME NEW t \in Txns, Rollback(t) \/ Victim(t)
        PROVE  StockInv'
    <3>1. t \in Running
      BY <2>5 DEF Rollback, Victim, BooksInv, TxnInv, Running
    <3>2. pc[t] \in Steps /\ End(t, "rolled back") /\ UNCHANGED <<rowVars, docVars>>
      BY <2>5, <3>1 DEF Rollback, Victim, Running
    <3> QED  BY <3>2, GiveUpDraws
  <2> QED  BY <2>1, <2>2, <2>3, <2>4, <2>5 DEF Next
<1> QED  BY <1>1, <1>2, BooksCorrect, PTL DEF Spec

\* No layer is drawn below nothing and no hole settled twice over, however many
\* documents run at once (store.go:506, shortfall.go:190).
THEOREM DrawnOnceHolds == Spec => []DrawnOnce
<1>1. StockInv => DrawnOnce
  BY DEF StockInv, RowInv, DrawnOnce
<1> QED  BY <1>1, StockCorrect, PTL
=============================================================================
