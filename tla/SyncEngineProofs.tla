-------------------------- MODULE SyncEngineProofs --------------------------
(***************************************************************************)
(* The server's side of the offline queue, for any number of sales,        *)
(* numbers, keys and concurrent pushes, and whatever is pushed: a sale is  *)
(* in the books once, the invoice numbers have no gap, a verdict of        *)
(* sync_item stands, and the cursor vouches for what it passes.            *)
(***************************************************************************)
EXTENDS SyncEngine, FiniteSetTheorems, WellFoundedInduction, TLAPS

USE SaleAssumption, EngineAssumption

SessionRecord == [phase : Phases, key : Keys \cup {NoKey},
           items : [Seqs -> Sales \cup {NoSale}],
           verdict : [Seqs -> Verdicts \cup {Unheard}],
           rung : SUBSET [uuid : Sales, no : Nat \ {0}], upto : 0..MaxSeq,
           counted : SUBSET Seqs]

ItemRow == [uuid : Sales \cup {NoSale}, batch : Keys \cup {NoKey},
        state : Verdicts \cup {"none"}]

-----------------------------------------------------------------------------
(* Least and greatest numbers, which the searches below rest on.           *)

\* A non-empty set of naturals has a least element: the initial segments up
\* to its members are finite sets, well founded under strict inclusion.
LEMMA LeastElement ==
    ASSUME NEW T, T \subseteq Nat, T # {}
    PROVE  \E x \in T : \A y \in T : x =< y
<1> DEFINE U == {1..n : n \in T}
<1>1. IsWellFoundedOn(StrictSubsetOrdering(Nat), FiniteSubsetsOf(Nat))
  BY FS_StrictSubsetOrderingWellFounded
<1>2. \A n \in T : 1..n \in FiniteSubsetsOf(Nat)
  BY FS_Interval DEF FiniteSubsetsOf
<1>3. U \subseteq FiniteSubsetsOf(Nat) /\ U # {}
  BY <1>2
<1>4. PICK I \in U : \A J \in U : ~(<<J, I>> \in StrictSubsetOrdering(Nat))
  BY <1>1, <1>3, WFMin
<1>5. PICK x \in T : I = 1..x
  OBVIOUS
<1>6. ASSUME NEW y \in T, y < x PROVE FALSE
  <2>1. (1..y) \subseteq (1..x) /\ x \in 1..x /\ x \notin 1..y
    BY <1>6
  <2>2. <<1..y, 1..x>> \in StrictSubsetOrdering(Nat)
    BY <1>2, <2>1 DEF StrictSubsetOrdering, FiniteSubsetsOf
  <2> QED BY <1>4, <1>5, <2>2
<1> QED BY <1>6

\* A non-empty set of naturals with an upper bound has a greatest element.
LEMMA GreatestElement ==
    ASSUME NEW n \in Nat, NEW T, T \subseteq 0..n, T # {}
    PROVE  \E x \in T : \A y \in T : y =< x
<1> DEFINE U == {n - x : x \in T}
<1>1. U \subseteq Nat /\ U # {}
  <2>1. \A x \in T : n - x \in Nat
    OBVIOUS
  <2> QED BY <2>1
<1>2. PICK d \in U : \A e \in U : d =< e
  BY <1>1, LeastElement
<1>3. PICK x \in T : d = n - x
  OBVIOUS
<1>4. \A y \in T : n - x =< n - y
  BY <1>2, <1>3
<1> QED BY <1>4

-----------------------------------------------------------------------------
(* The two searches of advanceCursor.                                      *)

\* Contiguous is the last number of the settled run that starts at 1.
LEMMA ContiguousIsRun ==
    ASSUME NEW table \in [Seqs -> ItemRow]
    PROVE  /\ Contiguous(table) \in 0..MaxSeq
           /\ \A q \in 1..Contiguous(table) : table[q].state \in Settled
<1> DEFINE T == {n \in 0..MaxSeq :
                    n = MaxSeq \/ table[n + 1].state \notin Settled}
<1>1. MaxSeq \in T /\ T \subseteq Nat
  OBVIOUS
<1>2. PICK n \in T : \A m \in T : n =< m
  BY <1>1, LeastElement
<1>3. ASSUME NEW q \in 1..n PROVE table[q].state \in Settled
  <2>1. (q - 1) \in 0..MaxSeq /\ (q - 1) \notin T
    BY <1>2
  <2> QED BY <2>1
<1> QED BY <1>2, <1>3 DEF Contiguous

\* Highest is the last number that has a row.
LEMMA HighestIsLast ==
    ASSUME NEW table \in [Seqs -> ItemRow]
    PROVE  /\ Highest(table) \in 0..MaxSeq
           /\ \A q \in Seqs : table[q].state # "none" => q =< Highest(table)
<1> DEFINE T == {0} \cup {n \in Seqs : table[n].state # "none"}
<1>1. T \subseteq 0..MaxSeq /\ T # {} /\ MaxSeq \in Nat
  BY DEF Seqs
<1>2. PICK n \in T : \A m \in T : m =< n
  BY <1>1, GreatestElement
<1>3. \A q \in (n + 1)..MaxSeq : table[q].state = "none"
  BY <1>1, <1>2 DEF Seqs
<1>4. n \in 0..MaxSeq /\ (n = 0 \/ table[n].state # "none")
  BY <1>1
<1>5. /\ Highest(table) \in 0..MaxSeq
      /\ \A q \in (Highest(table) + 1)..MaxSeq : table[q].state = "none"
  BY <1>3, <1>4 DEF Highest
<1> QED BY <1>5 DEF Seqs

-----------------------------------------------------------------------------
(* Types.                                                                  *)

\* A push is served by changing its own session, and only a commit changes
\* the tables.
Private(s) ==
    /\ \E r \in SessionRecord : session' = [session EXCEPT ![s] = r]
    /\ UNCHANGED <<invoices, lastNo, item, batches, cursor>>

RungFinite == \A s \in Sessions : IsFiniteSet(session[s].rung)

LEMMA WrittenType ==
    ASSUME EngineTypeOK, NEW s \in Sessions
    PROVE  /\ Written(s) \in [Seqs -> ItemRow]
           /\ \A q \in Seqs : item[q].state \in Settled => Written(s)[q] = item[q]
BY DEF Written, EngineTypeOK, ItemRow, Recorded, Unheard, Verdicts, Settled

LEMMA SessionType ==
    ASSUME EngineTypeOK, NEW s \in Sessions
    PROVE  session[s] \in SessionRecord
BY DEF EngineTypeOK, SessionRecord

LEMMA FreeType == Free \in SessionRecord
BY DEF Free, SessionRecord, Phases, NoItems, NoVerdict, Seqs, Unheard

LEMMA EngineTypeInit == EngineInit => EngineTypeOK /\ RungFinite
<1> SUFFICES ASSUME EngineInit PROVE EngineTypeOK /\ RungFinite
  OBVIOUS
<1>1. EngineTypeOK
  BY FreeType DEF EngineInit, EngineTypeOK, SessionRecord, NoItem
<1>2. RungFinite
  BY FS_EmptySet DEF EngineInit, RungFinite, Free
<1> QED BY <1>1, <1>2

LEMMA ReceiveType ==
    ASSUME EngineTypeOK, NEW s \in Sessions, NEW p \in AnyPush,
           Receive(s, p[1], p[2])
    PROVE  Private(s) /\ session'[s].rung = {}
<1> DEFINE r == [Free EXCEPT !.phase = "received", !.key = p[1], !.items = p[2]]
<1>1. r \in SessionRecord /\ r.rung = {}
  BY FreeType DEF SessionRecord, Free, AnyPush, Phases
<1>2. session' = [session EXCEPT ![s] = r]
  BY DEF Receive
<1> QED BY <1>1, <1>2 DEF Private, Receive, EngineTypeOK

LEMMA LookupType ==
    ASSUME EngineTypeOK, NEW s \in Sessions,
           Replay(s) \/ FirstSeen(s) \/ Begin(s)
    PROVE  Private(s) /\ session'[s].rung = session[s].rung
<1>1. CASE Replay(s)
  <2> DEFINE v == [q \in Seqs |-> IF item[q].batch = session[s].key
                                  THEN item[q].state ELSE Unheard]
             r == [session[s] EXCEPT !.phase = "replied", !.verdict = v]
  <2>1. v \in [Seqs -> Verdicts \cup {Unheard}]
    BY DEF EngineTypeOK, Unheard
  <2> HIDE DEF v
  <2>2. r \in SessionRecord /\ r.rung = session[s].rung
    BY <2>1, SessionType DEF SessionRecord, Phases
  <2>3. session' = [session EXCEPT ![s] = r]
    BY <1>1 DEF Replay, EngineTypeOK, v
  <2> QED BY <1>1, <2>2, <2>3 DEF Private, Replay, EngineTypeOK
<1>2. CASE FirstSeen(s) \/ Begin(s)
  <2>1. PICK ph \in Phases : session' = [session EXCEPT ![s].phase = ph]
    BY <1>2 DEF FirstSeen, Begin, Phases
  <2> DEFINE r == [session[s] EXCEPT !.phase = ph]
  <2>2. r \in SessionRecord /\ r.rung = session[s].rung
    BY SessionType DEF SessionRecord, Phases
  <2>3. session' = [session EXCEPT ![s] = r]
    BY <2>1 DEF EngineTypeOK
  <2> QED BY <1>2, <2>2, <2>3 DEF Private, FirstSeen, Begin, EngineTypeOK
<1> QED BY <1>1, <1>2

\* The steps of applyOne, and of the end of the transaction, in the same form.
LEMMA VerdictType ==
    ASSUME EngineTypeOK, NEW s \in Sessions, NEW q \in Seqs, NEW v \in Verdicts,
           Verdict(s, q, v), UNCHANGED <<invoices, lastNo, item, batches, cursor>>
    PROVE  Private(s) /\ session'[s].rung = session[s].rung
<1> DEFINE r == [session[s] EXCEPT !.phase = "check",
                                   !.verdict = [session[s].verdict EXCEPT ![q] = v],
                                   !.counted = Counted(s, q)]
<1>0. Counted(s, q) \in SUBSET Seqs
  BY SessionType DEF Counted, SessionRecord
<1>1. r \in SessionRecord /\ r.rung = session[s].rung
  BY <1>0, SessionType DEF SessionRecord, Phases
<1>2. session' = [session EXCEPT ![s] = r]
  BY DEF Verdict, EngineTypeOK
<1> QED BY <1>1, <1>2 DEF Private, EngineTypeOK

LEMMA RingType ==
    ASSUME EngineTypeOK, RungFinite, NEW s \in Sessions, NEW q \in Seqs, Ring(s, q)
    PROVE  /\ Private(s)
           /\ session[s].items[q] \in Sales
           /\ session'[s].rung = session[s].rung \cup
                 {[uuid |-> session[s].items[q],
                   no |-> lastNo + Cardinality(session[s].rung) + 1]}
<1> DEFINE x == [uuid |-> session[s].items[q],
                 no |-> lastNo + Cardinality(session[s].rung) + 1]
           r == [session[s] EXCEPT !.phase = "check",
                                   !.verdict = [session[s].verdict EXCEPT ![q] = "applied"],
                                   !.counted = Counted(s, q),
                                   !.rung = session[s].rung \cup {x}]
<1>0. Counted(s, q) \in SUBSET Seqs
  BY SessionType DEF Counted, SessionRecord
<1>1. session[s].items[q] \in Sales
  BY SessionType DEF Ring, IsNext, BatchSeqs, SeqsOf, SessionRecord
<1>2. Cardinality(session[s].rung) \in Nat
  BY FS_CardinalityType DEF RungFinite
<1>3. x \in [uuid : Sales, no : Nat \ {0}]
  BY <1>1, <1>2 DEF EngineTypeOK
<1> HIDE DEF x
<1>4. r \in SessionRecord /\ r.rung = session[s].rung \cup {x}
  BY <1>0, <1>3, SessionType DEF SessionRecord, Phases, Verdicts, Settled
<1>5. session' = [session EXCEPT ![s] = r]
  BY DEF Ring, EngineTypeOK, x
<1> QED BY <1>1, <1>4, <1>5 DEF Private, EngineTypeOK, Ring, x

LEMMA ApplyType ==
    ASSUME EngineTypeOK, RungFinite, NEW s \in Sessions, NEW q \in Seqs,
           ApplyOne(s, q), ~Ring(s, q)
    PROVE  Private(s) /\ session'[s].rung \in {{}, session[s].rung}
<1>1. CASE Block(s, q) \/ Refuse(s, q) \/ Recognise(s, q) \/ RingClash(s, q)
  BY <1>1, VerdictType DEF Block, Refuse, Recognise, RingClash, Verdicts, Settled
<1>2. CASE Admit(s, q)
  <2> DEFINE r == [session[s] EXCEPT !.phase = "ring"]
  <2>1. r \in SessionRecord /\ r.rung = session[s].rung
    BY SessionType DEF SessionRecord, Phases
  <2>2. session' = [session EXCEPT ![s] = r]
    BY <1>2 DEF Admit, EngineTypeOK
  <2> QED BY <1>2, <2>1, <2>2 DEF Private, EngineTypeOK, Admit
<1>3. CASE Poison(s, q)
  <2> DEFINE r == [Free EXCEPT !.phase = "errored"]
  <2>1. r \in SessionRecord /\ r.rung = {}
    BY FreeType DEF SessionRecord, Phases, Free
  <2> QED BY <1>3, <2>1 DEF Private, EngineTypeOK, Poison
<1> QED BY <1>1, <1>2, <1>3 DEF ApplyOne

LEMMA EndType ==
    ASSUME EngineTypeOK, NEW s \in Sessions, Abort(s) \/ Release(s)
    PROVE  Private(s) /\ session'[s].rung = {}
<1>1. PICK r \in {Free, [Free EXCEPT !.phase = "errored"]} :
         session' = [session EXCEPT ![s] = r]
  BY DEF Abort, Release
<1>2. r \in SessionRecord /\ r.rung = {}
  BY FreeType DEF SessionRecord, Phases, Free
<1> QED BY <1>1, <1>2 DEF Private, EngineTypeOK, Abort, Release

LEMMA ReadCursorType ==
    ASSUME EngineTypeOK, NEW s \in Sessions, ReadCursor(s)
    PROVE  /\ Private(s) /\ session'[s].rung = session[s].rung
           /\ session'[s].upto = Contiguous(Written(s))
<1> DEFINE n == Contiguous(Written(s))
           r == [session[s] EXCEPT !.phase = "cursor", !.upto = n]
<1>1. n \in 0..MaxSeq
  BY WrittenType, ContiguousIsRun
<1> HIDE DEF n
<1>2. r \in SessionRecord /\ r.rung = session[s].rung /\ r.upto = n
  BY <1>1, SessionType DEF SessionRecord, Phases
<1>3. session' = [session EXCEPT ![s] = r]
  BY DEF ReadCursor, EngineTypeOK, n
<1> QED BY <1>2, <1>3 DEF Private, EngineTypeOK, ReadCursor, n

-----------------------------------------------------------------------------
(* The books.  A transaction that has rung holds the counters, so one at a *)
(* time has, and what it rings continues the committed numbers.            *)

RungInOpen == \A s \in Sessions : session[s].rung # {} => Open(s)

Keyed == \A s \in Sessions :
    session[s].phase \notin {"idle", "errored"} => session[s].key \in Keys

OneRings ==
    \A s, t \in Sessions : session[s].rung # {} /\ session[t].rung # {} => s = t

NumbersFollow ==
    \A s \in Sessions :
        /\ {x.no : x \in session[s].rung} =
              (lastNo + 1)..(lastNo + Cardinality(session[s].rung))
        /\ \A x, y \in session[s].rung : x.no = y.no => x = y

BooksInv ==
    /\ EngineTypeOK
    /\ RungFinite
    /\ RungInOpen
    /\ Keyed
    /\ OneRings
    /\ NumbersFollow
    /\ NoSaleRungTwice
    /\ ChainUnbroken

\* Every step but ringing and committing: the books lose what a session drops.
Drops(s) ==
    /\ Private(s)
    /\ session'[s].rung \in {{}, session[s].rung}
    /\ session'[s].rung # {} => Open(s)'

Keeps(s) ==
    /\ Drops(s)
    /\ session'[s].phase \notin {"idle", "errored"} => session'[s].key \in Keys

EngineStepOf(s) ==
    \/ \E p \in AnyPush : Receive(s, p[1], p[2])
    \/ Serve(s) \/ Abort(s) \/ Release(s)

LEMMA KeyKept ==
    ASSUME EngineTypeOK, Keyed, NEW s \in Sessions, EngineStepOf(s)
    PROVE  session'[s].phase \notin {"idle", "errored"} => session'[s].key \in Keys
<1> DEFINE busy == session[s].phase \notin {"idle", "errored"}
           same == session'[s].key = session[s].key
<1>1. ASSUME NEW p \in AnyPush, Receive(s, p[1], p[2])
      PROVE  session'[s].key \in Keys
  BY <1>1 DEF Receive, AnyPush, EngineTypeOK
<1>2. CASE Replay(s) \/ FirstSeen(s) \/ Begin(s)
  <2>1. busy /\ same
    BY <1>2 DEF Replay, FirstSeen, Begin, EngineTypeOK
  <2> QED BY <2>1 DEF Keyed
<1>3. CASE ReadCursor(s) \/ Commit(s)
  <2>1. busy /\ same
    BY <1>3 DEF ReadCursor, Commit, EngineTypeOK
  <2> QED BY <2>1 DEF Keyed
<1>4. ASSUME NEW q \in Seqs, ApplyOne(s, q), ~Poison(s, q)
      PROVE  session'[s].key \in Keys
  <2>1. busy
    BY <1>4 DEF ApplyOne, Block, Refuse, Recognise, Admit, Ring, RingClash
  <2>2. CASE Block(s, q) \/ Refuse(s, q) \/ Recognise(s, q) \/ RingClash(s, q)
    <3>1. PICK v \in Verdicts : Verdict(s, q, v)
      BY <2>2 DEF Block, Refuse, Recognise, RingClash, Verdicts, Settled
    <3>2. same
      BY <3>1 DEF Verdict, EngineTypeOK
    <3> QED BY <2>1, <3>2 DEF Keyed
  <2>3. CASE Admit(s, q) \/ Ring(s, q)
    <3>1. same
      BY <2>3 DEF Admit, Ring, EngineTypeOK
    <3> QED BY <2>1, <3>1 DEF Keyed
  <2> QED BY <1>4, <2>2, <2>3 DEF ApplyOne
<1>5. CASE Abort(s) \/ Release(s) \/ \E q \in Seqs : Poison(s, q)
  BY <1>5 DEF Abort, Release, Poison, Free, EngineTypeOK
<1> QED BY <1>1, <1>2, <1>3, <1>4, <1>5 DEF EngineStepOf, Serve

LEMMA OtherStepsKeep ==
    ASSUME BooksInv, NEW s \in Sessions, EngineStepOf(s),
           ~Commit(s), \A q \in Seqs : ~Ring(s, q)
    PROVE  Keeps(s)
<1> USE DEF BooksInv
<1>1. ASSUME NEW p \in AnyPush, Receive(s, p[1], p[2]) PROVE Drops(s)
  BY <1>1, ReceiveType DEF Drops
<1>2. CASE Replay(s) \/ FirstSeen(s) \/ Begin(s)
  <2>1. session[s].rung = {}
    BY <1>2 DEF RungInOpen, Open, Replay, FirstSeen, Begin
  <2>2. Drops(s)
    BY <1>2, <2>1, LookupType DEF Drops
  <2> QED BY <2>2, KeyKept DEF Keeps
<1>3. ASSUME NEW q \in Seqs, ApplyOne(s, q) PROVE Drops(s)
  <2>1. CASE Poison(s, q)
    <3>1. session'[s].rung = {}
      BY <2>1 DEF Poison, Free, EngineTypeOK
    <3> QED BY <1>3, <3>1, ApplyType DEF Drops
  <2>2. CASE ~Poison(s, q)
    <3>1. session'[s].phase \in {"check", "ring"}
      BY <1>3, <2>2 DEF ApplyOne, Block, Refuse, Recognise, Admit, RingClash,
                        Verdict, EngineTypeOK
    <3> QED BY <1>3, <3>1, ApplyType DEF Drops, Open
  <2> QED BY <2>1, <2>2
<1>4. CASE ReadCursor(s)
  <2>1. session'[s].phase = "cursor"
    BY <1>4 DEF ReadCursor, EngineTypeOK
  <2>2. Drops(s)
    BY <1>4, <2>1, ReadCursorType DEF Drops, Open
  <2> QED BY <2>2, KeyKept DEF Keeps
<1>5. CASE Abort(s) \/ Release(s)
  <2>1. Drops(s)
    BY <1>5, EndType DEF Drops
  <2> QED BY <2>1, KeyKept DEF Keeps
<1> QED BY <1>1, <1>2, <1>3, <1>4, <1>5, KeyKept DEF EngineStepOf, Serve, Keeps

LEMMA KeepsBooks ==
    ASSUME BooksInv, NEW s \in Sessions, Keeps(s)
    PROVE  BooksInv'
<1> USE DEF BooksInv
<1>1. PICK r \in SessionRecord : session' = [session EXCEPT ![s] = r]
  BY DEF Keeps, Drops, Private
<1>2. /\ UNCHANGED <<invoices, lastNo, item, batches, cursor>>
      /\ session'[s].rung \in {{}, session[s].rung}
      /\ \A t \in Sessions \ {s} : session'[t] = session[t]
  BY <1>1 DEF Keeps, Drops, Private, EngineTypeOK
<1>3. EngineTypeOK'
  BY <1>1, <1>2 DEF EngineTypeOK, SessionRecord
<1>4. RungFinite'
  BY <1>2, FS_EmptySet DEF RungFinite
<1>5. RungInOpen' /\ Keyed'
  BY <1>2 DEF RungInOpen, Keyed, Keeps, Drops, Open
<1>6. OneRings'
  BY <1>2 DEF OneRings
<1>7. NumbersFollow'
  <2> SUFFICES ASSUME NEW t \in Sessions
               PROVE  /\ {x.no : x \in session'[t].rung} =
                            (lastNo + 1)..(lastNo + Cardinality(session'[t].rung))
                      /\ \A x, y \in session'[t].rung : x.no = y.no => x = y
    BY <1>2 DEF NumbersFollow
  <2>1. CASE session'[t].rung = {}
    BY <2>1, FS_EmptySet DEF EngineTypeOK
  <2>2. CASE session'[t].rung # {}
    BY <1>2, <2>2 DEF NumbersFollow
  <2> QED BY <2>1, <2>2
<1>8. Books' \subseteq Books
  BY <1>2 DEF Books
<1>9. NoSaleRungTwice' /\ ChainUnbroken'
  BY <1>2, <1>8 DEF NoSaleRungTwice, ChainUnbroken
<1> QED BY <1>3, <1>4, <1>5, <1>6, <1>7, <1>9

LEMMA NumbersOfUnion ==
    ASSUME NEW S, NEW z
    PROVE  {x.no : x \in S \cup {z}} = {x.no : x \in S} \cup {z.no}
OBVIOUS

LEMMA RingKeepsBooks ==
    ASSUME BooksInv, NEW s \in Sessions, NEW q \in Seqs, Ring(s, q)
    PROVE  BooksInv'
<1> USE DEF BooksInv
<1> DEFINE held == session[s].rung
           n == lastNo + Cardinality(held) + 1
           new == [uuid |-> session[s].items[q], no |-> n]
<1>1. /\ Private(s)
      /\ session[s].items[q] \in Sales
      /\ session'[s].rung = held \cup {new}
  BY RingType
<1>2. PICK r \in SessionRecord : session' = [session EXCEPT ![s] = r]
  BY <1>1 DEF Private
<1>3. /\ UNCHANGED <<invoices, lastNo, item, batches, cursor>>
      /\ \A t \in Sessions \ {s} : session'[t] = session[t]
      /\ \A t \in Sessions \ {s} : session[t].rung = {}
      /\ session'[s].phase = "check"
  BY <1>1, <1>2 DEF Private, EngineTypeOK, Ring, CounterLocked
<1>4. EngineTypeOK'
  BY <1>2, <1>3 DEF EngineTypeOK, SessionRecord
<1>5. IsFiniteSet(held) /\ Cardinality(held) \in Nat /\ lastNo \in Nat
  BY FS_CardinalityType DEF RungFinite, EngineTypeOK
<1>6. \A x \in invoices \cup held : x.uuid # new.uuid
  BY DEF Ring, UuidTaken, UuidsOf
<1>7. /\ IsFiniteSet(held \cup {new})
      /\ Cardinality(held \cup {new}) = Cardinality(held) + 1
  BY <1>5, <1>6, FS_AddElement
<1>8. RungFinite'
  BY <1>1, <1>3, <1>7 DEF RungFinite
<1>9. RungInOpen' /\ OneRings' /\ Keyed'
  <2>1. session'[s].key \in Keys
    BY <1>3, KeyKept DEF EngineStepOf, Serve, ApplyOne
  <2> QED BY <1>3, <2>1 DEF RungInOpen, OneRings, Open, Keyed
<1>10. {x.no : x \in held \cup {new}} = (lastNo + 1)..(lastNo + Cardinality(held) + 1)
  <2>1. {x.no : x \in held \cup {new}} = {x.no : x \in held} \cup {n}
    <3>1. new.no = n
      OBVIOUS
    <3> HIDE DEF new, held, n
    <3> QED BY <3>1, NumbersOfUnion
  <2>2. {x.no : x \in held} = (lastNo + 1)..(lastNo + Cardinality(held))
    BY DEF NumbersFollow
  <2> HIDE DEF held
  <2> QED BY <1>5, <2>1, <2>2
<1>11. \A x \in invoices \cup held : x.no \in 1..(lastNo + Cardinality(held))
  <2>1. \A x \in invoices : x.no \in 1..lastNo
    BY DEF ChainUnbroken
  <2>2. \A x \in held : x.no \in (lastNo + 1)..(lastNo + Cardinality(held))
    BY DEF NumbersFollow
  <2> HIDE DEF held
  <2> QED BY <1>5, <2>1, <2>2
<1>12. \A x \in invoices \cup held : x.no # new.no
  BY <1>5, <1>11
<1> HIDE DEF n
<1>13. Books' = Books \cup {new} /\ Books = invoices \cup held
  BY <1>1, <1>3 DEF Books
<1>14. NumbersFollow'
  <2> SUFFICES ASSUME NEW t \in Sessions
               PROVE  /\ {x.no : x \in session'[t].rung} =
                            (lastNo + 1)..(lastNo + Cardinality(session'[t].rung))
                      /\ \A x, y \in session'[t].rung : x.no = y.no => x = y
    BY <1>3 DEF NumbersFollow
  <2>1. CASE t = s
    <3>1. \A x, y \in held \cup {new} : x.no = y.no => x = y
      BY <1>12 DEF NumbersFollow
    <3>2. session'[t].rung = held \cup {new}
      BY <1>1, <2>1
    <3> HIDE DEF held, new
    <3>3. {x.no : x \in held \cup {new}} =
             (lastNo + 1)..(lastNo + Cardinality(held \cup {new}))
      BY <1>5, <1>7, <1>10
    <3> QED BY <3>1, <3>2, <3>3, Zenon
  <2>2. CASE t # s
    BY <1>3, <2>2 DEF NumbersFollow
  <2> QED BY <2>1, <2>2
<1>15. NoSaleRungTwice'
  BY <1>6, <1>13 DEF NoSaleRungTwice
<1>16. ChainUnbroken'
  BY <1>3, <1>12, <1>13 DEF ChainUnbroken
<1> QED BY <1>4, <1>8, <1>9, <1>14, <1>15, <1>16

LEMMA CommitType ==
    ASSUME EngineTypeOK, RungFinite, Keyed, NEW s \in Sessions, Commit(s)
    PROVE  /\ EngineTypeOK'
           /\ session'[s].phase = "replied" /\ session'[s].rung = {}
           /\ session'[s].verdict = session[s].verdict
           /\ session'[s].items = session[s].items
           /\ \A t \in Sessions \ {s} : session'[t] = session[t]
<1> DEFINE r == [session[s] EXCEPT !.phase = "replied", !.rung = {}, !.upto = 0,
                                !.counted = {}]
<1>1. r \in SessionRecord
  <2>1. 0 \in 0..MaxSeq /\ {} \in SUBSET [uuid : Sales, no : Nat \ {0}]
    OBVIOUS
  <2> QED BY <2>1, SessionType DEF SessionRecord, Phases
<1>2. session' = [session EXCEPT ![s] = r]
  BY DEF Commit, EngineTypeOK
<1>3. session' \in [Sessions -> SessionRecord]
  BY <1>1, <1>2 DEF EngineTypeOK, SessionRecord
<1>4. item' \in [Seqs -> ItemRow]
  BY WrittenType DEF Commit
<1>5. Cardinality(session[s].rung) \in Nat
  BY FS_CardinalityType DEF RungFinite
<1>6. Highest(Written(s)) \in 0..MaxSeq
  BY WrittenType, HighestIsLast
<1>7. cursor' \in [applied : 0..MaxSeq, seen : 0..MaxSeq]
  BY <1>6 DEF Commit, Max2, EngineTypeOK
<1>8. invoices' \subseteq [uuid : Sales, no : Nat \ {0}] /\ lastNo' \in Nat
  BY <1>5 DEF Commit, EngineTypeOK
<1>9. batches' \subseteq [key : Keys, items : [Seqs -> Sales \cup {NoSale}]]
  <2>1. session[s].key \in Keys /\ session[s].items \in [Seqs -> Sales \cup {NoSale}]
    BY SessionType DEF Commit, Keyed, SessionRecord
  <2> QED BY <2>1 DEF Commit, EngineTypeOK
<1> QED BY <1>1, <1>2, <1>3, <1>4, <1>7, <1>8, <1>9
        DEF EngineTypeOK, SessionRecord, ItemRow

LEMMA CommitKeepsBooks ==
    ASSUME BooksInv, NEW s \in Sessions, Commit(s)
    PROVE  BooksInv'
<1> USE DEF BooksInv
<1> DEFINE held == session[s].rung
<1>1. /\ EngineTypeOK'
      /\ session'[s].phase = "replied" /\ session'[s].rung = {}
      /\ \A t \in Sessions \ {s} : session'[t] = session[t]
  BY CommitType
<1>2. invoices' = invoices \cup held /\ lastNo' = lastNo + Cardinality(held)
  BY DEF Commit
<1>3. IsFiniteSet(held) /\ Cardinality(held) \in Nat /\ lastNo \in Nat
  BY FS_CardinalityType DEF RungFinite, EngineTypeOK
<1>4. RungFinite'
  BY <1>1, FS_EmptySet DEF RungFinite
<1>5. RungInOpen' /\ OneRings'
  BY <1>1 DEF RungInOpen, OneRings, Open
<1>6. Keyed'
  <2>1. session'[s].key \in Keys
    BY <1>1, KeyKept DEF EngineStepOf, Serve
  <2> QED BY <1>1, <2>1 DEF Keyed
<1>7. Books' = Books
  BY <1>1, <1>2 DEF Books
<1>8. NoSaleRungTwice'
  BY <1>7 DEF NoSaleRungTwice
<1>9. NumbersFollow'
  <2> SUFFICES ASSUME NEW t \in Sessions
               PROVE  /\ {x.no : x \in session'[t].rung} =
                            (lastNo' + 1)..(lastNo' + Cardinality(session'[t].rung))
                      /\ \A x, y \in session'[t].rung : x.no = y.no => x = y
    BY DEF NumbersFollow
  <2>1. CASE session'[t].rung = {}
    BY <1>2, <1>3, <2>1, FS_EmptySet
  <2>2. CASE session'[t].rung # {}
    <3>1. t # s /\ session'[t] = session[t] /\ held = {}
      BY <1>1, <2>2 DEF OneRings
    <3>2. lastNo' = lastNo
      BY <1>2, <1>3, <3>1, FS_EmptySet
    <3> QED BY <3>1, <3>2 DEF NumbersFollow
  <2> QED BY <2>1, <2>2
<1>10. {x.no : x \in invoices \cup held} = 1..(lastNo + Cardinality(held))
  <2>1. {x.no : x \in invoices \cup held} =
           {x.no : x \in invoices} \cup {x.no : x \in held}
    OBVIOUS
  <2>2. /\ {x.no : x \in invoices} = 1..lastNo
        /\ {x.no : x \in held} = (lastNo + 1)..(lastNo + Cardinality(held))
    BY DEF ChainUnbroken, NumbersFollow
  <2> HIDE DEF held
  <2> QED BY <1>3, <2>1, <2>2
<1>11. ChainUnbroken'
  BY <1>2, <1>7, <1>10 DEF ChainUnbroken
<1> QED BY <1>1, <1>4, <1>5, <1>6, <1>8, <1>9, <1>11

LEMMA BooksInvInit == EngineInit => BooksInv
<1> SUFFICES ASSUME EngineInit PROVE BooksInv
  OBVIOUS
<1>1. \A s \in Sessions : session[s] = Free
  BY DEF EngineInit
<1>2. RungInOpen /\ Keyed /\ OneRings
  BY <1>1 DEF RungInOpen, Keyed, OneRings, Free
<1>3. NumbersFollow
  <2>1. \A s \in Sessions : session[s].rung = {}
    BY <1>1 DEF Free
  <2>2. Cardinality({}) = 0 /\ lastNo = 0
    BY FS_EmptySet DEF EngineInit
  <2> QED BY <2>1, <2>2 DEF NumbersFollow
<1>4. Books = {}
  BY <1>1 DEF EngineInit, Books, Free
<1>5. NoSaleRungTwice /\ ChainUnbroken
  BY <1>4 DEF EngineInit, NoSaleRungTwice, ChainUnbroken
<1> QED BY <1>2, <1>3, <1>5, EngineTypeInit DEF BooksInv

LEMMA BooksInvStep == BooksInv /\ [EngineNext]_engineVars => BooksInv'
<1> SUFFICES ASSUME BooksInv, [EngineNext]_engineVars PROVE BooksInv'
  OBVIOUS
<1>1. CASE UNCHANGED engineVars
  <2>1. EngineTypeOK' /\ RungFinite' /\ RungInOpen' /\ Keyed' /\ OneRings'
    BY <1>1 DEF engineVars, BooksInv, EngineTypeOK, RungFinite, RungInOpen,
                Open, Keyed, OneRings
  <2>2. NumbersFollow'
    BY <1>1 DEF engineVars, BooksInv, NumbersFollow
  <2>3. Books' = Books
    BY <1>1 DEF engineVars, Books
  <2>4. NoSaleRungTwice' /\ ChainUnbroken'
    BY <1>1, <2>3 DEF engineVars, BooksInv, NoSaleRungTwice, ChainUnbroken
  <2> QED BY <2>1, <2>2, <2>4 DEF BooksInv
<1>2. ASSUME NEW s \in Sessions, EngineStepOf(s) PROVE BooksInv'
  <2>1. CASE Commit(s)
    BY <2>1, CommitKeepsBooks
  <2>2. ASSUME NEW q \in Seqs, Ring(s, q) PROVE BooksInv'
    BY <2>2, RingKeepsBooks
  <2>3. CASE ~Commit(s) /\ \A q \in Seqs : ~Ring(s, q)
    BY <1>2, <2>3, OtherStepsKeep, KeepsBooks
  <2> QED BY <2>1, <2>2, <2>3
<1> QED BY <1>1, <1>2 DEF EngineNext, EngineStep, EngineStepOf

LEMMA BooksInvariant == EngineSpec => []BooksInv
BY BooksInvInit, BooksInvStep, PTL DEF EngineSpec

\* The tables and the sessions keep their types.
THEOREM EngineTypeCorrect == EngineSpec => []EngineTypeOK
<1>1. BooksInv => EngineTypeOK
  BY DEF BooksInv
<1> QED BY <1>1, BooksInvariant, PTL

\* One invoice per sale, however often and however concurrently it is pushed.
THEOREM RungOnce == EngineSpec => []NoSaleRungTwice
<1>1. BooksInv => NoSaleRungTwice
  BY DEF BooksInv
<1> QED BY <1>1, BooksInvariant, PTL

\* Invoice numbers and chain positions run on without gap or repeat.
THEOREM ChainCorrect == EngineSpec => []ChainUnbroken
<1>1. BooksInv => ChainUnbroken
  BY DEF BooksInv
<1> QED BY <1>1, BooksInvariant, PTL

-----------------------------------------------------------------------------
(* Verdicts and the cursor.  What sync_item calls settled is in the books, *)
(* what a session is about to write is in the books or among what it rang, *)
(* and a cursor value already read stays true until its commit.            *)

ItemRung == \A q \in Seqs : item[q].state \in Settled => item[q].uuid \in Rung

VerdictRung ==
    \A s \in Sessions, q \in Seqs :
        /\ session[s].phase # "replied"
        /\ session[s].verdict[q] \in Settled
        => session[s].items[q] \in UuidsOf(invoices \cup session[s].rung)

UptoHolds ==
    \A s \in Sessions :
        session[s].phase = "cursor" =>
            \A q \in 1..session[s].upto : Written(s)[q].state \in Settled

CursorInv == ItemRung /\ VerdictRung /\ UptoHolds /\ CursorVouches

\* Only a commit touches the tables.
LEMMA TablesKept ==
    ASSUME NEW s \in Sessions, EngineStepOf(s), ~Commit(s)
    PROVE  /\ UNCHANGED <<invoices, lastNo, item, batches, cursor>>
           /\ Rung' = Rung
BY DEF EngineStepOf, Serve, Receive, Replay, FirstSeen, Begin, ApplyOne, Block,
       Refuse, Recognise, Admit, Ring, RingClash, Poison, ReadCursor, Abort,
       Release, Rung

\* The verdict of a step is about a sale in the books, or rung by that step.
LEMMA VerdictRungStep ==
    ASSUME BooksInv, CursorInv, NEW s \in Sessions, EngineStepOf(s), ~Commit(s)
    PROVE  VerdictRung'
<1> USE DEF BooksInv
<1> SUFFICES ASSUME NEW t \in Sessions, NEW q \in Seqs,
                    session'[t].phase # "replied",
                    session'[t].verdict[q] \in Settled
             PROVE  session'[t].items[q] \in UuidsOf(invoices' \cup session'[t].rung)
  BY DEF VerdictRung
<1>1. /\ invoices' = invoices
      /\ \A r \in Sessions \ {s} : session'[r] = session[r]
  <2>1. CASE \E p \in Seqs : Ring(s, p)
    BY <2>1, RingType, TablesKept DEF Private, EngineTypeOK
  <2>2. CASE ~\E p \in Seqs : Ring(s, p)
    BY <2>2, OtherStepsKeep, TablesKept DEF Keeps, Drops, Private, EngineTypeOK
  <2> QED BY <2>1, <2>2
<1>2. CASE t # s
  BY <1>1, <1>2 DEF CursorInv, VerdictRung
<1>3. CASE t = s
  <2>1. ASSUME \/ \E p \in AnyPush : Receive(s, p[1], p[2])
               \/ Abort(s) \/ Release(s) \/ \E p \in Seqs : Poison(s, p)
        PROVE  FALSE
    <3>1. ASSUME NEW p \in AnyPush, Receive(s, p[1], p[2])
          PROVE  session'[s].verdict = NoVerdict
      BY <3>1 DEF Receive, Free, EngineTypeOK
    <3>2. ASSUME Abort(s) \/ Release(s) \/ \E p \in Seqs : Poison(s, p)
          PROVE  session'[s].verdict = NoVerdict
      <4>1. session' = [session EXCEPT ![s] = Free]
              \/ session' = [session EXCEPT ![s] = [Free EXCEPT !.phase = "errored"]]
        BY <3>2 DEF Abort, Release, Poison
      <4> QED BY <4>1 DEF Free, EngineTypeOK
    <3>3. session'[s].verdict = NoVerdict
      BY <2>1, <3>1, <3>2 DEF Free, EngineTypeOK
    <3> QED BY <1>3, <3>3 DEF NoVerdict, Unheard, Settled
  <2>2. ASSUME Replay(s) PROVE FALSE
    BY <1>3, <2>2 DEF Replay, EngineTypeOK
  <2>3. CASE FirstSeen(s) \/ Begin(s) \/ ReadCursor(s)
    <3>1. /\ session[s].phase # "replied"
          /\ session'[s].verdict = session[s].verdict
          /\ session'[s].items = session[s].items
          /\ session'[s].rung = session[s].rung
      BY <2>3 DEF FirstSeen, Begin, ReadCursor, EngineTypeOK
    <3> QED BY <1>1, <1>3, <3>1 DEF CursorInv, VerdictRung
  <2>4. ASSUME NEW p \in Seqs, Admit(s, p)
        PROVE  session'[t].items[q] \in UuidsOf(invoices' \cup session'[t].rung)
    <3>1. /\ session[s].phase # "replied"
          /\ session'[s].verdict = session[s].verdict
          /\ session'[s].items = session[s].items
          /\ session'[s].rung = session[s].rung
      BY <2>4 DEF Admit, EngineTypeOK
    <3> QED BY <1>1, <1>3, <3>1 DEF CursorInv, VerdictRung
  <2>5. ASSUME NEW p \in Seqs, NEW v \in Verdicts, Verdict(s, p, v),
               session[s].phase # "replied",
               v \in Settled =>
                   session[s].items[p] \in UuidsOf(invoices \cup session[s].rung)
        PROVE  session'[t].items[q] \in UuidsOf(invoices' \cup session'[t].rung)
    <3>1. /\ session'[s].items = session[s].items
          /\ session'[s].rung = session[s].rung
          /\ session'[s].verdict = [session[s].verdict EXCEPT ![p] = v]
      BY <2>5 DEF Verdict, EngineTypeOK
    <3>2. session'[s].verdict[q] = IF q = p THEN v ELSE session[s].verdict[q]
      BY <3>1, SessionType DEF SessionRecord
    <3> QED BY <1>1, <1>3, <2>5, <3>1, <3>2 DEF CursorInv, VerdictRung
  <2>6. ASSUME NEW p \in Seqs, Block(s, p) \/ Refuse(s, p) \/ RingClash(s, p)
        PROVE  session'[t].items[q] \in UuidsOf(invoices' \cup session'[t].rung)
    <3>1. PICK v \in {"blocked", "failed"} : Verdict(s, p, v)
      BY <2>6 DEF Block, Refuse, RingClash
    <3>2. v \in Verdicts /\ v \notin Settled /\ session[s].phase # "replied"
      BY <2>6 DEF Block, Refuse, RingClash, Verdicts, Settled
    <3> QED BY <2>5, <3>1, <3>2
  <2>7. ASSUME NEW p \in Seqs, Recognise(s, p)
        PROVE  session'[t].items[q] \in UuidsOf(invoices' \cup session'[t].rung)
    <3>1. /\ Verdict(s, p, "duplicate") /\ "duplicate" \in Verdicts
          /\ session[s].phase # "replied"
          /\ session[s].items[p] \in UuidsOf(invoices \cup session[s].rung)
      BY <2>7 DEF Recognise, AlreadyRung, UuidTaken, Verdicts, Settled
    <3> QED BY <2>5, <3>1
  <2>8. ASSUME NEW p \in Seqs, Ring(s, p)
        PROVE  session'[t].items[q] \in UuidsOf(invoices' \cup session'[t].rung)
    <3> DEFINE new == [uuid |-> session[s].items[p],
                       no |-> lastNo + Cardinality(session[s].rung) + 1]
    <3>1. session'[s].rung = session[s].rung \cup {new}
      BY <2>8, RingType
    <3>2. /\ session'[s].items = session[s].items
          /\ session'[s].verdict = [session[s].verdict EXCEPT ![p] = "applied"]
          /\ session[s].phase = "ring"
      BY <2>8 DEF Ring, EngineTypeOK
    <3>3. q # p => session[s].verdict[q] \in Settled
      BY <1>3, <3>2, SessionType DEF SessionRecord
    <3>4. new.uuid = session[s].items[p]
      OBVIOUS
    <3> HIDE DEF new
    <3>5. CASE q = p
      BY <1>3, <3>1, <3>2, <3>4, <3>5 DEF UuidsOf
    <3>6. CASE q # p
      BY <1>1, <1>3, <3>1, <3>2, <3>3, <3>6 DEF CursorInv, VerdictRung, UuidsOf
    <3> QED BY <3>5, <3>6
  <2> QED BY <2>1, <2>2, <2>3, <2>4, <2>6, <2>7, <2>8 DEF EngineStepOf, Serve, ApplyOne
<1> QED BY <1>2, <1>3

\* A settled row of the table a session would write stays settled whoever
\* commits: either the row is there already, or the session's verdict is.
LEMMA WrittenStays ==
    ASSUME EngineTypeOK, NEW s \in Sessions, NEW t \in Sessions \ {s},
           Commit(s), session'[t] = session[t],
           NEW q \in Seqs, Written(t)[q].state \in Settled
    PROVE  Written(t)'[q].state \in Settled
<1>1. item[q].state \in Settled => item'[q] = item[q]
  BY WrittenType DEF Commit
<1>2. CASE item'[q].state \in Settled
  BY <1>2 DEF Written
<1>3. CASE item'[q].state \notin Settled
  <2>1. item[q].state \notin Settled
    BY <1>1, <1>3
  <2>2. q \in Recorded(t) /\ session[t].verdict[q] \in Settled
    BY <2>1 DEF Written
  <2>3. Recorded(t)' = Recorded(t)
    BY DEF Recorded
  <2> QED BY <1>3, <2>2, <2>3 DEF Written
<1> QED BY <1>2, <1>3

LEMMA CursorInvInit == EngineInit => CursorInv
<1> SUFFICES ASSUME EngineInit PROVE CursorInv
  OBVIOUS
<1>1. \A s \in Sessions : session[s] = Free
  BY DEF EngineInit
<1>2. ItemRung /\ CursorVouches
  BY DEF EngineInit, ItemRung, CursorVouches, NoItem, Settled
<1>3. VerdictRung
  BY <1>1 DEF VerdictRung, Free, NoVerdict, Unheard, Settled
<1>4. UptoHolds
  BY <1>1 DEF UptoHolds, Free
<1> QED BY <1>2, <1>3, <1>4 DEF CursorInv

LEMMA CursorInvStep ==
    ASSUME BooksInv, CursorInv, [EngineNext]_engineVars
    PROVE  CursorInv'
<1> USE DEF BooksInv, CursorInv
<1>1. ASSUME NEW s \in Sessions, EngineStepOf(s), ~Commit(s) PROVE CursorInv'
  <2>1. VerdictRung'
    BY <1>1, VerdictRungStep
  <2>2. ItemRung' /\ CursorVouches'
    BY <1>1, TablesKept DEF ItemRung, CursorVouches
  <2>3. \A t \in Sessions \ {s} : session'[t] = session[t]
    <3>1. CASE \E p \in Seqs : Ring(s, p)
      BY <3>1, RingType DEF Private, EngineTypeOK
    <3>2. CASE ~\E p \in Seqs : Ring(s, p)
      BY <1>1, <3>2, OtherStepsKeep DEF Keeps, Drops, Private, EngineTypeOK
    <3> QED BY <3>1, <3>2
  <2>4. item' = item
    BY <1>1, TablesKept
  <2>5. ASSUME NEW t \in Sessions, session'[t].phase = "cursor"
        PROVE  \A q \in 1..session'[t].upto : Written(t)'[q].state \in Settled
    <3>1. CASE t # s
      BY <2>3, <2>4, <2>5, <3>1 DEF UptoHolds, Written, Recorded
    <3>2. CASE t = s
      <4>1. ReadCursor(s)
        <5>1. ASSUME NEW p \in AnyPush, Receive(s, p[1], p[2])
              PROVE  session'[s].phase = "received"
          BY <5>1 DEF Receive, Free, EngineTypeOK
        <5>2. ASSUME Replay(s) \/ FirstSeen(s) \/ Begin(s)
              PROVE  session'[s].phase # "cursor"
          BY <5>2 DEF Replay, FirstSeen, Begin, EngineTypeOK
        <5>3. ASSUME NEW p \in Seqs, ApplyOne(s, p)
              PROVE  session'[s].phase \in {"check", "ring", "errored"}
          BY <5>3 DEF ApplyOne, Block, Refuse, Recognise, Admit, Ring, RingClash,
               Verdict, Poison, Free, EngineTypeOK
        <5>4. ASSUME Abort(s) \/ Release(s)
              PROVE  session'[s].phase \in {"idle", "errored"}
          BY <5>4 DEF Abort, Release, Free, EngineTypeOK
        <5> QED BY <1>1, <2>5, <3>2, <5>1, <5>2, <5>3, <5>4 DEF EngineStepOf, Serve
      <4>2. session'[s].upto = Contiguous(Written(s))
        BY <4>1, ReadCursorType
      <4>3. Written(s)' = Written(s)
        BY <2>4, <4>1 DEF Written, Recorded, ReadCursor, EngineTypeOK
      <4> QED BY <3>2, <4>2, <4>3, WrittenType, ContiguousIsRun
    <3> QED BY <3>1, <3>2
  <2> QED BY <2>1, <2>2, <2>5 DEF UptoHolds
<1>2. ASSUME NEW s \in Sessions, Commit(s) PROVE CursorInv'
  <2> DEFINE table == Written(s)
  <2>1. /\ session'[s].phase = "replied"
        /\ \A t \in Sessions \ {s} : session'[t] = session[t]
    BY <1>2, CommitType
  <2>2. /\ item' = table /\ Rung' = Rung \cup UuidsOf(session[s].rung)
        /\ invoices' = invoices \cup session[s].rung
        /\ session[s].phase = "cursor"
    BY <1>2 DEF Commit, Rung, UuidsOf
  <2>3. /\ table \in [Seqs -> ItemRow]
        /\ \A q \in Seqs : item[q].state \in Settled => table[q] = item[q]
    BY WrittenType
  <2>4. ItemRung'
    <3> SUFFICES ASSUME NEW q \in Seqs, table[q].state \in Settled
                 PROVE  table[q].uuid \in Rung'
      BY <2>2 DEF ItemRung
    <3>1. CASE item[q].state \in Settled
      BY <2>2, <2>3, <3>1 DEF ItemRung
    <3>2. CASE item[q].state \notin Settled
      <4>1. /\ table[q].uuid = session[s].items[q]
            /\ session[s].verdict[q] \in Settled
        BY <3>2 DEF Written
      <4> QED BY <2>2, <4>1 DEF VerdictRung, Rung, UuidsOf
    <3> QED BY <3>1, <3>2
  <2>5. VerdictRung'
    <3> SUFFICES ASSUME NEW t \in Sessions, NEW q \in Seqs,
                        session'[t].phase # "replied",
                        session'[t].verdict[q] \in Settled
                 PROVE  session'[t].items[q] \in UuidsOf(invoices' \cup session'[t].rung)
      BY DEF VerdictRung
    <3>1. t # s /\ session'[t] = session[t]
      BY <2>1
    <3> QED BY <2>2, <3>1 DEF VerdictRung, UuidsOf
  <2>6. UptoHolds'
    <3> SUFFICES ASSUME NEW t \in Sessions, session'[t].phase = "cursor",
                        NEW q \in 1..session'[t].upto
                 PROVE  Written(t)'[q].state \in Settled
      BY DEF UptoHolds
    <3>1. t # s /\ session'[t] = session[t]
      BY <2>1
    <3>2. q \in Seqs
      BY <3>1 DEF EngineTypeOK, Seqs
    <3>3. Written(t)[q].state \in Settled
      BY <3>1 DEF UptoHolds
    <3> QED BY <1>2, <3>1, <3>2, <3>3, WrittenStays
  <2>7. session[s].upto \in 0..MaxSeq /\ cursor \in [applied : 0..MaxSeq, seen : 0..MaxSeq]
    BY DEF EngineTypeOK
  <2>8. \A q \in 1..session[s].upto : table[q].state \in Settled
    BY <2>2 DEF UptoHolds
  <2>9. Highest(table) \in 0..MaxSeq /\ session[s].upto =< Highest(table)
    <3>1. CASE session[s].upto = 0
      BY <2>3, <3>1, HighestIsLast
    <3>2. CASE session[s].upto # 0
      <4>1. session[s].upto \in Seqs /\ table[session[s].upto].state # "none"
        BY <2>7, <2>8, <3>2 DEF Seqs, Settled
      <4> QED BY <2>3, <4>1, HighestIsLast
    <3> QED BY <3>1, <3>2
  <2>10. cursor' = [applied |-> Max2(cursor.applied, session[s].upto),
                    seen |-> Max2(cursor.seen, Highest(table))]
    BY <1>2 DEF Commit
  <2>11. CursorVouches'
    <3>1. cursor'.applied =< cursor'.seen
      BY <2>7, <2>9, <2>10 DEF CursorVouches, Max2
    <3>2. ASSUME NEW q \in 1..cursor'.applied PROVE table[q].state \in Settled
      <4>1. q \in 1..cursor.applied \/ q \in 1..session[s].upto
        BY <2>7, <2>10 DEF Max2
      <4>2. q \in Seqs
        BY <2>7, <4>1 DEF Seqs
      <4> QED BY <2>3, <2>8, <4>1, <4>2 DEF CursorVouches
    <3>3. \A q \in 1..cursor'.applied : q \in Seqs
      BY <2>7, <2>10 DEF Max2, Seqs
    <3> QED BY <2>2, <2>4, <3>1, <3>2, <3>3 DEF CursorVouches, ItemRung
  <2> QED BY <2>4, <2>5, <2>6, <2>11
<1>3. CASE UNCHANGED engineVars
  BY <1>3 DEF engineVars, ItemRung, VerdictRung, UptoHolds, CursorVouches,
       Written, Recorded, Rung
<1> QED BY <1>1, <1>2, <1>3 DEF EngineNext, EngineStep, EngineStepOf

LEMMA CursorInvariant == EngineSpec => [](BooksInv /\ CursorInv)
<1>1. BooksInv /\ CursorInv /\ [EngineNext]_engineVars => CursorInv'
  BY CursorInvStep
<1> QED BY <1>1, BooksInvariant, CursorInvInit, PTL DEF EngineSpec

\* What the cursor has passed is settled on record and in the books.
THEOREM CursorCorrect == EngineSpec => []CursorVouches
<1>1. BooksInv /\ CursorInv => CursorVouches
  BY DEF CursorInv
<1> QED BY <1>1, CursorInvariant, PTL

\* A settled verdict is never overturned and the cursor never moves back.
THEOREM VerdictsStand == EngineSpec => VerdictStands
<1> DEFINE Stands == /\ \A q \in Seqs : item[q].state \in Settled => item'[q] = item[q]
                     /\ cursor'.applied >= cursor.applied
                     /\ cursor'.seen >= cursor.seen
<1>1. BooksInv /\ CursorInv /\ [EngineNext]_engineVars => [Stands]_engineVars
  <2> SUFFICES ASSUME BooksInv, EngineNext PROVE Stands
    OBVIOUS
  <2> USE DEF BooksInv
  <2>0. cursor.applied \in 0..MaxSeq /\ cursor.seen \in 0..MaxSeq
    BY DEF EngineTypeOK
  <2>1. ASSUME NEW s \in Sessions, EngineStepOf(s), ~Commit(s) PROVE Stands
    BY <2>0, <2>1, TablesKept
  <2>2. ASSUME NEW s \in Sessions, Commit(s) PROVE Stands
    <3>1. \A q \in Seqs : item[q].state \in Settled => item'[q] = item[q]
      BY <2>2, WrittenType DEF Commit
    <3>2. session[s].upto \in 0..MaxSeq /\ Highest(Written(s)) \in 0..MaxSeq
      BY WrittenType, HighestIsLast DEF EngineTypeOK
    <3>3. cursor'.applied >= cursor.applied /\ cursor'.seen >= cursor.seen
      BY <2>0, <2>2, <3>2 DEF Commit, Max2
    <3> QED BY <3>1, <3>3
  <2> QED BY <2>1, <2>2 DEF EngineNext, EngineStep, EngineStepOf
<1> QED BY <1>1, CursorInvariant, PTL DEF EngineSpec, VerdictStands
=============================================================================
