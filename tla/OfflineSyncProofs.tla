-------------------------- MODULE OfflineSyncProofs --------------------------
(***************************************************************************)
(* The till's queue by itself, for any number of sales, numbers and batch  *)
(* size, any number of counter screens that were left with their flush     *)
(* under way, and a server that may answer anything: its types, its        *)
(* numbering, and that a verdict once written is kept except where two     *)
(* flushes crossed.                                                        *)
(*                                                                         *)
(* Then till and server together, for any number of concurrent pushes and  *)
(* replaced machines besides: the composition is an engine and a till      *)
(* queue to each of its halves, a batch key names one batch, what the till *)
(* shows as landed is in the books and nothing waiting is overtaken, and   *)
(* the whole implements SaleDelivery.  Last, for one push at a time, that  *)
(* what the till shows as refused is not in the books.                     *)
(***************************************************************************)
EXTENDS OfflineSync, SyncEngineProofs

USE SaleAssumption, TillAssumption

-----------------------------------------------------------------------------
(* Numbering.                                                              *)

\* COALESCE(MAX(seq), 0) + 1: above every number in use, and directly above.
LEMMA NextSeqIsNext ==
    ASSUME TillTypeOK
    PROVE  /\ NextSeq \in 1..(MaxSeq + 1)
           /\ \A q \in Used : q < NextSeq
           /\ NextSeq = 1 \/ (NextSeq - 1) \in Used
<1> DEFINE T == {n \in 1..(MaxSeq + 1) : \A q \in Used : q < n}
<1>1. Used \subseteq 1..MaxSeq
  BY DEF Used, Seqs
<1>2. MaxSeq + 1 \in T /\ T \subseteq Nat
  BY <1>1
\* The initial segments up to the members of T are finite, so one is least.
<1>3. PICK n \in T : \A m \in T : n =< m
  <2> DEFINE U == {1..m : m \in T}
  <2>1. \A m \in T : 1..m \in FiniteSubsetsOf(Nat)
    BY <1>2, FS_Interval DEF FiniteSubsetsOf
  <2>2. IsWellFoundedOn(StrictSubsetOrdering(Nat), FiniteSubsetsOf(Nat))
    BY FS_StrictSubsetOrderingWellFounded
  <2>3. U \subseteq FiniteSubsetsOf(Nat) /\ U # {}
    BY <1>2, <2>1
  <2>4. PICK I \in U : \A J \in U : ~(<<J, I>> \in StrictSubsetOrdering(Nat))
    BY <2>2, <2>3, WFMin
  <2>5. PICK n \in T : I = 1..n
    OBVIOUS
  <2>6. ASSUME NEW m \in T, m < n PROVE FALSE
    <3>1. (1..m) \subseteq (1..n) /\ n \in 1..n /\ n \notin 1..m
      BY <2>6
    <3>2. <<1..m, 1..n>> \in StrictSubsetOrdering(Nat)
      BY <2>1, <3>1 DEF StrictSubsetOrdering, FiniteSubsetsOf
    <3> QED BY <2>4, <2>5, <3>2
  <2> QED BY <2>6
<1>4. n = 1 \/ (n - 1) \in Used
  <2>1. SUFFICES ASSUME n # 1 PROVE (n - 1) \in Used
    OBVIOUS
  <2>2. (n - 1) \in 1..(MaxSeq + 1) /\ (n - 1) \notin T
    BY <1>3, <2>1
  <2>3. PICK q \in Used : ~(q < n - 1)
    BY <2>2
  <2> QED BY <1>1, <1>3, <2>3
<1> QED BY <1>3, <1>4 DEF NextSeq

\* Writing states moves no row to another number and frees none.
LEMMA SetStateKeepsRows ==
    ASSUME TillTypeOK, NEW seqs, NEW s \in RowStates \ {"none"}
    PROVE  /\ SetState(seqs, s) \in [Seqs -> [uuid : Sales \cup {NoSale},
                                              state : RowStates]]
           /\ \A q \in Seqs : /\ SetState(seqs, s)[q].uuid = rows[q].uuid
                              /\ SetState(seqs, s)[q].state = "none"
                                    <=> rows[q].state = "none"
                              /\ q \notin seqs => SetState(seqs, s)[q] = rows[q]
BY DEF SetState, TillTypeOK

\* Striking numbers out leaves the verdicts of the others as they were.
LEMMA StrikeType ==
    ASSUME TillTypeOK, NEW m \in Mounts, flush[m].pc = "mark", NEW done
    PROVE  /\ Strike(m, done) \in Flushes
           /\ Strike(m, done).pc # "await"
           /\ Strike(m, done).batch \subseteq flush[m].batch
           /\ \A q \in Seqs : Strike(m, done).verdict[q] # Unheard
                 => q \notin done /\ Strike(m, done).verdict[q] = flush[m].verdict[q]
<1> DEFINE left == [q \in Seqs |-> IF q \in done THEN Unheard ELSE flush[m].verdict[q]]
<1>0. flush[m] \in Flushes
  BY DEF TillTypeOK
<1>1. left \in [Seqs -> {Unheard, "failed"} \cup Settled]
  BY <1>0 DEF Flushes, Settled, Unheard
<1>2. CASE left = NoVerdict
  BY <1>2 DEF Strike, Resting, NoVerdict, Unheard, Flushes
<1>3. CASE left # NoVerdict
  <2>1. Strike(m, done) = [flush[m] EXCEPT !.verdict = left]
    BY <1>3 DEF Strike
  <2> QED BY <1>0, <1>1, <2>1 DEF Flushes
<1> QED BY <1>2, <1>3

LEMMA RestingType == Resting \in Flushes
BY DEF Resting, Flushes, NoVerdict, Unheard

-----------------------------------------------------------------------------
(* The inductive invariant.  NumbersRunOn needs to know that a number      *)
(* drawn but not yet inserted lies at most one past the table, and         *)
(* InFlightIsPending that what two mounts have in hand is on record as     *)
(* crossed: only the other's answer can settle a number in hand.           *)

DrawnIsReached ==
    \A u \in Sales : \A p \in Seqs : p < drawn[u] => p \in Used

HandsCross ==
    \A m, n \in Mounts : m # n => InHand(m) \cap InHand(n) \subseteq crossed

BatchDropped == \A m \in Mounts : flush[m].pc = "mark" => flush[m].batch = {}

QueueInv == /\ TillTypeOK
            /\ NumbersRunOn
            /\ InFlightIsPending
            /\ HandsCross
            /\ BatchDropped
            /\ crossed \subseteq Used
            /\ DrawnIsReached

LEMMA QueueInvInit == TillInit => QueueInv
<1> SUFFICES ASSUME TillInit PROVE QueueInv
  OBVIOUS
<1>1. TillTypeOK
  BY RestingType DEF TillInit, TillTypeOK, NoRow, RowStates, Seqs
<1>2. Used = {}
  BY DEF TillInit, Used, NoRow
<1>3. NumbersRunOn
  BY <1>2 DEF NumbersRunOn
<1>4. InFlightIsPending /\ HandsCross /\ BatchDropped
  BY DEF TillInit, InFlightIsPending, HandsCross, BatchDropped, InHand, Resting,
         NoVerdict
<1>5. DrawnIsReached /\ crossed \subseteq Used
  BY DEF TillInit, DrawnIsReached, Seqs
<1> QED BY <1>1, <1>3, <1>4, <1>5 DEF QueueInv

\* A verdict is never "blocked" once heard, so it is a state a row may take.
LEMMA HeardIsAState ==
    ASSUME TillTypeOK, NEW m \in Mounts, NEW q \in Seqs, flush[m].verdict[q] # Unheard
    PROVE  flush[m].verdict[q] \in RowStates \ {"none", "pending"}
BY DEF TillTypeOK, Flushes, RowStates, Settled, Unheard

\* Each statement writes one verdict, to numbers of which the flush heard it.
LEMMA MarkEffect ==
    ASSUME TillTypeOK, NEW m \in Mounts, Mark(m)
    PROVE  \E v \in Settled \cup {"failed"} : \E seqs \in SUBSET Heard(m, v) :
               /\ v \in RowStates \ {"none", "pending"}
               /\ seqs \subseteq Seqs /\ seqs \subseteq InHand(m)
               /\ v \in Settled => seqs = Heard(m, v)
               /\ rows' = SetState(seqs, v)
               /\ flush[m].pc = "mark"
               /\ flush' = [flush EXCEPT ![m] = Strike(m, seqs)]
               /\ UNCHANGED <<drawn, crossed>>
<1>1. \A v \in Settled \cup {"failed"} :
          v \in RowStates \ {"none", "pending"} /\ v # Unheard
  BY DEF RowStates, Settled, Unheard
<1>2. \A v \in Settled \cup {"failed"} : \A seqs \in SUBSET Heard(m, v) :
          seqs \subseteq Seqs /\ seqs \subseteq InHand(m)
  BY <1>1 DEF Heard, InHand
<1>3. CASE MarkFailed(m)
  <2>1. PICK q \in Heard(m, "failed") :
            /\ rows' = SetState({q}, "failed")
            /\ flush' = [flush EXCEPT ![m] = Strike(m, {q})]
    BY <1>3 DEF MarkFailed
  <2>2. {q} \in SUBSET Heard(m, "failed") /\ "failed" \notin Settled
    BY DEF Settled
  <2> QED BY <1>1, <1>2, <1>3, <2>1, <2>2 DEF MarkFailed
<1>4. ASSUME NEW v \in Settled, MarkSettled(m, v)
      PROVE  /\ rows' = SetState(Heard(m, v), v)
             /\ flush[m].pc = "mark"
             /\ flush' = [flush EXCEPT ![m] = Strike(m, Heard(m, v))]
             /\ UNCHANGED <<drawn, crossed>>
  BY <1>4 DEF MarkSettled
<1> QED BY <1>1, <1>2, <1>3, <1>4 DEF Mark

\* A step that frees no row, settles none and puts nothing new in a hand.
LEMMA HandsShrink ==
    ASSUME InFlightIsPending, HandsCross, Pending \subseteq Pending',
           crossed \subseteq crossed', \A m \in Mounts : InHand(m)' \subseteq InHand(m)
    PROVE  InFlightIsPending' /\ HandsCross'
BY DEF InFlightIsPending, HandsCross

LEMMA QueueInvStep == QueueInv /\ [TillNext]_tillVars => QueueInv'
<1> SUFFICES ASSUME QueueInv, [TillNext]_tillVars PROVE QueueInv'
  OBVIOUS
<1> USE DEF QueueInv
<1>1. ASSUME NEW u \in Sales, DrawSeq(u) PROVE QueueInv'
  <2>1. TillTypeOK'
    BY <1>1, NextSeqIsNext DEF DrawSeq, TillTypeOK
  <2>2. Used' = Used /\ Pending' = Pending
    BY <1>1 DEF DrawSeq, Used, Pending
  <2>3. NumbersRunOn' /\ BatchDropped' /\ (crossed \subseteq Used)'
    BY <1>1, <2>2 DEF DrawSeq, NumbersRunOn, BatchDropped
  <2>6. InFlightIsPending' /\ HandsCross'
    BY <1>1, <2>2, HandsShrink DEF DrawSeq, InHand
  <2>4. \A p \in Seqs : p < NextSeq => p \in Used
    BY NextSeqIsNext DEF NumbersRunOn, Seqs
  <2>5. DrawnIsReached'
    BY <1>1, <2>2, <2>4 DEF DrawSeq, DrawnIsReached, TillTypeOK
  <2> QED BY <2>1, <2>3, <2>5, <2>6
<1>2. ASSUME NEW u \in Sales, Put(u) PROVE QueueInv'
  <2>0. drawn[u] \in Seqs
    BY <1>2 DEF Put, TillTypeOK, Seqs
  <2>1. TillTypeOK'
    BY <1>2, <2>0 DEF Put, TillTypeOK, RowStates
  <2>2. Used' = Used \cup {drawn[u]}
    BY <1>2, <2>0 DEF Put, Used, TillTypeOK
  <2>3. Pending \subseteq Pending'
    BY <1>2, <2>0 DEF Put, Pending, TillTypeOK
  <2>4. NumbersRunOn'
    <3>1. \A p \in 1..drawn[u] : p \in Used \cup {drawn[u]}
      BY <2>0 DEF DrawnIsReached, Seqs
    <3> QED BY <2>2, <3>1 DEF NumbersRunOn
  <2>5. InFlightIsPending' /\ HandsCross' /\ BatchDropped' /\ (crossed \subseteq Used)'
    BY <1>2, <2>2, <2>3, HandsShrink DEF Put, InHand, BatchDropped
  <2>6. DrawnIsReached'
    BY <1>2, <2>2 DEF Put, DrawnIsReached, TillTypeOK, Seqs
  <2> QED BY <2>1, <2>4, <2>5, <2>6
<1>3. ASSUME NEW m \in Mounts, FlushStart(m) PROVE QueueInv'
  <2>1. TillTypeOK'
    BY <1>3 DEF FlushStart, TillTypeOK, Flushes, Outstanding, Pending
  <2>2. Used' = Used /\ Pending' = Pending
    BY <1>3 DEF FlushStart, Used, Pending
  <2>3. NumbersRunOn' /\ DrawnIsReached' /\ BatchDropped'
    BY <1>3, <2>2 DEF FlushStart, NumbersRunOn, DrawnIsReached, BatchDropped, TillTypeOK,
                      Flushes
  <2>4. /\ InHand(m)' \subseteq InHand(m) \cup Outstanding
        /\ \A n \in Mounts \ {m} : InHand(n)' = InHand(n)
    BY <1>3 DEF FlushStart, InHand, TillTypeOK, Flushes
  <2>5. /\ crossed \subseteq crossed'
        /\ \A n \in Mounts \ {m} : Outstanding \cap InHand(n) \subseteq crossed'
    BY <1>3 DEF FlushStart
  <2>6. InFlightIsPending'
    BY <2>2, <2>4, <2>5 DEF InFlightIsPending, Outstanding
  <2>7. HandsCross'
    BY <2>4, <2>5 DEF HandsCross
  <2>8. (crossed \subseteq Used)'
    BY <1>3, <2>2 DEF FlushStart, Outstanding, Pending, Used
  <2> QED BY <2>1, <2>3, <2>6, <2>7, <2>8
<1>4. ASSUME NEW m \in Mounts,
             NEW a \in [Seqs -> Verdicts \cup {Unheard}],
             \A q \in Seqs : a[q] # Unheard => q \in flush[m].batch,
             FlushAnswered(m, a)
      PROVE  QueueInv'
  <2> DEFINE heard == [q \in Seqs |-> IF a[q] = "blocked" THEN Unheard ELSE a[q]]
             after == IF heard = NoVerdict THEN Resting
                      ELSE [pc |-> "mark", batch |-> {}, verdict |-> heard]
  <2>1. heard \in [Seqs -> {Unheard, "failed"} \cup Settled]
    BY DEF Verdicts, Settled, Unheard
  <2>2. flush' = [flush EXCEPT ![m] = after]
    BY <1>4 DEF FlushAnswered
  <2>3. after \in Flushes
    BY <2>1, RestingType DEF Flushes
  <2>4. /\ after.batch = {}
        /\ \A q \in Seqs : after.verdict[q] # Unheard => q \in flush[m].batch
    BY <1>4 DEF Resting, NoVerdict
  <2> HIDE DEF after
  <2>5. TillTypeOK'
    BY <1>4, <2>2, <2>3 DEF FlushAnswered, TillTypeOK
  <2>6. Used' = Used /\ Pending' = Pending
    BY <1>4 DEF FlushAnswered, Used, Pending
  <2>7. NumbersRunOn' /\ DrawnIsReached' /\ BatchDropped'
    BY <1>4, <2>2, <2>4, <2>6 DEF FlushAnswered, NumbersRunOn, DrawnIsReached,
         BatchDropped, TillTypeOK
  <2>8. \A n \in Mounts : InHand(n)' \subseteq InHand(n)
    BY <2>2, <2>4 DEF InHand, TillTypeOK
  <2>9. InFlightIsPending' /\ HandsCross' /\ (crossed \subseteq Used)'
    BY <1>4, <2>6, <2>8, HandsShrink DEF FlushAnswered
  <2> QED BY <2>5, <2>7, <2>9
<1>5. ASSUME NEW m \in Mounts, FlushThrew(m) PROVE QueueInv'
  <2>1. TillTypeOK'
    BY <1>5, RestingType DEF FlushThrew, TillTypeOK
  <2>2. Used' = Used /\ Pending' = Pending
    BY <1>5 DEF FlushThrew, Used, Pending
  <2>3. \A n \in Mounts : InHand(n)' \subseteq InHand(n)
    BY <1>5 DEF FlushThrew, InHand, TillTypeOK, Resting, NoVerdict
  <2>4. InFlightIsPending' /\ HandsCross' /\ (crossed \subseteq Used)'
    BY <1>5, <2>2, <2>3, HandsShrink DEF FlushThrew
  <2>5. NumbersRunOn' /\ DrawnIsReached' /\ BatchDropped'
    BY <1>5, <2>2 DEF FlushThrew, NumbersRunOn, DrawnIsReached, BatchDropped, TillTypeOK,
                      Resting
  <2> QED BY <2>1, <2>4, <2>5
<1>6. ASSUME NEW m \in Mounts, Mark(m) PROVE QueueInv'
  <2>1. PICK v \in RowStates \ {"none", "pending"}, seqs \in SUBSET Seqs :
            /\ rows' = SetState(seqs, v) /\ seqs \subseteq InHand(m)
            /\ flush' = [flush EXCEPT ![m] = Strike(m, seqs)]
            /\ flush[m].pc = "mark"
            /\ UNCHANGED <<drawn, crossed>>
    BY <1>6, MarkEffect
  <2>2. TillTypeOK'
    BY <2>1, SetStateKeepsRows, StrikeType DEF TillTypeOK
  <2>3. Used' = Used
    BY <2>1, SetStateKeepsRows DEF Used
  <2>4. NumbersRunOn' /\ DrawnIsReached' /\ (crossed \subseteq Used)'
    BY <2>1, <2>3 DEF NumbersRunOn, DrawnIsReached
  <2>5. \A q \in Pending : q \notin seqs => q \in Pending'
    BY <2>1, SetStateKeepsRows DEF Pending
  <2>6. flush'[m] = Strike(m, seqs) /\ \A n \in Mounts \ {m} : flush'[n] = flush[n]
    BY <2>1 DEF TillTypeOK
  <2>7. /\ InHand(m)' \subseteq InHand(m)
        /\ \A q \in Seqs : flush'[m].verdict[q] # Unheard => q \notin seqs
        /\ \A n \in Mounts \ {m} : InHand(n)' = InHand(n)
    BY <2>1, <2>6, StrikeType DEF InHand
  <2>8. HandsCross'
    BY <2>1, <2>7 DEF HandsCross
  <2>9. flush'[m].batch = {} /\ BatchDropped'
    BY <2>1, <2>6, StrikeType DEF BatchDropped
  <2>10. InHand(m)' \subseteq Pending' \cup crossed
    BY <2>5, <2>7, <2>9 DEF InFlightIsPending, InHand
  <2>11. \A n \in Mounts \ {m} : InHand(n)' \subseteq Pending' \cup crossed
    BY <2>1, <2>5, <2>7 DEF InFlightIsPending, HandsCross
  <2>12. InFlightIsPending'
    BY <2>1, <2>10, <2>11 DEF InFlightIsPending
  <2> QED BY <2>2, <2>4, <2>8, <2>9, <2>12
<1>7. CASE TillRestart
  <2>1. TillTypeOK'
    BY <1>7, RestingType DEF TillRestart, TillTypeOK
  <2>2. Used' = Used /\ Pending' = Pending
    BY <1>7 DEF TillRestart, Used, Pending
  <2>3. \A n \in Mounts : InHand(n)' = {}
    BY <1>7 DEF TillRestart, InHand, Resting, NoVerdict
  <2>4. NumbersRunOn' /\ DrawnIsReached' /\ BatchDropped'
    BY <1>7, <2>2 DEF TillRestart, NumbersRunOn, DrawnIsReached, BatchDropped, Resting,
                      Seqs
  <2>5. InFlightIsPending' /\ HandsCross' /\ (crossed \subseteq Used)'
    BY <1>7, <2>2, <2>3 DEF InFlightIsPending, HandsCross, TillRestart
  <2> QED BY <2>1, <2>4, <2>5
<1>8. CASE UNCHANGED tillVars
  BY <1>8 DEF tillVars, TillTypeOK, NumbersRunOn, InFlightIsPending, HandsCross,
              BatchDropped, InHand, DrawnIsReached, Used, Pending
<1> QED BY <1>1, <1>2, <1>3, <1>4, <1>5, <1>6, <1>7, <1>8 DEF TillNext

-----------------------------------------------------------------------------
(* What follows.                                                           *)

LEMMA QueueInvariant == TillSpec => []QueueInv
BY QueueInvInit, QueueInvStep, PTL DEF TillSpec

\* Every variable of the till's queue keeps its type.
THEOREM TillTypeCorrect == TillSpec => []TillTypeOK
<1>1. QueueInv => TillTypeOK
  BY DEF QueueInv
<1> QED BY <1>1, QueueInvariant, PTL

\* The till's numbers never have a hole.
THEOREM NumberingCorrect == TillSpec => []NumbersRunOn
<1>1. QueueInv => NumbersRunOn
  BY DEF QueueInv
<1> QED BY <1>1, QueueInvariant, PTL

\* However many mounts flush one table, a number in hand waits for its answer
\* unless another flush had it in hand as well.
THEOREM InFlightCorrect == TillSpec => []InFlightIsPending
<1>1. QueueInv => InFlightIsPending
  BY DEF QueueInv
<1> QED BY <1>1, QueueInvariant, PTL

\* A step of the queue reverses no verdict of a number that was in one hand
\* at a time, and moves no row to another sale.
LEMMA VerdictsKept ==
    ASSUME QueueInv, [TillNext]_tillVars
    PROVE  KeepsVerdicts
<1> USE DEF QueueInv, KeepsVerdicts
<1>1. ASSUME NEW u \in Sales, DrawSeq(u) \/ Put(u) PROVE KeepsVerdicts
  BY <1>1 DEF DrawSeq, Put, Used, TillTypeOK, Seqs
<1>2. ASSUME NEW m \in Mounts, Mark(m) PROVE KeepsVerdicts
  <2>1. PICK v \in RowStates \ {"none", "pending"}, seqs \in SUBSET Seqs :
            rows' = SetState(seqs, v) /\ seqs \subseteq InHand(m)
    BY <1>2, MarkEffect
  <2>2. \A q \in Seqs : q \in seqs => q \in Pending \cup crossed
    BY <2>1 DEF InFlightIsPending
  <2>3. ASSUME NEW q \in Used
        PROVE  /\ rows'[q].uuid = rows[q].uuid
               /\ rows'[q].state = IF q \in seqs THEN v ELSE rows[q].state
    BY <2>1 DEF SetState, Used, TillTypeOK
  <2> QED BY <2>2, <2>3 DEF Used, Pending
<1>3. CASE UNCHANGED rows
  BY <1>3
<1>4. ASSUME NEW m \in Mounts, NEW a, FlushStart(m) \/ FlushAnswered(m, a) \/ FlushThrew(m)
      PROVE  UNCHANGED rows
  BY <1>4 DEF FlushStart, FlushAnswered, FlushThrew
<1> QED BY <1>1, <1>2, <1>3, <1>4 DEF TillNext, TillRestart, tillVars

-----------------------------------------------------------------------------
(* Till and server together.                                               *)

USE EngineAssumption, SyncAssumption

-----------------------------------------------------------------------------
(* The inductive invariant.                                                *)

\* What the till's table holds: durable sales, each under one number, and the
\* uuids that are still to be inserted have never been durable.
TableInv ==
    /\ \A q \in Seqs : rows[q].state = "none" => rows[q] = NoRow
    /\ \A q \in Used : rows[q].uuid \in recorded
    /\ \A p, q \in Used : rows[p].uuid = rows[q].uuid => p = q
    /\ \A u \in Sales : drawn[u] # 0 => u \notin recorded

\* Every push carries durable sales under the key of its contents.  As long as
\* its first sale is on the till, what is pending between its first and its
\* last number is part of it: numbers fill up and never come back to pending.
SentInv ==
    \A b \in Sent :
        /\ b.key = BatchKey(b.items)
        /\ SeqsOf(b.items) # {}
        /\ \A q \in SeqsOf(b.items) : b.items[q] \in recorded
        /\ b.items[FirstOf(b.items)] \in OnTill =>
              \A q \in FirstOf(b.items)..LastOf(b.items) :
                  /\ q \in Used
                  /\ q \in Pending => b.items[q] = rows[q].uuid

\* A row of sync_item is about a sale of the batch it names.
ItemOfBatch ==
    \A q \in Seqs :
        item[q].batch # NoKey =>
            \E b \in batches : /\ b.key = item[q].batch
                               /\ b.items[q] = item[q].uuid
                               /\ b.items[q] # NoSale

\* A session has verdicts for its own items only, and what it answers is true.
AnswerInv ==
    /\ \A s \in Sessions : Recorded(s) \subseteq BatchSeqs(s)
    /\ \A s \in Sessions, q \in Seqs :
           session[s].phase = "replied" /\ session[s].verdict[q] \in Settled
              => session[s].items[q] \in Rung

\* The session a mount waits for carries the rows of its flush, no two mounts
\* wait for one session, and the verdicts a mount is writing down are true.
Waits(m) ==
    on[m] # NoSession =>
        /\ flush[m].pc = "await"
        /\ session[on[m]].phase # "idle"
        /\ session[on[m]].phase # "errored" =>
              session[on[m]].items = Contents(flush[m].batch)

Told(m) == \A q \in Seqs : flush[m].verdict[q] \in Settled => rows[q].uuid \in Rung

FlushInv ==
    /\ \A m \in Mounts : Waits(m) /\ Told(m)
    /\ \A m, n \in Mounts : on[m] = on[n] /\ on[m] # NoSession => m = n

SyncInv ==
    /\ TypeOK /\ QueueInv /\ BooksInv /\ CursorInv
    /\ TableInv /\ SentInv /\ ItemOfBatch /\ AnswerInv /\ FlushInv
    /\ KeyNamesOneBatch /\ SettledIsRung

-----------------------------------------------------------------------------
(* Batches and their keys.                                                 *)

LEMMA FirstAndLast ==
    ASSUME NEW items \in [Seqs -> Sales \cup {NoSale}], SeqsOf(items) # {}
    PROVE  /\ FirstOf(items) \in SeqsOf(items)
           /\ LastOf(items) \in SeqsOf(items)
           /\ \A q \in SeqsOf(items) : q \in FirstOf(items)..LastOf(items)
           /\ IsFiniteSet(SeqsOf(items))
           /\ Cardinality(SeqsOf(items)) \in Seqs
           /\ BatchKey(items) \in TillKeys
<1> DEFINE in == SeqsOf(items)
<1>1. in \subseteq 1..MaxSeq /\ in \subseteq Nat /\ in \subseteq 0..MaxSeq
  BY DEF SeqsOf, Seqs
<1>2. \E q \in in : \A p \in in : q =< p
  BY <1>1, LeastElement
<1>3. \E q \in in : \A p \in in : p =< q
  BY <1>1, GreatestElement
<1>4. FirstOf(items) \in in /\ \A p \in in : FirstOf(items) =< p
  BY <1>2 DEF FirstOf
<1>5. LastOf(items) \in in /\ \A p \in in : p =< LastOf(items)
  BY <1>3 DEF LastOf
<1>6. IsFiniteSet(1..MaxSeq) /\ Cardinality(1..MaxSeq) = MaxSeq
  BY FS_Interval
<1>7. IsFiniteSet(in) /\ Cardinality(in) \in Nat /\ Cardinality(in) =< MaxSeq
  BY <1>1, <1>6, FS_Subset, FS_CardinalityType
<1>8. Cardinality(in) # 0
  BY <1>7, FS_EmptySet
<1>9. Cardinality(in) \in Seqs
  BY <1>7, <1>8 DEF Seqs
<1>10. items[FirstOf(items)] \in Sales
  BY <1>4 DEF SeqsOf
<1>11. \A q \in in : q \in FirstOf(items)..LastOf(items)
  BY <1>1, <1>4, <1>5
<1> QED BY <1>4, <1>5, <1>7, <1>9, <1>10, <1>11 DEF BatchKey, TillKeys, SeqsOf

\* What a flush sends: the pending rows up to its last, oldest first.
LEMMA OutstandingIsPrefix ==
    ASSUME TypeOK, TableInv
    PROVE  /\ Outstanding \subseteq Pending
           /\ \A p, q \in Pending : q \in Outstanding /\ p < q => p \in Outstanding
           /\ SeqsOf(Contents(Outstanding)) = Outstanding
           /\ Contents(Outstanding) \in [Seqs -> Sales \cup {NoSale}]
<1>1. ASSUME NEW p \in Pending, NEW q \in Pending, q \in Outstanding, p < q
      PROVE  p \in Outstanding
  <2> DEFINE below(n) == {r \in Pending : r < n}
  <2>1. Pending \subseteq 1..MaxSeq /\ IsFiniteSet(1..MaxSeq)
    BY FS_Interval DEF Pending, Seqs
  <2>2. IsFiniteSet(below(q))
    BY <2>1, FS_Subset
  <2>3. below(p) \subseteq below(q)
    <3>1. p \in 1..MaxSeq /\ q \in 1..MaxSeq
      BY <2>1
    <3>2. ASSUME NEW r \in Pending, r < p PROVE r < q
      <4>1. r \in 1..MaxSeq
        BY <2>1
      <4> QED BY <1>1, <3>1, <3>2, <4>1
    <3> QED BY <3>2
  <2>4. IsFiniteSet(below(p)) /\ Cardinality(below(p)) =< Cardinality(below(q))
    BY <2>2, <2>3, FS_Subset
  <2>5. Cardinality(below(p)) \in Nat /\ Cardinality(below(q)) \in Nat
    BY <2>2, <2>4, FS_CardinalityType
  <2>6. Cardinality(below(q)) < BatchSize
    BY <1>1 DEF Outstanding
  <2>7. Cardinality(below(p)) < BatchSize
    BY <2>4, <2>5, <2>6
  <2> QED BY <2>7 DEF Outstanding
<1>2. \A q \in Pending : q \in Used /\ rows[q].uuid \in Sales
  BY DEF Pending, Used, TableInv, TypeOK
<1>3. Outstanding \subseteq Pending
  BY DEF Outstanding
<1>4. \A q \in Seqs : rows[q].uuid \in Sales \cup {NoSale}
  BY DEF TypeOK, TillTypeOK
<1> QED BY <1>1, <1>2, <1>3, <1>4 DEF SeqsOf, Contents, Pending

-----------------------------------------------------------------------------
(* A step of the composition is a step of the engine and of the till's     *)
(* queue, or leaves them alone; only a replacement is neither.             *)

LEMMA SendIsReceive ==
    ASSUME SyncInv, NEW s \in Sessions, Sends(s)
    PROVE  LET items == Contents(Outstanding)
               key   == BatchKey(items)
           IN  /\ <<key, items>> \in AnyPush
               /\ Receive(s, key, items)
               /\ key # NoKey
               /\ SeqsOf(items) = Outstanding /\ Outstanding # {}
<1> DEFINE items == Contents(Outstanding)
<1>1. /\ SeqsOf(items) = Outstanding /\ Outstanding # {}
      /\ items \in [Seqs -> Sales \cup {NoSale}]
  BY OutstandingIsPrefix DEF SyncInv, Sends, Send, FlushStart
<1>2. BatchKey(items) \in Keys
  BY <1>1, FirstAndLast
<1>3. items # NoItems
  BY <1>1 DEF SeqsOf, NoItems
<1>4. Receive(s, BatchKey(items), items)
  BY DEF Sends, Send
<1> HIDE DEF items
<1>5. <<BatchKey(items), items>> \in AnyPush
  BY <1>1, <1>2, <1>3 DEF AnyPush
<1> QED BY <1>1, <1>2, <1>4, <1>5 DEF items

LEMMA StepOfEngine ==
    ASSUME SyncInv, [Next]_vars
    PROVE  [EngineNext]_engineVars
<1>1. ASSUME NEW s \in Sessions, Sends(s) PROVE EngineNext
  <2>1. PICK p \in AnyPush : Receive(s, p[1], p[2])
    BY <1>1, SendIsReceive
  <2> QED BY <2>1 DEF EngineNext, EngineStep
<1>2. ASSUME NEW s \in Sessions, ServerStep(s) \/ Delivers(s) \/ Discard(s)
      PROVE  EngineNext
  BY <1>2 DEF ServerStep, Delivers, Deliver, Discard, EngineNext, EngineStep
<1>3. CASE TillStep
  BY <1>3 DEF TillStep, Draw, Record, GivesUp, GiveUp, Writes, Write, Restart, Replace
<1>4. CASE UNCHANGED vars
  BY <1>4 DEF vars
<1> QED BY <1>1, <1>2, <1>3, <1>4 DEF Next

\* The answer of a push speaks of the rows that were sent, and of no others.
LEMMA AnswerFitsFlush ==
    ASSUME SyncInv, NEW m \in Mounts, NEW s \in Sessions, Deliver(m, s),
           session[s].phase = "replied"
    PROVE  /\ session[s].verdict \in [Seqs -> Verdicts \cup {Unheard}]
           /\ session[s].items = Contents(flush[m].batch)
           /\ \A q \in Seqs : session[s].verdict[q] # Unheard => q \in flush[m].batch
<1>1. session[s].verdict \in [Seqs -> Verdicts \cup {Unheard}]
  BY SessionType DEF SyncInv, BooksInv, SessionRecord
<1>2. session[s].items = Contents(flush[m].batch)
  BY DEF SyncInv, FlushInv, Waits, Deliver
<1>3. \A q \in Seqs : session[s].verdict[q] # Unheard => session[s].items[q] # NoSale
  BY DEF SyncInv, AnswerInv, Recorded, BatchSeqs, SeqsOf
<1> QED BY <1>1, <1>2, <1>3 DEF Contents

LEMMA StepOfTill ==
    ASSUME SyncInv, [Next]_vars, ~Replace
    PROVE  [TillNext]_tillVars
<1>1. ASSUME NEW u \in Sales, Draw(u) \/ Record(u) PROVE TillNext
  BY <1>1 DEF Draw, Record, TillNext
<1>2. CASE GivesUp \/ Writes \/ Restart
  BY <1>2 DEF GivesUp, GiveUp, Writes, Write, Restart, TillNext
<1>3. ASSUME NEW s \in Sessions, Sends(s) PROVE TillNext
  BY <1>3 DEF Sends, Send, TillNext
<1>4. ASSUME NEW s \in Sessions, ServerStep(s) \/ Discard(s)
      PROVE  UNCHANGED tillVars
  BY <1>4 DEF ServerStep, Discard
<1>5. ASSUME NEW s \in Sessions, Delivers(s) PROVE TillNext
  <2>0. PICK m \in Mounts : Deliver(m, s)
    BY <1>5 DEF Delivers
  <2>1. CASE session[s].phase = "replied" /\ FlushAnswered(m, session[s].verdict)
    BY <2>0, <2>1, AnswerFitsFlush DEF TillNext
  <2>2. CASE FlushThrew(m)
    BY <2>2 DEF TillNext
  <2> QED BY <2>0, <2>1, <2>2 DEF Deliver
<1>6. CASE UNCHANGED vars
  BY <1>6 DEF vars
<1> QED BY <1>1, <1>2, <1>3, <1>4, <1>5, <1>6 DEF Next, TillStep

LEMMA QueueInvKept ==
    ASSUME SyncInv, [Next]_vars
    PROVE  QueueInv'
<1>1. CASE Replace
  <2>1. /\ rows' = [q \in Seqs |-> NoRow] /\ drawn' = [u \in Sales |-> 0]
        /\ flush' = [m \in Mounts |-> Resting] /\ crossed' = {}
    BY <1>1 DEF Replace
  <2>2. TillTypeOK'
    BY <2>1, RestingType DEF TillTypeOK, NoRow, RowStates, Seqs
  <2>3. Used' = {}
    BY <2>1 DEF Used, NoRow
  <2>4. /\ NumbersRunOn' /\ InFlightIsPending' /\ HandsCross' /\ BatchDropped'
        /\ (crossed \subseteq Used)' /\ DrawnIsReached'
    BY <2>1, <2>3 DEF NumbersRunOn, InFlightIsPending, HandsCross, BatchDropped, InHand,
                      DrawnIsReached, Resting, NoVerdict, Seqs
  <2> QED BY <2>2, <2>4 DEF QueueInv
<1>2. CASE ~Replace
  BY <1>2, StepOfTill, QueueInvStep DEF SyncInv
<1> QED BY <1>1, <1>2

LEMMA EngineInvKept ==
    ASSUME SyncInv, [Next]_vars
    PROVE  BooksInv' /\ CursorInv'
BY StepOfEngine, BooksInvStep, CursorInvStep DEF SyncInv

\* A step that leaves the machine on the counter keeps its verdicts.
LEMMA VerdictsStay ==
    ASSUME SyncInv, [Next]_vars, ~Replace
    PROVE  KeepsVerdicts
BY StepOfTill, VerdictsKept DEF SyncInv

\* The engine's steps as the invariant sees them: the books only grow.
LEMMA BooksGrow ==
    ASSUME SyncInv, [Next]_vars
    PROVE  invoices \subseteq invoices' /\ Rung \subseteq Rung'
<1>1. [EngineNext]_engineVars
  BY StepOfEngine
<1>2. CASE UNCHANGED engineVars
  BY <1>2 DEF engineVars, Rung
<1>3. ASSUME NEW s \in Sessions, EngineStepOf(s)
      PROVE  invoices \subseteq invoices' /\ Rung \subseteq Rung'
  <2>1. CASE Commit(s)
    BY <2>1 DEF Commit, Rung, UuidsOf
  <2>2. CASE ~Commit(s)
    BY <1>3, <2>2, TablesKept
  <2> QED BY <2>1, <2>2
<1> QED BY <1>1, <1>2, <1>3 DEF EngineNext, EngineStep, EngineStepOf

-----------------------------------------------------------------------------
(* What a step does to the till's table.                                   *)

LEMMA WriteEffect ==
    ASSUME SyncInv, Writes
    PROVE  /\ \A q \in Seqs : /\ rows'[q].uuid = rows[q].uuid
                              /\ rows'[q].state = "none" <=> rows[q].state = "none"
                              /\ rows'[q].state = "pending" => rows[q].state = "pending"
                              /\ rows'[q].state \in Settled /\ rows[q].state \notin Settled
                                    => \E m \in Mounts : flush[m].verdict[q] \in Settled
           /\ rows' \in [Seqs -> [uuid : Sales \cup {NoSale}, state : RowStates]]
<1>0. TillTypeOK
  BY DEF SyncInv, QueueInv
<1>1. PICK m \in Mounts, v \in RowStates \ {"none", "pending"}, seqs \in SUBSET Seqs :
          /\ rows' = SetState(seqs, v)
          /\ v \in Settled => seqs = Heard(m, v)
  BY <1>0, MarkEffect DEF Writes, Write
<1>2. \A q \in Seqs : q \in seqs /\ rows[q].state # "none" => rows'[q].state = v
  BY <1>0, <1>1 DEF SetState, TillTypeOK
<1>3. v \in Settled => \A q \in seqs : flush[m].verdict[q] \in Settled
  BY <1>1 DEF Heard
<1> QED BY <1>0, <1>1, <1>2, <1>3, SetStateKeepsRows DEF Settled

LEMMA RecordEffect ==
    ASSUME SyncInv, NEW u \in Sales, Record(u)
    PROVE  \/ rows' = rows /\ recorded' = recorded
           \/ /\ u \notin recorded /\ recorded' = recorded \cup {u}
              /\ drawn[u] \in Seqs \ Used
              /\ rows' = [rows EXCEPT ![drawn[u]] = [uuid |-> u, state |-> "pending"]]
<1> USE DEF SyncInv
<1>1. drawn[u] \in Seqs /\ u \notin recorded
  BY DEF Record, Put, TypeOK, TillTypeOK, Seqs, TableInv
<1>2. \A q \in Seqs : rows[q].uuid \in recorded \cup {NoSale}
  BY DEF TableInv, Used, NoRow
<1>3. recorded' = recorded \cup ({rows'[q].uuid : q \in Seqs} \ {NoSale})
  BY DEF Record
<1>4. CASE drawn[u] \in Used
  <2>1. rows' = rows
    BY <1>4 DEF Record, Put, Used
  <2> QED BY <1>2, <1>3, <2>1
<1>5. CASE drawn[u] \notin Used
  <2>1. rows' = [rows EXCEPT ![drawn[u]] = [uuid |-> u, state |-> "pending"]]
    BY <1>1, <1>5 DEF Record, Put, Used
  <2>2. /\ rows'[drawn[u]].uuid = u
        /\ \A q \in Seqs \ {drawn[u]} : rows'[q] = rows[q]
    BY <1>1, <2>1 DEF TypeOK, TillTypeOK
  <2>3. recorded' = recorded \cup {u}
    BY <1>1, <1>2, <1>3, <2>2
  <2> QED BY <1>1, <1>5, <2>1, <2>3
<1> QED BY <1>4, <1>5

\* Every other step leaves the table alone.
LEMMA RowsKept ==
    ASSUME [Next]_vars, ~Writes, ~Replace, \A u \in Sales : ~Record(u)
    PROVE  UNCHANGED <<rows, recorded>>
<1>1. ASSUME NEW s \in Sessions, Sends(s) \/ ServerStep(s) \/ Delivers(s) \/ Discard(s)
      PROVE  UNCHANGED <<rows, recorded>>
  BY <1>1 DEF Sends, Send, ServerStep, Delivers, Deliver, Discard, FlushStart, FlushAnswered,
       FlushThrew, tillVars
<1>2. CASE TillStep
  BY <1>2 DEF TillStep, Draw, DrawSeq, GivesUp, GiveUp, FlushThrew, Restart, TillRestart
<1>3. CASE UNCHANGED vars
  BY <1>3 DEF vars, tillVars
<1> QED BY <1>1, <1>2, <1>3 DEF Next

\* Seen from a push: the table of the machine that sent it keeps its rows and
\* takes none back to pending, or it is gone.
LEMMA TableMoves ==
    ASSUME SyncInv, [Next]_vars
    PROVE  /\ recorded \subseteq recorded'
           /\ \/ OnTill' = {}
              \/ /\ OnTill' \cap recorded \subseteq OnTill
                 /\ \A q \in Used : /\ q \in Used'
                                    /\ rows'[q].uuid = rows[q].uuid
                                    /\ q \in Pending' => q \in Pending
<1>1. CASE Replace
  <2>1. rows' = [q \in Seqs |-> NoRow] /\ recorded' = recorded
    BY <1>1 DEF Replace
  <2> QED BY <2>1 DEF OnTill, Used, NoRow
<1>2. CASE Writes
  <2>1. recorded' = recorded
    BY <1>2 DEF Writes, Write
  <2> QED BY <1>2, <2>1, WriteEffect DEF OnTill, Used, Pending
<1>3. ASSUME NEW u \in Sales, Record(u)
      PROVE  /\ recorded \subseteq recorded'
             /\ OnTill' \cap recorded \subseteq OnTill
             /\ \A q \in Used : /\ q \in Used'
                                /\ rows'[q].uuid = rows[q].uuid
                                /\ q \in Pending' => q \in Pending
  <2>1. CASE rows' = rows /\ recorded' = recorded
    BY <2>1 DEF OnTill, Used, Pending
  <2>2. CASE /\ u \notin recorded /\ recorded' = recorded \cup {u}
             /\ drawn[u] \in Seqs \ Used
             /\ rows' = [rows EXCEPT ![drawn[u]] = [uuid |-> u, state |-> "pending"]]
    <3>1. /\ rows'[drawn[u]] = [uuid |-> u, state |-> "pending"]
          /\ \A q \in Seqs \ {drawn[u]} : rows'[q] = rows[q]
      BY <2>2 DEF SyncInv, TypeOK, TillTypeOK
    <3> QED BY <2>2, <3>1 DEF OnTill, Used, Pending
  <2> QED BY <1>3, <2>1, <2>2, RecordEffect
<1>4. CASE ~Writes /\ ~Replace /\ \A u \in Sales : ~Record(u)
  BY <1>4, RowsKept DEF OnTill, Used, Pending
<1> QED BY <1>1, <1>2, <1>3, <1>4

LEMMA TypeKept ==
    ASSUME SyncInv, [Next]_vars
    PROVE  TypeOK'
<1>1. TillTypeOK' /\ EngineTypeOK'
  BY QueueInvKept, EngineInvKept DEF QueueInv, BooksInv
<1>2. on' \in [Mounts -> Sessions \cup {NoSession}] /\ machine' \in 0..MaxReplacements
  <2> USE DEF SyncInv, TypeOK
  <2>1. ASSUME NEW s \in Sessions, Sends(s) \/ ServerStep(s) \/ Delivers(s) \/ Discard(s)
        PROVE  /\ on' \in [Mounts -> Sessions \cup {NoSession}]
               /\ machine' \in 0..MaxReplacements
    BY <2>1 DEF Sends, Send, ServerStep, Delivers, Deliver, Discard
  <2>2. CASE TillStep
    BY <2>2 DEF TillStep, Draw, Record, GivesUp, GiveUp, Writes, Write, Restart, Replace
  <2>3. CASE UNCHANGED vars
    BY <2>3 DEF vars
  <2> QED BY <2>1, <2>2, <2>3 DEF Next
<1>3. recorded' \subseteq Sales
  <2>1. CASE \E u \in Sales : Record(u)
    BY <2>1, RecordEffect DEF SyncInv, TypeOK
  <2>2. CASE Writes \/ Replace
    BY <2>2 DEF Writes, Write, Replace, SyncInv, TypeOK
  <2>3. CASE ~Writes /\ ~Replace /\ \A u \in Sales : ~Record(u)
    BY <2>3, RowsKept DEF SyncInv, TypeOK
  <2> QED BY <2>1, <2>2, <2>3
<1> QED BY <1>1, <1>2, <1>3 DEF TypeOK

LEMMA TableInvKept ==
    ASSUME SyncInv, [Next]_vars
    PROVE  TableInv'
<1> USE DEF SyncInv
<1>1. ASSUME NEW u \in Sales, Draw(u) PROVE TableInv'
  <2>1. /\ UNCHANGED <<rows, recorded>> /\ u \notin recorded
        /\ drawn' = [drawn EXCEPT ![u] = NextSeq]
    BY <1>1 DEF Draw, DrawSeq
  <2>2. \A w \in Sales : drawn'[w] # 0 => w = u \/ drawn[w] # 0
    BY <2>1 DEF TypeOK, TillTypeOK
  <2> QED BY <2>1, <2>2 DEF TableInv, Used
<1>2. ASSUME NEW u \in Sales, Record(u) PROVE TableInv'
  <2>1. drawn' = [drawn EXCEPT ![u] = 0]
    BY <1>2 DEF Record, Put
  <2>2. \A w \in Sales : drawn'[w] # 0 => w # u /\ drawn[w] # 0
    BY <2>1 DEF TypeOK, TillTypeOK
  <2>3. CASE rows' = rows /\ recorded' = recorded
    BY <2>2, <2>3 DEF TableInv, Used
  <2>4. CASE /\ u \notin recorded /\ recorded' = recorded \cup {u}
             /\ drawn[u] \in Seqs \ Used
             /\ rows' = [rows EXCEPT ![drawn[u]] = [uuid |-> u, state |-> "pending"]]
    <3>1. /\ rows'[drawn[u]] = [uuid |-> u, state |-> "pending"]
          /\ \A q \in Seqs \ {drawn[u]} : rows'[q] = rows[q]
      BY <2>4 DEF TypeOK, TillTypeOK
    <3>2. Used' = Used \cup {drawn[u]} /\ drawn[u] \notin Used
      BY <2>4, <3>1 DEF Used
    <3>3. \A p, q \in Used' : rows'[p].uuid = rows'[q].uuid => p = q
      <4>1. \A p \in Used : p # drawn[u] /\ rows'[p] = rows[p] /\ rows[p].uuid # u
        BY <2>4, <3>1 DEF TableInv, Used
      <4> QED BY <3>1, <3>2, <4>1 DEF TableInv
    <3>4. \A q \in Seqs : rows'[q].state = "none" => rows'[q] = NoRow
      BY <3>1 DEF TableInv
    <3>5. \A q \in Used' : rows'[q].uuid \in recorded'
      BY <2>4, <3>1, <3>2 DEF TableInv, Used
    <3> QED BY <2>2, <2>4, <3>3, <3>4, <3>5 DEF TableInv
  <2> QED BY <1>2, <2>3, <2>4, RecordEffect
<1>3. CASE Writes
  <2>1. recorded' = recorded /\ drawn' = drawn
    BY <1>3 DEF Writes, Write, Mark, MarkFailed, MarkSettled
  <2>2. Used' = Used /\ \A q \in Seqs : rows'[q].uuid = rows[q].uuid
    BY <1>3, WriteEffect DEF Used
  <2>3. \A q \in Seqs : rows'[q].state = "none" => rows'[q] = NoRow
    BY <1>3, WriteEffect DEF TableInv, NoRow
  <2>4. Used \subseteq Seqs
    BY DEF Used
  <2> QED BY <2>1, <2>2, <2>3, <2>4 DEF TableInv
<1>4. CASE Replace
  <2>1. /\ rows' = [q \in Seqs |-> NoRow] /\ recorded' = recorded
        /\ drawn' = [u \in Sales |-> 0]
    BY <1>4 DEF Replace
  <2> QED BY <2>1 DEF TableInv, Used, NoRow
<1>5. CASE /\ ~Writes /\ ~Replace
           /\ \A u \in Sales : ~Record(u) /\ ~Draw(u)
  <2>1. UNCHANGED <<rows, recorded>>
    BY <1>5, RowsKept
  <2>2. drawn' = drawn \/ drawn' = [u \in Sales |-> 0]
    <3>1. ASSUME NEW s \in Sessions,
                 Sends(s) \/ ServerStep(s) \/ Delivers(s) \/ Discard(s)
          PROVE  drawn' = drawn
      BY <3>1 DEF Sends, Send, ServerStep, Delivers, Deliver, Discard, FlushStart,
           FlushAnswered, FlushThrew, tillVars
    <3>2. CASE TillStep
      BY <1>5, <3>2 DEF TillStep, GivesUp, GiveUp, FlushThrew, Restart, TillRestart
    <3>3. CASE UNCHANGED vars
      BY <3>3 DEF vars, tillVars
    <3> QED BY <3>1, <3>2, <3>3 DEF Next
  <2> QED BY <2>1, <2>2 DEF TableInv, Used
<1> QED BY <1>1, <1>2, <1>3, <1>4, <1>5

-----------------------------------------------------------------------------
(* What a step does to a session, and so to the pushes that were sent.     *)

LEMMA SessionMoves ==
    ASSUME BooksInv, NEW s \in Sessions, EngineStepOf(s)
    PROVE  /\ \A t \in Sessions \ {s} : session'[t] = session[t]
           /\ \/ \E p \in AnyPush : /\ Receive(s, p[1], p[2])
                                    /\ session'[s].key = p[1]
                                    /\ session'[s].items = p[2]
                                    /\ session'[s].verdict = NoVerdict
                                    /\ session'[s].phase = "received"
              \/ /\ session'[s].key = session[s].key
                 /\ session'[s].items = session[s].items
                 /\ session[s].phase \notin {"idle", "replied", "errored"}
                 /\ session'[s].phase # "idle"
              \/ /\ session'[s].key = NoKey
                 /\ session'[s].verdict = NoVerdict
                 /\ session'[s].phase \in {"idle", "errored"}
<1> USE DEF BooksInv
<1>1. \A t \in Sessions \ {s} : session'[t] = session[t]
  <2>1. CASE Commit(s)
    BY <2>1, CommitType
  <2>2. CASE \E q \in Seqs : Ring(s, q)
    BY <2>2, RingType DEF Private, EngineTypeOK
  <2>3. CASE ~Commit(s) /\ \A q \in Seqs : ~Ring(s, q)
    BY <2>3, OtherStepsKeep DEF Keeps, Drops, Private, EngineTypeOK
  <2> QED BY <2>1, <2>2, <2>3
<1>2. ASSUME NEW p \in AnyPush, Receive(s, p[1], p[2])
      PROVE  /\ session'[s].key = p[1] /\ session'[s].items = p[2]
             /\ session'[s].verdict = NoVerdict /\ session'[s].phase = "received"
  BY <1>2 DEF Receive, Free, EngineTypeOK
<1> DEFINE same == /\ session'[s].key = session[s].key
                   /\ session'[s].items = session[s].items
                   /\ session[s].phase \notin {"idle", "replied", "errored"}
                   /\ session'[s].phase # "idle"
           gone == /\ session'[s].key = NoKey
                   /\ session'[s].verdict = NoVerdict
                   /\ session'[s].phase \in {"idle", "errored"}
<1>3. ASSUME Replay(s) \/ FirstSeen(s) \/ Begin(s) \/ ReadCursor(s) PROVE same
  BY <1>3 DEF Replay, FirstSeen, Begin, ReadCursor, EngineTypeOK
<1>4. ASSUME Commit(s) PROVE same
  BY <1>4 DEF Commit, EngineTypeOK
<1>5. ASSUME NEW q \in Seqs, ApplyOne(s, q), ~Poison(s, q) PROVE same
  <2>1. session[s].phase \in {"check", "ring"}
    BY <1>5 DEF ApplyOne, Block, Refuse, Recognise, Admit, Ring, RingClash
  <2>2. CASE Block(s, q) \/ Refuse(s, q) \/ Recognise(s, q) \/ RingClash(s, q)
    <3>1. PICK v \in Verdicts : Verdict(s, q, v)
      BY <2>2 DEF Block, Refuse, Recognise, RingClash, Verdicts, Settled
    <3> QED BY <2>1, <3>1 DEF Verdict, EngineTypeOK
  <2>3. CASE Admit(s, q) \/ Ring(s, q)
    BY <2>1, <2>3 DEF Admit, Ring, EngineTypeOK
  <2> QED BY <1>5, <2>2, <2>3 DEF ApplyOne
<1>6. ASSUME Abort(s) \/ Release(s) \/ \E q \in Seqs : Poison(s, q) PROVE gone
  <2>1. \/ session' = [session EXCEPT ![s] = Free]
        \/ session' = [session EXCEPT ![s] = [Free EXCEPT !.phase = "errored"]]
    BY <1>6 DEF Abort, Release, Poison
  <2> QED BY <2>1 DEF Free, EngineTypeOK
<1> HIDE DEF same, gone
<1>7. \/ \E p \in AnyPush : Receive(s, p[1], p[2])
      \/ same \/ gone
  BY <1>3, <1>4, <1>5, <1>6 DEF EngineStepOf, Serve
<1> QED BY <1>1, <1>2, <1>7 DEF same, gone

\* A step of the composition is a step of one session, with the tables it
\* leaves, or touches no session.
LEMMA EngineMoves ==
    ASSUME SyncInv, [Next]_vars
    PROVE  \/ UNCHANGED engineVars
           \/ \E s \in Sessions : EngineStepOf(s)
BY StepOfEngine DEF EngineNext, EngineStep, EngineStepOf

\* Nothing is sent but by Send; a commit files what its session had sent.
LEMMA SentMoves ==
    ASSUME SyncInv, [Next]_vars, NEW x \in Sent'
    PROVE  \/ x \in Sent
           \/ \E s \in Sessions :
                 /\ Sends(s)
                 /\ x = [key |-> BatchKey(Contents(Outstanding)),
                         items |-> Contents(Outstanding)]
<1> USE DEF SyncInv
<1>1. CASE UNCHANGED engineVars
  BY <1>1 DEF engineVars, Sent
<1>2. ASSUME NEW s \in Sessions, EngineStepOf(s)
      PROVE  \/ x \in Sent
             \/ /\ Sends(s)
                /\ x = [key |-> BatchKey(Contents(Outstanding)),
                        items |-> Contents(Outstanding)]
  <2>1. x \in batches' => x \in Sent
    <3>1. CASE Commit(s)
      <4>1. session[s].key # NoKey
        BY <3>1 DEF Commit, BooksInv, Keyed
      <4> QED BY <3>1, <4>1 DEF Commit, Sent
    <3>2. CASE ~Commit(s)
      BY <1>2, <3>2, TablesKept DEF Sent
    <3> QED BY <3>1, <3>2
  <2>2. ASSUME NEW t \in Sessions, session'[t].key # NoKey,
               x = [key |-> session'[t].key, items |-> session'[t].items]
        PROVE  \/ x \in Sent
               \/ /\ Sends(s)
                  /\ x = [key |-> BatchKey(Contents(Outstanding)),
                          items |-> Contents(Outstanding)]
    <3>1. CASE t # s
      BY <1>2, <2>2, <3>1, SessionMoves DEF Sent
    <3>2. CASE t = s /\ session'[s].key = session[s].key
               /\ session'[s].items = session[s].items
      BY <2>2, <3>2 DEF Sent
    <3>3. ASSUME NEW p \in AnyPush, t = s, Receive(s, p[1], p[2]),
                 session'[s].key = p[1], session'[s].items = p[2],
                 session'[s].phase = "received"
          PROVE  \/ /\ Sends(s)
                    /\ x = [key |-> BatchKey(Contents(Outstanding)),
                            items |-> Contents(Outstanding)]
      <4>1. session[s].phase = "idle" /\ session'[s] # session[s]
        BY <3>3 DEF Receive
      <4>2. PICK r \in Sessions : Sends(r)
        <5>1. ASSUME NEW r \in Sessions, ServerStep(r) PROVE FALSE
          <6>1. EngineStepOf(r)
            BY <5>1 DEF ServerStep, EngineStepOf
          <6>2. r = s
            BY <4>1, <6>1, SessionMoves
          <6>3. session'[s].phase # "received"
            <7>1. session[s].phase # "idle"
              BY <5>1, <6>2 DEF ServerStep, Serve, Replay, FirstSeen, Begin,
                   ApplyOne, Block, Refuse, Recognise, Admit, Ring, RingClash,
                   Poison, ReadCursor, Commit, Abort
            <7> QED BY <4>1, <7>1
          <6> QED BY <3>3, <6>3
        <5>2. ASSUME NEW r \in Sessions, Delivers(r) \/ Discard(r) PROVE FALSE
          <6>1. EngineStepOf(r) /\ Release(r)
            BY <5>2 DEF Delivers, Deliver, Discard, EngineStepOf
          <6>2. r = s
            BY <4>1, <6>1, SessionMoves
          <6> QED BY <4>1, <6>1, <6>2 DEF Release
        <5>3. ~TillStep /\ ~UNCHANGED vars
          BY <4>1 DEF TillStep, Draw, Record, GivesUp, GiveUp, Writes, Write, Restart, Replace,
                      engineVars, vars
        <5> QED BY <5>1, <5>2, <5>3 DEF Next
      <4>3. EngineStepOf(r) /\ Receive(r, BatchKey(Contents(Outstanding)),
                                       Contents(Outstanding))
        BY <4>2, SendIsReceive DEF EngineStepOf
      <4>4. r = s
        BY <4>1, <4>3, SessionMoves
      <4>5. /\ session'[s].key = BatchKey(Contents(Outstanding))
            /\ session'[s].items = Contents(Outstanding)
        BY <4>3, <4>4 DEF Receive, Free, BooksInv, EngineTypeOK
      <4> QED BY <2>2, <3>3, <4>2, <4>4, <4>5
    <3> QED BY <1>2, <2>2, <3>1, <3>2, <3>3, SessionMoves
  <2> QED BY <2>1, <2>2 DEF Sent
<1> QED BY <1>1, <1>2, EngineMoves

LEMMA SentType ==
    ASSUME SyncInv
    PROVE  Sent \subseteq [key : Keys \cup {NoKey}, items : [Seqs -> Sales \cup {NoSale}]]
BY SessionType DEF Sent, SyncInv, BooksInv, EngineTypeOK, SessionRecord

LEMMA SentInvKept ==
    ASSUME SyncInv, [Next]_vars
    PROVE  SentInv'
<1> USE DEF SyncInv
<1> SUFFICES ASSUME NEW b \in Sent'
             PROVE  /\ b.key = BatchKey(b.items)
                    /\ SeqsOf(b.items) # {}
                    /\ \A q \in SeqsOf(b.items) : b.items[q] \in recorded'
                    /\ b.items[FirstOf(b.items)] \in OnTill' =>
                          \A q \in FirstOf(b.items)..LastOf(b.items) :
                              /\ q \in Used'
                              /\ q \in Pending' => b.items[q] = rows'[q].uuid
  BY DEF SentInv, BatchKey, FirstOf, LastOf, SeqsOf
<1>1. CASE b \in Sent
  <2>1. b.items \in [Seqs -> Sales \cup {NoSale}]
    BY <1>1, SentType
  <2>2. /\ b.key = BatchKey(b.items) /\ SeqsOf(b.items) # {}
        /\ \A q \in SeqsOf(b.items) : b.items[q] \in recorded
    BY <1>1 DEF SentInv
  <2>3. b.items[FirstOf(b.items)] \in recorded
    BY <2>1, <2>2, FirstAndLast
  <2>4. ASSUME b.items[FirstOf(b.items)] \in OnTill',
               NEW q \in FirstOf(b.items)..LastOf(b.items)
        PROVE  q \in Used' /\ (q \in Pending' => b.items[q] = rows'[q].uuid)
    <3>1. OnTill' # {}
      BY <2>4
    <3>2. b.items[FirstOf(b.items)] \in OnTill
      BY <2>3, <2>4, <3>1, TableMoves
    <3>3. q \in Used /\ (q \in Pending => b.items[q] = rows[q].uuid)
      BY <1>1, <2>4, <3>2 DEF SentInv
    <3> QED BY <3>1, <3>3, TableMoves
  <2> QED BY <2>2, <2>4, TableMoves
<1>2. ASSUME NEW s \in Sessions, Sends(s),
             b = [key |-> BatchKey(Contents(Outstanding)),
                  items |-> Contents(Outstanding)]
      PROVE  /\ b.key = BatchKey(b.items)
             /\ SeqsOf(b.items) # {}
             /\ \A q \in SeqsOf(b.items) : b.items[q] \in recorded'
             /\ \A q \in FirstOf(b.items)..LastOf(b.items) :
                    /\ q \in Used'
                    /\ q \in Pending' => b.items[q] = rows'[q].uuid
  <2> DEFINE items == Contents(Outstanding)
  <2>1. /\ SeqsOf(items) = Outstanding /\ Outstanding # {}
        /\ Outstanding \subseteq Pending
        /\ items \in [Seqs -> Sales \cup {NoSale}]
    BY <1>2, SendIsReceive, OutstandingIsPrefix
  <2>2. UNCHANGED <<rows, recorded>>
    BY <1>2 DEF Sends, Send, FlushStart
  <2>3. FirstOf(items) \in Outstanding /\ LastOf(items) \in Outstanding
    BY <2>1, FirstAndLast
  <2>4. Pending \subseteq Used /\ Used \subseteq Seqs
    BY DEF Pending, Used
  <2>5. \A q \in Outstanding : items[q] = rows[q].uuid /\ q \in Seqs
    BY <2>1, <2>4 DEF Contents
  <2>6. ASSUME NEW q \in FirstOf(items)..LastOf(items)
        PROVE  q \in Used /\ (q \in Pending => items[q] = rows[q].uuid)
    <3> HIDE DEF items
    <3>1. LastOf(items) \in Used /\ LastOf(items) \in Nat
      <4>1. LastOf(items) \in Used /\ LastOf(items) \in Seqs
        BY <2>1, <2>3, <2>4
      <4>2. Seqs \subseteq Nat
        BY DEF Seqs
      <4> QED BY <4>1, <4>2
    <3>2. FirstOf(items) \in Seqs
      BY <2>1, <2>3, <2>4
    <3>3. q \in 1..LastOf(items)
      BY <2>6, <3>1, <3>2 DEF Seqs
    <3>4. q \in Used
      BY <3>1, <3>3 DEF QueueInv, NumbersRunOn
    <3>5. ASSUME q \in Pending PROVE q \in Outstanding
      <4>1. q = LastOf(items) \/ q < LastOf(items)
        BY <3>1, <3>3
      <4> QED BY <2>1, <2>3, <3>5, <4>1, OutstandingIsPrefix
    <3> QED BY <2>5, <3>4, <3>5
  <2>7. \A q \in Outstanding : items[q] \in recorded
    BY <2>1, <2>4, <2>5 DEF TableInv
  <2> HIDE DEF items
  <2>8. Used' = Used /\ Pending' = Pending
    BY <2>2 DEF Used, Pending
  <2>9. b = [key |-> BatchKey(items), items |-> items]
    BY <1>2 DEF items
  <2> QED BY <2>1, <2>2, <2>6, <2>7, <2>8, <2>9
<1> QED BY <1>1, <1>2, SentMoves

\* The key of a batch still on the till names no other batch: what is pending
\* between its ends is all its own, and there are as many as it says.
LEMMA NewKeyIsNew ==
    ASSUME SyncInv, NEW s \in Sessions, Sends(s), NEW b \in Sent,
           b.key = BatchKey(Contents(Outstanding))
    PROVE  b = [key |-> BatchKey(Contents(Outstanding)),
                items |-> Contents(Outstanding)]
<1> USE DEF SyncInv
<1> DEFINE items == Contents(Outstanding)
<1>1. /\ SeqsOf(items) = Outstanding /\ Outstanding # {}
      /\ Outstanding \subseteq Pending
      /\ items \in [Seqs -> Sales \cup {NoSale}]
  BY SendIsReceive, OutstandingIsPrefix
<1>2. /\ b.items \in [Seqs -> Sales \cup {NoSale}]
      /\ b \in [key : Keys \cup {NoKey}, items : [Seqs -> Sales \cup {NoSale}]]
  BY SentType
<1>3. b.key = BatchKey(b.items) /\ SeqsOf(b.items) # {}
  BY DEF SentInv
<1>4. \A q \in Outstanding : items[q] = rows[q].uuid /\ items[q] # NoSale
  BY <1>1 DEF Contents, SeqsOf
<1>5. \A q \in Outstanding : q \in FirstOf(items)..LastOf(items)
  BY <1>1, FirstAndLast
<1>6. FirstOf(items) \in Outstanding
  BY <1>1, FirstAndLast
<1>7. items[FirstOf(items)] \in OnTill
  BY <1>1, <1>4, <1>6 DEF OnTill, Used, Pending
<1> HIDE DEF items
<1>8. BatchKey(b.items) = BatchKey(items)
  BY <1>3 DEF items
<1>9. /\ FirstOf(b.items) = FirstOf(items) /\ LastOf(b.items) = LastOf(items)
      /\ b.items[FirstOf(b.items)] = items[FirstOf(items)]
      /\ Cardinality(SeqsOf(b.items)) = Cardinality(SeqsOf(items))
  BY <1>8 DEF BatchKey
<1>10. \A q \in Outstanding : b.items[q] = items[q]
  BY <1>1, <1>4, <1>5, <1>7, <1>9 DEF SentInv
<1>11. Outstanding \subseteq SeqsOf(b.items)
  BY <1>1, <1>4, <1>10 DEF SeqsOf
<1>12. SeqsOf(b.items) = Outstanding
  <2>1. IsFiniteSet(SeqsOf(b.items))
    BY <1>2, <1>3, FirstAndLast
  <2> QED BY <1>1, <1>9, <1>11, <2>1, FS_Subset
<1>13. \A q \in Seqs : b.items[q] = items[q]
  BY <1>1, <1>10, <1>12 DEF SeqsOf
<1>14. b.items = items
  BY <1>1, <1>2, <1>13
<1> QED BY <1>2, <1>3, <1>14 DEF items

LEMMA KeysKept ==
    ASSUME SyncInv, [Next]_vars
    PROVE  KeyNamesOneBatch'
<1> USE DEF SyncInv
<1> DEFINE new == [key |-> BatchKey(Contents(Outstanding)),
                   items |-> Contents(Outstanding)]
<1> SUFFICES ASSUME NEW x \in Sent', NEW y \in Sent', x.key = y.key
             PROVE  x = y
  BY DEF KeyNamesOneBatch
<1>1. x \in Sent \/ (x = new /\ \E s \in Sessions : Sends(s))
  BY SentMoves
<1>2. y \in Sent \/ (y = new /\ \E s \in Sessions : Sends(s))
  BY SentMoves
<1>3. ASSUME NEW s \in Sessions, Sends(s), NEW b \in Sent, b.key = new.key
      PROVE  b = new
  BY <1>3, NewKeyIsNew
<1> HIDE DEF new
<1> QED BY <1>1, <1>2, <1>3 DEF KeyNamesOneBatch

-----------------------------------------------------------------------------
(* What sync_item says, what a push answers, and what the till writes.     *)

LEMMA ItemOfBatchKept ==
    ASSUME SyncInv, [Next]_vars
    PROVE  ItemOfBatch'
<1> USE DEF SyncInv
<1>1. CASE UNCHANGED engineVars
  BY <1>1 DEF engineVars, ItemOfBatch
<1>2. ASSUME NEW s \in Sessions, EngineStepOf(s), ~Commit(s)
      PROVE  ItemOfBatch'
  BY <1>2, TablesKept DEF ItemOfBatch
<1>3. ASSUME NEW s \in Sessions, Commit(s)
      PROVE  ItemOfBatch'
  <2> DEFINE new == [key |-> session[s].key, items |-> session[s].items]
  <2>1. item' = Written(s) /\ batches' = batches \cup {new}
    BY <1>3 DEF Commit
  <2>2. new.key = session[s].key /\ new.items = session[s].items
    OBVIOUS
  <2> HIDE DEF new
  <2> SUFFICES ASSUME NEW q \in Seqs, item'[q].batch # NoKey
               PROVE  \E b \in batches' : /\ b.key = item'[q].batch
                                          /\ b.items[q] = item'[q].uuid
                                          /\ b.items[q] # NoSale
    BY DEF ItemOfBatch
  <2>3. CASE item'[q] = item[q]
    BY <2>1, <2>3 DEF ItemOfBatch
  <2>4. CASE item'[q] # item[q]
    <3>1. /\ q \in Recorded(s)
          /\ item'[q] = [uuid |-> session[s].items[q], batch |-> session[s].key,
                         state |-> session[s].verdict[q]]
      BY <2>1, <2>4 DEF Written
    <3>2. session[s].items[q] # NoSale
      BY <3>1 DEF AnswerInv, BatchSeqs, SeqsOf
    <3> QED BY <2>1, <2>2, <3>1, <3>2
  <2> QED BY <2>3, <2>4
<1> QED BY <1>1, <1>2, <1>3, EngineMoves

\* What a known key answers is about the sales of the push that asks.
LEMMA ReplayIsAboutTheBatch ==
    ASSUME SyncInv, NEW s \in Sessions, Replay(s), NEW q \in Seqs,
           item[q].batch = session[s].key
    PROVE  session[s].items[q] = item[q].uuid /\ item[q].uuid # NoSale
<1> USE DEF SyncInv
<1>1. session[s].key \in Keys /\ session[s].key # NoKey
  BY DEF Replay, BooksInv, Keyed
<1>2. PICK b \in batches : /\ b.key = session[s].key
                           /\ b.items[q] = item[q].uuid /\ b.items[q] # NoSale
  BY <1>1 DEF ItemOfBatch
<1>3. b \in Sent /\ [key |-> session[s].key, items |-> session[s].items] \in Sent
  BY <1>1 DEF Sent
<1>4. b = [key |-> session[s].key, items |-> session[s].items]
  BY <1>2, <1>3 DEF KeyNamesOneBatch
<1> QED BY <1>2, <1>4

LEMMA AnswerInvKept ==
    ASSUME SyncInv, [Next]_vars
    PROVE  AnswerInv'
<1> USE DEF SyncInv
<1> DEFINE Ok(t) == /\ \A q \in Seqs : session'[t].verdict[q] # Unheard
                                          => session'[t].items[q] # NoSale
                    /\ \A q \in Seqs :
                          /\ session'[t].phase = "replied"
                          /\ session'[t].verdict[q] \in Settled
                          => session'[t].items[q] \in Rung'
<1>1. ASSUME NEW t \in Sessions, session'[t] = session[t] PROVE Ok(t)
  <2>1. /\ \A q \in Seqs : session[t].verdict[q] # Unheard
                              => session[t].items[q] # NoSale
        /\ \A q \in Seqs :
              session[t].phase = "replied" /\ session[t].verdict[q] \in Settled
              => session[t].items[q] \in Rung
    BY DEF AnswerInv, Recorded, BatchSeqs, SeqsOf
  <2> QED BY <1>1, <2>1, BooksGrow
<1>2. ASSUME NEW s \in Sessions, EngineStepOf(s) PROVE Ok(s)
  <2>1. \A q \in Seqs : session[s].verdict[q] # Unheard
                           => session[s].items[q] # NoSale
    BY DEF AnswerInv, Recorded, BatchSeqs, SeqsOf
  <2>2. CASE session'[s].verdict = NoVerdict
    BY <2>2 DEF NoVerdict, Unheard, Settled
  <2>3. CASE Replay(s)
    <3>1. /\ session'[s].verdict = [q \in Seqs |-> IF item[q].batch = session[s].key
                                                   THEN item[q].state ELSE Unheard]
          /\ session'[s].items = session[s].items
      BY <2>3 DEF Replay, BooksInv, EngineTypeOK
    <3>2. ASSUME NEW q \in Seqs, session'[s].verdict[q] # Unheard
          PROVE  /\ session[s].items[q] # NoSale
                 /\ session[s].items[q] = item[q].uuid
                 /\ session'[s].verdict[q] = item[q].state
      BY <2>3, <3>1, <3>2, ReplayIsAboutTheBatch
    <3>3. Unheard \notin Settled
      BY DEF Unheard, Settled
    <3>4. ASSUME NEW q \in Seqs, session'[s].verdict[q] \in Settled
          PROVE  session'[s].items[q] \in Rung'
      <4>1. session'[s].verdict[q] # Unheard
        BY <3>3, <3>4
      <4>2. item[q].uuid \in Rung
        BY <3>2, <3>4, <4>1 DEF CursorInv, ItemRung
      <4> QED BY <3>1, <3>2, <4>1, <4>2, BooksGrow
    <3> QED BY <3>1, <3>2, <3>4
  <2>4. CASE FirstSeen(s) \/ Begin(s) \/ ReadCursor(s) \/ \E q \in Seqs : Admit(s, q)
    <3>1. /\ session'[s].verdict = session[s].verdict
          /\ session'[s].items = session[s].items
          /\ session'[s].phase # "replied"
      BY <2>4 DEF FirstSeen, Begin, ReadCursor, Admit, BooksInv, EngineTypeOK
    <3> QED BY <2>1, <3>1
  <2>5. ASSUME NEW q \in Seqs,
               Block(s, q) \/ Refuse(s, q) \/ Recognise(s, q) \/ Ring(s, q)
                           \/ RingClash(s, q)
        PROVE  Ok(s)
    <3>1. /\ session'[s].items = session[s].items
          /\ session'[s].phase = "check"
          /\ \E v \in Verdicts : session'[s].verdict = [session[s].verdict EXCEPT ![q] = v]
      <4>1. CASE Ring(s, q)
        BY <4>1 DEF Ring, BooksInv, EngineTypeOK, Verdicts, Settled
      <4>2. CASE ~Ring(s, q)
        <5>1. PICK v \in Verdicts : Verdict(s, q, v)
          BY <2>5, <4>2 DEF Block, Refuse, Recognise, RingClash, Verdicts, Settled
        <5> QED BY <5>1 DEF Verdict, BooksInv, EngineTypeOK
      <4> QED BY <4>1, <4>2
    <3>2. session[s].items[q] # NoSale
      BY <2>5 DEF Block, Refuse, Recognise, Ring, RingClash, IsNext, BatchSeqs, SeqsOf
    <3>3. \A p \in Seqs \ {q} : session'[s].verdict[p] = session[s].verdict[p]
      BY <3>1, SessionType DEF BooksInv, SessionRecord
    <3> QED BY <2>1, <3>1, <3>2, <3>3
  <2>6. CASE Commit(s)
    <3>1. /\ session'[s].verdict = session[s].verdict
          /\ session'[s].items = session[s].items
          /\ session[s].phase # "replied"
          /\ invoices' = invoices \cup session[s].rung
      BY <2>6 DEF Commit, BooksInv, EngineTypeOK
    <3>2. Rung' = UuidsOf(invoices \cup session[s].rung)
      BY <3>1 DEF Rung, UuidsOf
    <3> QED BY <2>1, <3>1, <3>2 DEF CursorInv, VerdictRung
  <2>7. CASE Abort(s) \/ Release(s) \/ \E q \in Seqs : Poison(s, q)
    <3>1. \/ session' = [session EXCEPT ![s] = Free]
          \/ session' = [session EXCEPT ![s] = [Free EXCEPT !.phase = "errored"]]
      BY <2>7 DEF Abort, Release, Poison
    <3>2. session'[s].verdict = NoVerdict
      BY <3>1 DEF Free, BooksInv, EngineTypeOK
    <3> QED BY <2>2, <3>2
  <2>8. ASSUME NEW p \in AnyPush, Receive(s, p[1], p[2])
        PROVE  session'[s].verdict = NoVerdict
    BY <2>8 DEF Receive, Free, BooksInv, EngineTypeOK
  <2> HIDE DEF Ok
  <2> QED BY <1>2, <2>2, <2>3, <2>4, <2>5, <2>6, <2>7, <2>8
             DEF EngineStepOf, Serve, ApplyOne
<1>3. \A t \in Sessions : Ok(t)
  <2>1. CASE UNCHANGED engineVars
    BY <1>1, <2>1 DEF engineVars
  <2>2. ASSUME NEW s \in Sessions, EngineStepOf(s) PROVE \A t \in Sessions : Ok(t)
    <3>1. \A t \in Sessions \ {s} : session'[t] = session[t]
      BY <2>2, SessionMoves
    <3> HIDE DEF Ok
    <3> QED BY <1>1, <1>2, <2>2, <3>1
  <2> HIDE DEF Ok
  <2> QED BY <2>1, <2>2, EngineMoves
<1> QED BY <1>3 DEF AnswerInv, Recorded, BatchSeqs, SeqsOf

\* What a step may do to the flush of a mount.
LEMMA FlushMoves ==
    ASSUME SyncInv, [Next]_vars, NEW m \in Mounts
    PROVE  \/ flush'[m] = flush[m] /\ on'[m] = on[m]
           \/ flush'[m] = Resting /\ on'[m] = NoSession
           \/ Write(m)
           \/ \E s \in Sessions : Send(m, s)
           \/ \E s \in Sessions : /\ Deliver(m, s) /\ session[s].phase = "replied"
                                  /\ FlushAnswered(m, session[s].verdict)
<1>0. flush \in [Mounts -> Flushes] /\ on \in [Mounts -> Sessions \cup {NoSession}]
  BY DEF SyncInv, TypeOK, TillTypeOK
<1>1. ASSUME NEW u \in Sales, Draw(u) \/ Record(u)
      PROVE  flush'[m] = flush[m] /\ on'[m] = on[m]
  BY <1>1 DEF Draw, DrawSeq, Record, Put
<1>2. ASSUME NEW n \in Mounts, GiveUp(n)
      PROVE  \/ flush'[m] = flush[m] /\ on'[m] = on[m]
             \/ flush'[m] = Resting /\ on'[m] = NoSession
  BY <1>0, <1>2 DEF GiveUp, FlushThrew
<1>3. ASSUME NEW n \in Mounts, Write(n), n # m
      PROVE  flush'[m] = flush[m] /\ on'[m] = on[m]
  <2>1. PICK seqs : flush' = [flush EXCEPT ![n] = Strike(n, seqs)]
    BY <1>3 DEF Write, Mark, MarkFailed, MarkSettled
  <2> QED BY <1>0, <1>3, <2>1 DEF Write
<1>4. CASE Restart \/ Replace
  BY <1>4 DEF Restart, TillRestart, Replace
<1>5. ASSUME NEW n \in Mounts, NEW s \in Sessions, Send(n, s), n # m
      PROVE  flush'[m] = flush[m] /\ on'[m] = on[m]
  BY <1>0, <1>5 DEF Send, FlushStart
<1>6. ASSUME NEW s \in Sessions, ServerStep(s) \/ Discard(s)
      PROVE  flush'[m] = flush[m] /\ on'[m] = on[m]
  BY <1>6 DEF ServerStep, Discard, tillVars
<1>7. ASSUME NEW n \in Mounts, NEW s \in Sessions, Deliver(n, s), n # m
      PROVE  flush'[m] = flush[m] /\ on'[m] = on[m]
  BY <1>0, <1>7 DEF Deliver, FlushAnswered, FlushThrew
<1>8. ASSUME NEW s \in Sessions, Deliver(m, s), ~FlushAnswered(m, session[s].verdict)
      PROVE  flush'[m] = Resting /\ on'[m] = NoSession
  BY <1>0, <1>8 DEF Deliver, FlushThrew
<1>9. ASSUME NEW s \in Sessions, Deliver(m, s), session[s].phase # "replied"
      PROVE  flush'[m] = Resting /\ on'[m] = NoSession
  BY <1>0, <1>9 DEF Deliver, FlushThrew
<1>10. CASE UNCHANGED vars
  BY <1>10 DEF vars, tillVars
<1> QED BY <1>1, <1>2, <1>3, <1>4, <1>5, <1>6, <1>7, <1>8, <1>9, <1>10
           DEF Next, TillStep, Sends, Delivers, GivesUp, Writes

\* A verdict a flush holds, it held before, or it was just told of the sale
\* that the number stands for.
LEMMA VerdictsHeard ==
    ASSUME SyncInv, [Next]_vars, NEW m \in Mounts, NEW q \in Seqs,
           flush'[m].verdict[q] # Unheard
    PROVE  \/ flush[m].verdict[q] = flush'[m].verdict[q]
           \/ /\ rows' = rows
              /\ \E s \in Sessions :
                    /\ Deliver(m, s) /\ session[s].phase = "replied"
                    /\ session[s].verdict[q] = flush'[m].verdict[q]
                    /\ session[s].items[q] = rows[q].uuid
<1>0. flush \in [Mounts -> Flushes] /\ TillTypeOK
  BY DEF SyncInv, TypeOK, TillTypeOK
<1>1. flush'[m] # Resting
  BY DEF Resting, NoVerdict
<1>2. CASE Write(m)
  <2>1. PICK seqs : /\ flush[m].pc = "mark"
                    /\ flush' = [flush EXCEPT ![m] = Strike(m, seqs)]
    BY <1>2 DEF Write, Mark, MarkFailed, MarkSettled
  <2> QED BY <1>0, <2>1, StrikeType
<1>3. ASSUME NEW s \in Sessions, Send(m, s)
      PROVE  flush'[m].verdict = flush[m].verdict
  BY <1>0, <1>3 DEF Send, FlushStart, Flushes
<1>4. ASSUME NEW s \in Sessions, Deliver(m, s), session[s].phase = "replied",
             FlushAnswered(m, session[s].verdict)
      PROVE  /\ rows' = rows
             /\ session[s].verdict[q] = flush'[m].verdict[q]
             /\ session[s].items[q] = rows[q].uuid
  <2> DEFINE heard == [p \in Seqs |-> IF session[s].verdict[p] = "blocked"
                                      THEN Unheard ELSE session[s].verdict[p]]
  <2>1. flush'[m].verdict = heard
    BY <1>0, <1>1, <1>4 DEF FlushAnswered
  <2>2. session[s].verdict[q] = flush'[m].verdict[q]
    BY <2>1
  <2> HIDE DEF heard
  <2>3. session[s].items = Contents(flush[m].batch) /\ q \in flush[m].batch
    BY <1>4, <2>2, AnswerFitsFlush
  <2>4. session[s].items[q] = rows[q].uuid
    BY <2>3 DEF Contents
  <2> QED BY <1>4, <2>2, <2>4 DEF FlushAnswered
<1> QED BY <1>1, <1>2, <1>3, <1>4, FlushMoves

\* The server's steps on a session in progress leave it in progress, about the
\* same items, or in error.
LEMMA ServedStays ==
    ASSUME SyncInv, NEW s \in Sessions, ServerStep(s)
    PROVE  /\ session[s].phase \notin {"idle", "errored"}
           /\ session'[s].phase # "idle"
           /\ session'[s].phase # "errored" => session'[s].items = session[s].items
           /\ \A t \in Sessions \ {s} : session'[t] = session[t]
<1> USE DEF SyncInv
<1>1. session[s].phase \notin {"idle", "replied", "errored"}
  BY DEF ServerStep, Serve, Replay, FirstSeen, Begin, ApplyOne, Block,
       Refuse, Recognise, Admit, Ring, RingClash, Poison, ReadCursor, Commit, Abort
<1>2. EngineStepOf(s) /\ ~Release(s) /\ \A p \in AnyPush : ~Receive(s, p[1], p[2])
  BY <1>1 DEF ServerStep, EngineStepOf, Release, Receive
<1>3. ASSUME session'[s].phase = "idle" PROVE FALSE
  <2>1. ASSUME Abort(s) \/ \E q \in Seqs : Poison(s, q) PROVE FALSE
    <3>1. session' = [session EXCEPT ![s] = [Free EXCEPT !.phase = "errored"]]
      BY <2>1 DEF Abort, Poison
    <3> QED BY <1>3, <3>1 DEF Free, BooksInv, EngineTypeOK
  <2>2. ASSUME Serve(s), \A q \in Seqs : ~Poison(s, q) PROVE FALSE
    <3>1. ASSUME Replay(s) \/ FirstSeen(s) \/ Begin(s) \/ ReadCursor(s) \/ Commit(s)
          PROVE  FALSE
      BY <1>3, <3>1 DEF Replay, FirstSeen, Begin, ReadCursor, Commit,
           BooksInv, EngineTypeOK
    <3>2. ASSUME NEW q \in Seqs, ApplyOne(s, q), ~Poison(s, q) PROVE FALSE
      BY <1>3, <3>2 DEF ApplyOne, Block, Refuse, Recognise, Admit, Ring,
           RingClash, Verdict, BooksInv, EngineTypeOK
    <3> QED BY <2>2, <3>1, <3>2 DEF Serve
  <2> QED BY <2>1, <2>2 DEF ServerStep
<1> QED BY <1>1, <1>2, <1>3, SessionMoves

\* The contents of a push in hand do not change while the table stays.
LEMMA ContentsStay ==
    ASSUME SyncInv, [Next]_vars, ~Replace, NEW m \in Mounts, flush'[m].batch = flush[m].batch
    PROVE  Contents(flush[m].batch)' = Contents(flush[m].batch)
<1>1. flush[m].batch \subseteq Used
  BY DEF SyncInv, QueueInv, InFlightIsPending, InHand, Pending, Used
<1>2. \A q \in Used : rows'[q].uuid = rows[q].uuid
  BY VerdictsStay DEF KeepsVerdicts
<1> QED BY <1>1, <1>2 DEF Contents

LEMMA FlushInvKept ==
    ASSUME SyncInv, [Next]_vars
    PROVE  FlushInv'
<1> USE DEF SyncInv
<1>0. /\ flush \in [Mounts -> Flushes] /\ on \in [Mounts -> Sessions \cup {NoSession}]
      /\ on' \in [Mounts -> Sessions \cup {NoSession}]
  BY TypeKept DEF TypeOK, TillTypeOK
<1>1. ASSUME NEW m \in Mounts PROVE Told(m)'
  <2> SUFFICES ASSUME NEW q \in Seqs, flush'[m].verdict[q] \in Settled
               PROVE  rows'[q].uuid \in Rung'
    BY DEF Told
  <2>1. flush'[m].verdict[q] # Unheard
    BY DEF Unheard, Settled
  <2>2. CASE flush[m].verdict[q] = flush'[m].verdict[q]
    <3>1. rows[q].uuid \in Rung
      BY <2>2 DEF FlushInv, Told
    <3>2. q \in Used
      BY <2>1, <2>2 DEF QueueInv, InFlightIsPending, InHand, Pending, Used
    <3>3. ~Replace
      BY <2>1 DEF Replace, Resting, NoVerdict
    <3> QED BY <3>1, <3>2, <3>3, VerdictsStay, BooksGrow DEF KeepsVerdicts
  <2>3. ASSUME rows' = rows, NEW s \in Sessions, session[s].phase = "replied",
               session[s].verdict[q] = flush'[m].verdict[q],
               session[s].items[q] = rows[q].uuid
        PROVE  rows'[q].uuid \in Rung'
    BY <2>3, BooksGrow DEF AnswerInv
  <2> QED BY <2>1, <2>2, <2>3, VerdictsHeard
<1>2. ASSUME NEW m \in Mounts, on'[m] = on[m], on[m] # NoSession, flush'[m] = flush[m],
             session'[on[m]] = session[on[m]], ~Replace
      PROVE  Waits(m)'
  BY <1>2, ContentsStay DEF FlushInv, Waits
<1>3. ASSUME NEW m \in Mounts PROVE Waits(m)'
  <2> SUFFICES ASSUME on'[m] # NoSession PROVE Waits(m)'
    BY DEF Waits
  <2>1. ~Replace
    BY DEF Replace
  <2>2. CASE Write(m)
    <3>1. on' = on /\ flush[m].pc = "mark"
      BY <2>2 DEF Write, Mark, MarkFailed, MarkSettled
    <3> QED BY <3>1 DEF FlushInv, Waits
  <2>3. ASSUME NEW s \in Sessions, Send(m, s) PROVE Waits(m)'
    <3>1. /\ on' = [on EXCEPT ![m] = s] /\ rows' = rows
          /\ flush' = [flush EXCEPT ![m] = [@ EXCEPT !.pc = "await", !.batch = Outstanding]]
          /\ Receive(s, BatchKey(Contents(Outstanding)), Contents(Outstanding))
      BY <2>3 DEF Send, FlushStart
    <3>2. /\ session'[s].phase = "received"
          /\ session'[s].items = Contents(Outstanding)
      BY <3>1 DEF Receive, Free, BooksInv, EngineTypeOK
    <3>3. /\ flush'[m].pc = "await" /\ flush'[m].batch = Outstanding /\ on'[m] = s
      BY <1>0, <3>1 DEF Flushes
    <3>4. Contents(flush[m].batch)' = Contents(Outstanding)
      BY <3>1, <3>3 DEF Contents
    <3> QED BY <3>2, <3>3, <3>4 DEF Waits
  <2>4. ASSUME NEW s \in Sessions, Deliver(m, s) PROVE FALSE
    BY <1>0, <2>4 DEF Deliver
  <2>5. CASE flush'[m] = flush[m] /\ on'[m] = on[m]
    <3>1. on[m] \in Sessions /\ session[on[m]].phase # "idle"
      BY <1>0, <2>5 DEF FlushInv, Waits
    <3>2. CASE session'[on[m]] = session[on[m]]
      BY <1>2, <2>1, <2>5, <3>2
    <3>3. ASSUME NEW s \in Sessions, ServerStep(s) PROVE Waits(m)'
      <4>1. CASE s = on[m]
        BY <2>1, <2>5, <3>3, <4>1, ServedStays, ContentsStay DEF FlushInv, Waits
      <4>2. CASE s # on[m]
        BY <3>1, <3>2, <3>3, <4>2, ServedStays
      <4> QED BY <4>1, <4>2
    <3>4. ASSUME NEW s \in Sessions, Discard(s) \/ Delivers(s)
          PROVE  session'[on[m]] = session[on[m]]
      <4>1. s # on[m]
        BY <1>0, <2>5, <3>1, <3>4 DEF Discard, Delivers, Deliver, FlushInv
      <4>2. Release(s)
        BY <3>4 DEF Discard, Delivers, Deliver
      <4> QED BY <3>1, <4>1, <4>2 DEF Release, BooksInv, EngineTypeOK
    <3>5. ASSUME NEW s \in Sessions, Sends(s) PROVE session'[on[m]] = session[on[m]]
      <4>1. PICK key, items : Receive(s, key, items)
        BY <3>5 DEF Sends, Send
      <4> QED BY <3>1, <4>1 DEF Receive, BooksInv, EngineTypeOK
    <3>6. CASE TillStep
      <4>1. UNCHANGED engineVars
        BY <2>1, <3>6 DEF TillStep, Draw, Record, GivesUp, GiveUp, Writes, Write, Restart
      <4> QED BY <3>2, <4>1 DEF engineVars
    <3>7. CASE UNCHANGED vars
      BY <3>2, <3>7 DEF vars, engineVars
    <3> QED BY <3>2, <3>3, <3>4, <3>5, <3>6, <3>7 DEF Next
  <2> QED BY <2>2, <2>3, <2>4, <2>5, FlushMoves
<1>4. ASSUME NEW m \in Mounts, NEW n \in Mounts, on'[m] = on'[n], on'[m] # NoSession
      PROVE  m = n
  <2>1. ASSUME NEW k \in Mounts, on'[k] # NoSession
        PROVE  on'[k] = on[k] \/ \E s \in Sessions : Send(k, s)
    BY <1>0, <2>1, FlushMoves DEF Write, Deliver
  <2>2. ASSUME NEW k \in Mounts, NEW l \in Mounts, NEW s \in Sessions, Send(k, s),
               k # l, on'[k] = on'[l]
        PROVE  FALSE
    <3>1. on' = [on EXCEPT ![k] = s] /\ session[s].phase = "idle"
      BY <2>2 DEF Send, Receive
    <3>2. on[l] = s
      BY <1>0, <2>2, <3>1
    <3> QED BY <3>1, <3>2 DEF FlushInv, Waits
  <2> QED BY <1>4, <2>1, <2>2 DEF FlushInv
<1> QED BY <1>1, <1>3, <1>4 DEF FlushInv

LEMMA SettledIsRungKept ==
    ASSUME SyncInv, [Next]_vars
    PROVE  SettledIsRung'
<1> USE DEF SyncInv
<1> SUFFICES ASSUME NEW q \in Seqs, rows'[q].state \in Settled
             PROVE  rows'[q].uuid \in Rung'
  BY DEF SettledIsRung, Settled
<1>1. CASE Writes
  <2>1. rows'[q].uuid = rows[q].uuid
    BY <1>1, WriteEffect
  <2>2. CASE rows[q].state \in Settled
    BY <2>1, <2>2, BooksGrow DEF SettledIsRung
  <2>3. CASE rows[q].state \notin Settled
    <3>1. PICK m \in Mounts : flush[m].verdict[q] \in Settled
      BY <1>1, <2>3, WriteEffect
    <3> QED BY <2>1, <3>1, BooksGrow DEF FlushInv, Told
  <2> QED BY <2>2, <2>3
<1>2. ASSUME Replace PROVE FALSE
  BY <1>2 DEF Replace, NoRow, Settled
<1>3. ASSUME NEW u \in Sales, Record(u) PROVE rows'[q].uuid \in Rung'
  <2>1. rows'[q] = rows[q]
    <3>1. CASE rows' = rows
      BY <3>1
    <3>2. CASE /\ drawn[u] \in Seqs
               /\ rows' = [rows EXCEPT ![drawn[u]] = [uuid |-> u, state |-> "pending"]]
      <4>1. rows'[drawn[u]].state = "pending"
        BY <3>2 DEF TypeOK, TillTypeOK
      <4>2. q # drawn[u]
        BY <4>1 DEF Settled
      <4> QED BY <3>2, <4>2 DEF TypeOK, TillTypeOK
    <3> QED BY <1>3, <3>1, <3>2, RecordEffect
  <2> QED BY <2>1, BooksGrow DEF SettledIsRung
<1>4. CASE ~Writes /\ ~Replace /\ \A u \in Sales : ~Record(u)
  BY <1>4, RowsKept, BooksGrow DEF SettledIsRung
<1> QED BY <1>1, <1>2, <1>3, <1>4

-----------------------------------------------------------------------------
(* The theorems.                                                           *)

LEMMA SyncInvInit == Init => SyncInv
<1> SUFFICES ASSUME Init PROVE SyncInv
  OBVIOUS
<1>1. QueueInv /\ BooksInv /\ CursorInv
  BY QueueInvInit, BooksInvInit, CursorInvInit DEF Init
<1>2. TypeOK
  BY <1>1 DEF TypeOK, QueueInv, BooksInv, Init
<1>3. Used = {} /\ \A q \in Seqs : rows[q] = NoRow
  BY DEF Init, TillInit, Used, NoRow
<1>4. TableInv
  BY <1>3 DEF TableInv, Init, TillInit
<1>5. Sent = {}
  BY DEF Sent, Init, EngineInit, Free
<1>6. SentInv /\ KeyNamesOneBatch
  BY <1>5 DEF SentInv, KeyNamesOneBatch
<1>7. ItemOfBatch
  BY DEF ItemOfBatch, Init, EngineInit, NoItem
<1>8. AnswerInv
  BY DEF AnswerInv, Recorded, Init, EngineInit, Free, NoVerdict, Unheard, Settled
<1>9. FlushInv /\ SettledIsRung
  BY <1>3 DEF FlushInv, Waits, Told, SettledIsRung, Init, TillInit, Resting, NoVerdict,
              Unheard, NoRow, Settled
<1> QED BY <1>1, <1>2, <1>4, <1>6, <1>7, <1>8, <1>9 DEF SyncInv

LEMMA SyncInvStep == SyncInv /\ [Next]_vars => SyncInv'
BY TypeKept, QueueInvKept, EngineInvKept, TableInvKept, SentInvKept,
   ItemOfBatchKept, AnswerInvKept, FlushInvKept, KeysKept, SettledIsRungKept
   DEF SyncInv

LEMMA SyncInvariant == Spec => []SyncInv
BY SyncInvInit, SyncInvStep, PTL DEF Spec

\* Every reachable state is well typed.
THEOREM TypeCorrect == Spec => []TypeOK
<1>1. SyncInv => TypeOK
  BY DEF SyncInv
<1> QED BY <1>1, SyncInvariant, PTL

\* While one machine carries the terminal, a verdict on it is written over
\* only where the flushes of two mounts crossed.
THEOREM VerdictKept == Spec => VerdictIsKept
<1>1. SyncInv /\ [Next]_vars => [machine' = machine => KeepsVerdicts]_vars
  <2> SUFFICES ASSUME SyncInv, [Next]_vars, machine' = machine PROVE KeepsVerdicts
    OBVIOUS
  <2>1. ~Replace
    BY DEF Replace, SyncInv, TypeOK
  <2> QED BY <2>1, VerdictsStay
<1> QED BY <1>1, SyncInvariant, PTL DEF Spec, VerdictIsKept

\* Two pushes under one key carry the same sales, through restarts, overtaken
\* answers and replaced machines: batchKey, and what the replay check rests on.
THEOREM KeysCorrect == Spec => []KeyNamesOneBatch
<1>1. SyncInv => KeyNamesOneBatch
  BY DEF SyncInv
<1> QED BY <1>1, SyncInvariant, PTL

\* What the till shows as landed is in the server's books, whether the push
\* that said so was served or replayed: SaleQueue.flush, priorResult.
THEOREM LandedIsRung == Spec => []SettledIsRung
<1>1. SyncInv => SettledIsRung
  BY DEF SyncInv
<1> QED BY <1>1, SyncInvariant, PTL

\* The composition does nothing to the server that the engine alone, pushed
\* anything by anyone, could not do: what is proved of it holds here.
THEOREM ImplementsEngine == Spec => EngineSpec
<1>1. Init => EngineInit
  BY DEF Init
<1>2. SyncInv /\ [Next]_vars => [EngineNext]_engineVars
  BY StepOfEngine
<1> QED BY <1>1, <1>2, SyncInvariant, PTL DEF Spec, EngineSpec

-----------------------------------------------------------------------------
(* What the three statements about order and evidence rest on.             *)

\* One push serves its items in order: what it has rung follows verdicts that
\* are settled, and from its first refusal on it rings nothing.
InOrder(s) ==
    /\ session[s].phase \in {"received", "begin"} => session[s].verdict = NoVerdict
    /\ session[s].phase = "ring" => ~Stalled(s)
    /\ Open(s) =>
          /\ ~Stalled(s) => \A q \in Seqs : session[s].verdict[q] # "blocked"
          /\ \A q \in Seqs : session[s].verdict[q] = "applied" =>
                \A p \in BatchSeqs(s) : p < q => session[s].verdict[p] \in Settled
          /\ \A x \in session[s].rung :
                \E q \in BatchSeqs(s) : /\ session[s].verdict[q] = "applied"
                                        /\ session[s].items[q] = x.uuid

\* A verdict that is answered, being written down, or shown has its row.
Shows(q)   == item[q].state # "none"
EvidenceInv ==
    /\ \A q \in Seqs : Shows(q) => item[q].batch # NoKey
    /\ \A s \in Sessions, q \in Seqs :
           session[s].phase = "replied" /\ session[s].verdict[q] # Unheard => Shows(q)
    /\ \A m \in Mounts, q \in Seqs : flush[m].verdict[q] # Unheard => Shows(q)
    /\ \A q \in Seqs : rows[q].state \notin {"none", "pending"} => Shows(q)

\* A push whose sales are still on the till was read off this table: under
\* the same numbers, with everything that is still pending before them.
ReadOff(b) ==
    \A q \in SeqsOf(b.items) :
        b.items[q] \in OnTill =>
            /\ q \in Used
            /\ rows[q].uuid = b.items[q]
            /\ \A p \in Pending : p < q => b.items[p] = rows[p].uuid

OrderInv ==
    /\ \A s \in Sessions : InOrder(s)
    /\ EvidenceInv
    /\ \A b \in Sent : ReadOff(b)
    /\ machine = 0 => \A b \in Sent : \A q \in SeqsOf(b.items) : b.items[q] \in OnTill
    /\ Rung \subseteq recorded
    /\ OnlyRefusedAreOvertaken

\* A row of sync_item, once there, stays.
LEMMA RowsOfItemStay ==
    ASSUME SyncInv, [Next]_vars, NEW q \in Seqs, Shows(q)
    PROVE  Shows(q)'
<1> USE DEF SyncInv
<1>1. CASE UNCHANGED engineVars
  BY <1>1 DEF engineVars, Shows
<1>2. ASSUME NEW s \in Sessions, EngineStepOf(s) PROVE Shows(q)'
  <2>1. CASE Commit(s)
    BY <2>1 DEF Commit, Written, Recorded, Unheard, Shows
  <2>2. CASE ~Commit(s)
    BY <1>2, <2>2, TablesKept DEF Shows
  <2> QED BY <2>1, <2>2
<1> QED BY <1>1, <1>2, EngineMoves

LEMMA InOrderKept ==
    ASSUME SyncInv, [Next]_vars, \A s \in Sessions : InOrder(s)
    PROVE  \A s \in Sessions : InOrder(s)'
<1> USE DEF SyncInv
<1>1. CASE UNCHANGED engineVars
  BY <1>1 DEF engineVars, InOrder, Stalled, Open, BatchSeqs, SeqsOf
<1>2. ASSUME NEW s \in Sessions, EngineStepOf(s), NEW t \in Sessions \ {s}
      PROVE  InOrder(t)'
  BY <1>2, SessionMoves DEF InOrder, Stalled, Open, BatchSeqs, SeqsOf
<1>3. ASSUME NEW s \in Sessions, EngineStepOf(s) PROVE InOrder(s)'
  <2> DEFINE now == session[s]
             new == session'[s]
  <2>0. now \in SessionRecord
    BY SessionType DEF BooksInv
  <2>1. ASSUME NEW p \in AnyPush, Receive(s, p[1], p[2]) PROVE InOrder(s)'
    <3>1. new.phase = "received" /\ new.verdict = NoVerdict
      BY <2>1 DEF Receive, Free, BooksInv, EngineTypeOK
    <3> QED BY <3>1 DEF InOrder, Open
  <2>2. CASE \/ Abort(s) \/ Release(s) \/ Replay(s) \/ Commit(s)
             \/ \E q \in Seqs : Poison(s, q)
    <3>1. new.phase \in {"idle", "errored", "replied"}
      BY <2>2 DEF Abort, Release, Replay, Commit, Poison, Free, BooksInv, EngineTypeOK
    <3> QED BY <3>1 DEF InOrder, Open
  <2>3. CASE FirstSeen(s)
    <3>1. new.phase = "begin" /\ new.verdict = now.verdict /\ now.phase = "received"
      BY <2>3 DEF FirstSeen, BooksInv, EngineTypeOK
    <3> QED BY <1>3, <3>1 DEF InOrder, Open
  <2>4. CASE Begin(s)
    <3>1. /\ new.phase \in {"errored", "check"} /\ now.phase = "begin"
          /\ new.verdict = now.verdict /\ new.rung = now.rung
      BY <2>4 DEF Begin, BooksInv, EngineTypeOK
    <3>2. now.rung = {}
      BY <3>1 DEF BooksInv, RungInOpen, Open
    <3>3. new.verdict = NoVerdict
      BY <3>1 DEF InOrder
    <3> QED BY <3>1, <3>2, <3>3 DEF InOrder, Open, NoVerdict, Unheard
  <2>5. CASE ReadCursor(s) \/ \E q \in Seqs : Admit(s, q)
    <3>1. /\ new.verdict = now.verdict /\ new.rung = now.rung /\ new.items = now.items
          /\ now.phase = "check" /\ new.phase \in {"cursor", "ring"}
          /\ new.phase = "ring" => ~Stalled(s)
      BY <2>5 DEF ReadCursor, Admit, BooksInv, EngineTypeOK
    <3> QED BY <3>1 DEF InOrder, Open, Stalled, BatchSeqs, SeqsOf
  <2>6. ASSUME NEW q \in Seqs,
               Block(s, q) \/ Refuse(s, q) \/ Recognise(s, q) \/ RingClash(s, q)
        PROVE  InOrder(s)'
    <3>1. PICK v \in {"blocked", "failed", "duplicate"} :
              /\ Verdict(s, q, v)
              /\ v = "blocked" => Stalled(s)
      BY <2>6 DEF Block, Refuse, Recognise, RingClash
    <3>2. /\ new.phase = "check" /\ new.rung = now.rung /\ new.items = now.items
          /\ new.verdict = [now.verdict EXCEPT ![q] = v]
      BY <3>1 DEF Verdict, BooksInv, EngineTypeOK
    <3>3. new.verdict[q] = v /\ \A p \in Seqs \ {q} : new.verdict[p] = now.verdict[p]
      BY <2>0, <3>2 DEF SessionRecord
    <3>4. Open(s) /\ now.verdict[q] = Unheard
      BY <2>6 DEF Block, Refuse, Recognise, RingClash, Open, IsNext, Recorded, BatchSeqs, SeqsOf
    <3>5. q \in BatchSeqs(s)
      BY <2>6 DEF Block, Refuse, Recognise, RingClash, IsNext
    <3>6. ASSUME ~Stalled(s)', NEW p \in Seqs PROVE new.verdict[p] # "blocked"
      <4>1. ~Stalled(s) /\ v # "failed"
        BY <3>3, <3>4, <3>6 DEF Stalled, Unheard
      <4> QED BY <3>1, <3>3, <3>4, <4>1 DEF InOrder
    <3>7. ASSUME NEW r \in Seqs, new.verdict[r] = "applied",
                 NEW p \in BatchSeqs(s), p < r
          PROVE  new.verdict[p] \in Settled
      <4>1. r # q /\ now.verdict[r] = "applied"
        BY <3>1, <3>3, <3>7
      <4>2. now.verdict[p] \in Settled
        BY <3>4, <3>7, <4>1 DEF InOrder
      <4>3. p # q /\ p \in Seqs
        BY <3>4, <4>2 DEF Unheard, Settled, BatchSeqs, SeqsOf
      <4> QED BY <3>3, <4>2, <4>3
    <3>8. ASSUME NEW x \in new.rung
          PROVE  \E r \in BatchSeqs(s) : /\ new.verdict[r] = "applied"
                                         /\ new.items[r] = x.uuid
      <4>1. PICK r \in BatchSeqs(s) : now.verdict[r] = "applied" /\ now.items[r] = x.uuid
        BY <3>2, <3>4, <3>8 DEF InOrder
      <4>2. r # q /\ r \in Seqs
        BY <3>4, <4>1 DEF Unheard, BatchSeqs, SeqsOf
      <4> QED BY <3>2, <3>3, <4>1, <4>2
    <3>9. BatchSeqs(s)' = BatchSeqs(s)
      BY <3>2 DEF BatchSeqs, SeqsOf
    <3> HIDE DEF now, new
    <3> QED BY <3>2, <3>6, <3>7, <3>8, <3>9 DEF InOrder, Open, now, new
  <2>7. ASSUME NEW q \in Seqs, Ring(s, q) PROVE InOrder(s)'
    <3> DEFINE x == [uuid |-> now.items[q], no |-> lastNo + Cardinality(now.rung) + 1]
    <3>1. /\ new.phase = "check" /\ new.items = now.items
          /\ new.verdict = [now.verdict EXCEPT ![q] = "applied"]
          /\ new.rung = now.rung \cup {x}
      BY <2>7 DEF Ring, BooksInv, EngineTypeOK
    <3>2. x.uuid = now.items[q]
      OBVIOUS
    <3> HIDE DEF x
    <3>3. /\ new.verdict[q] = "applied"
          /\ \A p \in Seqs \ {q} : new.verdict[p] = now.verdict[p]
      BY <2>0, <3>1 DEF SessionRecord
    <3>4. /\ Open(s) /\ now.verdict[q] = Unheard /\ q \in BatchSeqs(s) /\ ~Stalled(s)
          /\ \A p \in BatchSeqs(s) \ Recorded(s) : q =< p
      BY <2>7 DEF Ring, Open, IsNext, Recorded, BatchSeqs, SeqsOf, InOrder
    <3>5. \A p \in Seqs : now.verdict[p] \notin {"failed", "blocked"}
      BY <3>4 DEF InOrder, Stalled
    <3>6. \A p \in Seqs : new.verdict[p] \notin {"failed", "blocked"}
      BY <3>3, <3>5
    <3>7. ASSUME NEW r \in Seqs, new.verdict[r] = "applied",
                 NEW p \in BatchSeqs(s), p < r
          PROVE  new.verdict[p] \in Settled
      <4>1. p \in Seqs /\ r \in Seqs
        BY DEF BatchSeqs, SeqsOf
      <4>2. CASE r = q
        <5>1. ~(q =< p)
          BY <3>7, <4>1, <4>2 DEF Seqs
        <5>2. p \in Recorded(s) /\ p # q
          BY <3>4, <3>7, <4>2, <5>1, <4>1 DEF Seqs
        <5>3. now.verdict[p] \in Settled
          BY <2>0, <3>5, <4>1, <5>2 DEF Recorded, SessionRecord, Verdicts
        <5> QED BY <3>3, <4>1, <5>2, <5>3
      <4>3. CASE r # q
        <5>1. now.verdict[p] \in Settled
          BY <3>3, <3>4, <3>7, <4>3 DEF InOrder
        <5> QED BY <3>3, <4>1, <5>1 DEF Settled
      <4> QED BY <4>2, <4>3
    <3>8. ASSUME NEW y \in new.rung
          PROVE  \E r \in BatchSeqs(s) : /\ new.verdict[r] = "applied"
                                         /\ new.items[r] = y.uuid
      <4>1. CASE y = x
        BY <3>1, <3>2, <3>3, <3>4, <4>1
      <4>2. CASE y \in now.rung
        <5>1. PICK r \in BatchSeqs(s) : now.verdict[r] = "applied" /\ now.items[r] = y.uuid
          BY <3>4, <4>2 DEF InOrder
        <5>2. r # q /\ r \in Seqs
          BY <3>4, <5>1 DEF Unheard, BatchSeqs, SeqsOf
        <5> QED BY <3>1, <3>3, <5>1, <5>2
      <4> QED BY <3>1, <3>8, <4>1, <4>2
    <3>9. BatchSeqs(s)' = BatchSeqs(s)
      BY <3>1 DEF BatchSeqs, SeqsOf
    <3> HIDE DEF now, new
    <3> QED BY <3>1, <3>6, <3>7, <3>8, <3>9 DEF InOrder, Open, now, new
  <2> HIDE DEF now, new
  <2> QED BY <1>3, <2>1, <2>2, <2>3, <2>4, <2>5, <2>6, <2>7
             DEF EngineStepOf, Serve, ApplyOne
<1>4. ASSUME NEW s \in Sessions, EngineStepOf(s), NEW t \in Sessions
      PROVE  InOrder(t)'
  BY <1>2, <1>3, <1>4
<1> QED BY <1>1, <1>4, EngineMoves

LEMMA EvidenceKept ==
    ASSUME SyncInv, EvidenceInv, [Next]_vars
    PROVE  EvidenceInv'
<1> USE DEF SyncInv
<1>1. \A q \in Seqs : Shows(q) => Shows(q)'
  BY RowsOfItemStay
<1>2. ASSUME NEW q \in Seqs, Shows(q)' PROVE item'[q].batch # NoKey
  <2>1. CASE UNCHANGED engineVars
    BY <1>2, <2>1 DEF engineVars, Shows, EvidenceInv
  <2>2. ASSUME NEW s \in Sessions, EngineStepOf(s), Commit(s) PROVE item'[q].batch # NoKey
    <3>1. session[s].key \in Keys
      BY <2>2 DEF Commit, BooksInv, Keyed
    <3> QED BY <1>2, <2>2, <3>1 DEF Commit, Written, Shows, EvidenceInv
  <2>3. ASSUME NEW s \in Sessions, EngineStepOf(s), ~Commit(s) PROVE item'[q].batch # NoKey
    BY <1>2, <2>3, TablesKept DEF Shows, EvidenceInv
  <2> QED BY <2>1, <2>2, <2>3, EngineMoves
<1>3. ASSUME NEW t \in Sessions, NEW q \in Seqs,
             session'[t].phase = "replied", session'[t].verdict[q] # Unheard
      PROVE  Shows(q)'
  <2>1. CASE UNCHANGED engineVars
    BY <1>1, <1>3, <2>1 DEF engineVars, EvidenceInv
  <2>2. ASSUME NEW s \in Sessions, EngineStepOf(s), t # s PROVE Shows(q)'
    BY <1>1, <1>3, <2>2, SessionMoves DEF EvidenceInv
  <2>3. ASSUME EngineStepOf(t) PROVE Shows(q)'
    <3>1. CASE Commit(t)
      <4>1. session'[t].verdict = session[t].verdict
        BY <3>1 DEF Commit, BooksInv, EngineTypeOK
      <4>2. q \in Recorded(t)
        BY <1>3, <4>1 DEF Recorded
      <4>3. Written(t)[q].state # "none"
        BY <4>2 DEF Written, Recorded, Unheard, Settled
      <4> QED BY <3>1, <4>3 DEF Commit, Shows
    <3>2. CASE Replay(t)
      <4>1. session'[t].verdict[q] = IF item[q].batch = session[t].key
                                     THEN item[q].state ELSE Unheard
        BY <3>2 DEF Replay, BooksInv, EngineTypeOK
      <4> QED BY <1>1, <1>3, <4>1 DEF Unheard, Shows
    <3>3. ASSUME ~Commit(t), ~Replay(t) PROVE FALSE
      <4>1. ASSUME NEW p \in AnyPush, Receive(t, p[1], p[2]) PROVE FALSE
        BY <1>3, <4>1 DEF Receive, Free, BooksInv, EngineTypeOK
      <4>2. ASSUME \/ Abort(t) \/ Release(t) \/ \E p \in Seqs : Poison(t, p)
            PROVE  FALSE
        BY <1>3, <4>2 DEF Abort, Release, Poison, Free, BooksInv, EngineTypeOK
      <4>3. ASSUME FirstSeen(t) \/ Begin(t) \/ ReadCursor(t) PROVE FALSE
        BY <1>3, <4>3 DEF FirstSeen, Begin, ReadCursor, BooksInv, EngineTypeOK
      <4>4. ASSUME NEW p \in Seqs, ApplyOne(t, p), ~Poison(t, p) PROVE FALSE
        BY <1>3, <4>4 DEF ApplyOne, Block, Refuse, Recognise, Admit, Ring,
             RingClash, Verdict, BooksInv, EngineTypeOK
      <4> QED BY <2>3, <3>3, <4>1, <4>2, <4>3, <4>4 DEF EngineStepOf, Serve
    <3> QED BY <3>1, <3>2, <3>3
  <2> QED BY <2>1, <2>2, <2>3, EngineMoves
<1>4. ASSUME NEW m \in Mounts, NEW q \in Seqs, flush'[m].verdict[q] # Unheard
      PROVE  Shows(q)'
  <2>1. CASE flush[m].verdict[q] = flush'[m].verdict[q]
    BY <1>1, <1>4, <2>1 DEF EvidenceInv
  <2>2. ASSUME NEW s \in Sessions, session[s].phase = "replied",
               session[s].verdict[q] = flush'[m].verdict[q]
        PROVE  Shows(q)'
    BY <1>1, <1>4, <2>2 DEF EvidenceInv
  <2> QED BY <1>4, <2>1, <2>2, VerdictsHeard
<1>5. ASSUME NEW q \in Seqs, rows'[q].state \notin {"none", "pending"}
      PROVE  Shows(q)'
  <2>1. CASE rows'[q].state = rows[q].state
    BY <1>1, <1>5, <2>1 DEF EvidenceInv
  <2>2. CASE Replace
    BY <1>5, <2>2 DEF Replace, NoRow
  <2>3. ASSUME NEW u \in Sales, Record(u) PROVE Shows(q)'
    <3>1. rows' = [rows EXCEPT ![drawn[u]] = [uuid |-> u, state |-> "pending"]]
            \/ rows' = rows
      BY <2>3, RecordEffect
    <3>2. rows'[q] = rows[q] \/ rows'[q] = [uuid |-> u, state |-> "pending"]
      BY <3>1 DEF TypeOK, TillTypeOK
    <3> QED BY <1>5, <2>1, <3>2
  <2>4. CASE Writes
    <3>a. PICK m \in Mounts : Mark(m)
      BY <2>4 DEF Writes, Write
    <3>b. PICK v \in Settled \cup {"failed"} : \E seqs \in SUBSET Heard(m, v) :
              rows' = SetState(seqs, v)
      BY <3>a, MarkEffect DEF QueueInv
    <3>1. PICK seqs \in SUBSET Heard(m, v) : rows' = SetState(seqs, v)
      BY <3>b
    <3>2. rows'[q] = rows[q] \/ q \in Heard(m, v)
      BY <3>1 DEF SetState
    <3>3. q \in Heard(m, v) => flush[m].verdict[q] # Unheard
      BY DEF Heard, Unheard, Settled
    <3> QED BY <1>1, <2>1, <3>2, <3>3 DEF EvidenceInv
  <2>5. CASE ~Writes /\ ~Replace /\ \A u \in Sales : ~Record(u)
    BY <2>1, <2>5, RowsKept
  <2> QED BY <2>2, <2>3, <2>4, <2>5
<1> QED BY <1>2, <1>3, <1>4, <1>5 DEF EvidenceInv, Shows

LEMMA ReadOffKept ==
    ASSUME SyncInv, [Next]_vars, \A b \in Sent : ReadOff(b), NEW b \in Sent'
    PROVE  ReadOff(b)'
<1> USE DEF SyncInv
<1> SUFFICES ASSUME NEW q \in SeqsOf(b.items), b.items[q] \in OnTill'
             PROVE  /\ q \in Used'
                    /\ rows'[q].uuid = b.items[q]
                    /\ \A p \in Pending' : p < q => b.items[p] = rows'[p].uuid
  BY DEF ReadOff, SeqsOf
<1>1. CASE b \in Sent
  <2>1. b.items[q] \in recorded
    BY <1>1 DEF SentInv
  <2>2. OnTill' # {}
    OBVIOUS
  <2>3. b.items[q] \in OnTill
    BY <2>1, <2>2, TableMoves
  <2>4. /\ q \in Used /\ rows[q].uuid = b.items[q]
        /\ \A p \in Pending : p < q => b.items[p] = rows[p].uuid
    BY <1>1, <2>3 DEF ReadOff
  <2>5. ASSUME NEW p \in Pending', p < q PROVE b.items[p] = rows'[p].uuid
    <3>1. p \in Seqs /\ q \in Seqs
      BY <2>5 DEF Pending, SeqsOf
    <3>2. p \in 1..q
      BY <2>5, <3>1 DEF Seqs
    <3>3. p \in Used
      BY <2>4, <3>2 DEF QueueInv, NumbersRunOn
    <3> QED BY <2>2, <2>4, <2>5, <3>3, TableMoves
  <2> QED BY <2>2, <2>4, <2>5, TableMoves
<1>2. ASSUME NEW s \in Sessions, Sends(s),
             b = [key |-> BatchKey(Contents(Outstanding)),
                  items |-> Contents(Outstanding)]
      PROVE  /\ q \in Used'
             /\ rows'[q].uuid = b.items[q]
             /\ \A p \in Pending' : p < q => b.items[p] = rows'[p].uuid
  <2>1. rows' = rows /\ Used' = Used /\ Pending' = Pending
    BY <1>2 DEF Sends, Send, FlushStart, Used, Pending
  <2>2. q \in Outstanding
    BY <1>2, OutstandingIsPrefix
  <2>3. q \in Pending /\ q \in Used /\ q \in Seqs
    BY <2>2 DEF Outstanding, Pending, Used
  <2>4. ASSUME NEW p \in Pending, p =< q PROVE b.items[p] = rows[p].uuid
    <3>1. p \in Outstanding
      <4>1. p = q \/ p < q
        BY <2>3, <2>4 DEF Pending, Seqs
      <4> QED BY <2>2, <2>3, <2>4, <4>1, OutstandingIsPrefix
    <3> QED BY <1>2, <2>4, <3>1 DEF Contents, Pending
  <2>5. q =< q /\ \A p \in Pending : p < q => p =< q
    BY <2>3 DEF Pending, Seqs
  <2> QED BY <2>1, <2>3, <2>4, <2>5
<1> QED BY <1>1, <1>2, SentMoves

LEMMA FirstMachineKept ==
    ASSUME SyncInv, OrderInv, [Next]_vars, machine' = 0,
           NEW b \in Sent', NEW q \in SeqsOf(b.items)
    PROVE  b.items[q] \in OnTill'
<1> USE DEF SyncInv
<1>1. machine = 0 /\ ~Replace
  <2>1. machine' = machine \/ Replace
    <3>1. ASSUME NEW s \in Sessions, Sends(s) \/ ServerStep(s) \/ Delivers(s) \/ Discard(s)
          PROVE  machine' = machine
      BY <3>1 DEF Sends, Send, ServerStep, Delivers, Deliver, Discard
    <3>2. CASE TillStep
      BY <3>2 DEF TillStep, Draw, Record, GivesUp, GiveUp, Writes, Write, Restart
    <3>3. CASE UNCHANGED vars
      BY <3>3 DEF vars
    <3> QED BY <3>1, <3>2, <3>3 DEF Next
  <2>2. ~Replace
    BY DEF Replace, TypeOK
  <2> QED BY <2>1, <2>2
<1>2. OnTill \subseteq OnTill'
  <2>1. \A p \in Used : p \in Used' /\ rows'[p].uuid = rows[p].uuid
    <3>1. CASE Writes
      BY <3>1, WriteEffect DEF Used
    <3>2. ASSUME NEW u \in Sales, Record(u)
          PROVE  \A p \in Used : p \in Used' /\ rows'[p].uuid = rows[p].uuid
      <4>1. CASE rows' = rows
        BY <4>1 DEF Used
      <4>2. CASE /\ drawn[u] \in Seqs \ Used
                 /\ rows' = [rows EXCEPT ![drawn[u]] = [uuid |-> u, state |-> "pending"]]
        <5>1. \A p \in Seqs \ {drawn[u]} : rows'[p] = rows[p]
          BY <4>2 DEF TypeOK, TillTypeOK
        <5> QED BY <4>2, <5>1 DEF Used
      <4> QED BY <3>2, <4>1, <4>2, RecordEffect
    <3>3. CASE ~Writes /\ \A u \in Sales : ~Record(u)
      BY <1>1, <3>3, RowsKept DEF Used
    <3> QED BY <3>1, <3>2, <3>3
  <2> QED BY <2>1 DEF OnTill
<1>3. CASE b \in Sent
  BY <1>1, <1>2, <1>3 DEF OrderInv
<1>4. ASSUME NEW s \in Sessions, Sends(s),
             b = [key |-> BatchKey(Contents(Outstanding)),
                  items |-> Contents(Outstanding)]
      PROVE  b.items[q] \in OnTill
  <2>1. q \in Outstanding /\ q \in Seqs
    BY <1>4, OutstandingIsPrefix DEF SeqsOf
  <2>2. q \in Used
    BY <2>1 DEF Outstanding, Pending, Used
  <2> QED BY <1>4, <2>1, <2>2 DEF Contents, OnTill
<1> QED BY <1>2, <1>3, <1>4, SentMoves

\* Who is new in the books after a step: what the committing push has rung.
LEMMA NewInBooks ==
    ASSUME SyncInv, OrderInv, [Next]_vars, NEW u \in Rung' \ Rung
    PROVE  \E s \in Sessions, q \in Seqs :
              /\ Commit(s)
              /\ session[s].key # NoKey
              /\ q \in BatchSeqs(s)
              /\ session[s].items[q] = u
              /\ \A p \in BatchSeqs(s) : p =< q => session[s].items[p] \in Rung'
<1> USE DEF SyncInv
<1>1. ~UNCHANGED engineVars
  BY DEF engineVars, Rung
<1>2. PICK s \in Sessions : EngineStepOf(s)
  BY <1>1, EngineMoves
<1>3. Commit(s)
  BY <1>2, TablesKept
<1>4. Rung' = UuidsOf(invoices \cup session[s].rung)
  BY <1>3 DEF Commit, Rung, UuidsOf
<1>5. PICK x \in session[s].rung : x.uuid = u
  BY <1>4 DEF Rung, UuidsOf
<1>6. Open(s) /\ session[s].phase # "replied" /\ session[s].key # NoKey
  BY <1>3 DEF Commit, Open, BooksInv, Keyed
<1>7. PICK q \in BatchSeqs(s) : session[s].verdict[q] = "applied"
                                /\ session[s].items[q] = u
  BY <1>5, <1>6 DEF OrderInv, InOrder
<1>8. ASSUME NEW p \in BatchSeqs(s), p =< q PROVE session[s].items[p] \in Rung'
  <2>1. p \in Seqs /\ q \in Seqs
    BY DEF BatchSeqs, SeqsOf
  <2>2. p = q \/ p < q
    BY <1>8, <2>1 DEF Seqs
  <2>3. session[s].verdict[p] \in Settled
    BY <1>6, <1>7, <2>1, <2>2 DEF OrderInv, InOrder, Settled
  <2> QED BY <1>4, <1>6, <2>1, <2>3 DEF CursorInv, VerdictRung
<1>9. q \in Seqs
  BY DEF BatchSeqs, SeqsOf
<1> QED BY <1>3, <1>6, <1>7, <1>8, <1>9

LEMMA RungRecordedKept ==
    ASSUME SyncInv, OrderInv, [Next]_vars
    PROVE  Rung' \subseteq recorded'
<1>1. ASSUME NEW u \in Rung' \ Rung PROVE u \in recorded
  <2>1. PICK s \in Sessions, q \in Seqs :
            q \in BatchSeqs(s) /\ session[s].key # NoKey /\ session[s].items[q] = u
    BY <1>1, NewInBooks
  <2> DEFINE b == [key |-> session[s].key, items |-> session[s].items]
  <2>2. b \in Sent /\ q \in SeqsOf(b.items) /\ b.items[q] = u
    BY <2>1 DEF Sent, BatchSeqs
  <2> HIDE DEF b
  <2> QED BY <2>2 DEF SyncInv, SentInv
<1>2. recorded \subseteq recorded'
  BY TableMoves
<1> QED BY <1>1, <1>2 DEF OrderInv

LEMMA OvertakenKept ==
    ASSUME SyncInv, OrderInv, [Next]_vars
    PROVE  OnlyRefusedAreOvertaken'
<1> USE DEF SyncInv
<1> SUFFICES ASSUME NEW p \in Seqs, NEW q \in Seqs, p < q,
                    rows'[q].uuid \in Rung', rows'[p].state = "pending"
             PROVE  rows'[p].uuid \in Rung'
  BY DEF OnlyRefusedAreOvertaken
<1>1. CASE Rung' = Rung
  <2>1. rows'[q].uuid \in recorded
    BY <1>1 DEF OrderInv
  <2>2. CASE Replace
    BY <2>2 DEF Replace, NoRow
  <2>3. CASE Writes
    BY <1>1, <2>3, WriteEffect DEF OrderInv, OnlyRefusedAreOvertaken
  <2>4. ASSUME NEW u \in Sales, Record(u) PROVE rows'[p].uuid \in Rung'
    <3>1. CASE rows' = rows
      BY <1>1, <3>1 DEF OrderInv, OnlyRefusedAreOvertaken
    <3>2. CASE /\ u \notin recorded
               /\ drawn[u] \in Seqs \ Used
               /\ rows' = [rows EXCEPT ![drawn[u]] = [uuid |-> u, state |-> "pending"]]
      <4>1. /\ rows'[drawn[u]].uuid = u
            /\ \A r \in Seqs \ {drawn[u]} : rows'[r] = rows[r]
        BY <3>2 DEF TypeOK, TillTypeOK
      <4>2. q # drawn[u]
        BY <2>1, <3>2, <4>1
      <4>3. rows[q].uuid \in recorded
        BY <2>1, <4>1, <4>2
      <4>4. q \in Used
        BY <4>3 DEF Used, TableInv, NoRow, TypeOK
      <4>5. p \in 1..q
        BY DEF Seqs
      <4>6. p \in Used
        BY <4>4, <4>5 DEF QueueInv, NumbersRunOn
      <4> QED BY <1>1, <3>2, <4>1, <4>2, <4>6 DEF OrderInv, OnlyRefusedAreOvertaken
    <3> QED BY <2>4, <3>1, <3>2, RecordEffect
  <2>5. CASE ~Writes /\ ~Replace /\ \A u \in Sales : ~Record(u)
    BY <1>1, <2>5, RowsKept DEF OrderInv, OnlyRefusedAreOvertaken
  <2> QED BY <2>2, <2>3, <2>4, <2>5
<1>2. CASE Rung' # Rung
  <2>1. rows' = rows
    <3>1. ASSUME Writes \/ Replace \/ \E u \in Sales : Record(u) PROVE FALSE
      BY <1>2, <3>1 DEF Writes, Write, Replace, Record, engineVars, Rung
    <3> QED BY <3>1, RowsKept
  <2>2. CASE rows[q].uuid \in Rung
    BY <2>1, <2>2, BooksGrow DEF OrderInv, OnlyRefusedAreOvertaken
  <2>3. CASE rows[q].uuid \notin Rung
    <3>1. PICK s \in Sessions, r \in Seqs :
              /\ r \in BatchSeqs(s)
              /\ session[s].key # NoKey
              /\ session[s].items[r] = rows[q].uuid
              /\ \A n \in BatchSeqs(s) : n =< r => session[s].items[n] \in Rung'
      BY <2>1, <2>3, NewInBooks
    <3> DEFINE b == [key |-> session[s].key, items |-> session[s].items]
    <3>2. b \in Sent /\ r \in SeqsOf(b.items) /\ b.items[r] = rows[q].uuid
      BY <3>1 DEF Sent, BatchSeqs
    <3>3. b.items = session[s].items
      OBVIOUS
    <3> HIDE DEF b
    <3>4. q \in Used /\ p \in Pending /\ p \in Used
      <4>1. rows[q].uuid # NoSale
        BY <3>2 DEF SeqsOf
      <4> QED BY <2>1, <4>1 DEF Used, Pending, TableInv, NoRow
    <3>5. b.items[r] \in OnTill
      BY <3>2, <3>4 DEF OnTill
    <3>6. /\ r \in Used /\ rows[r].uuid = rows[q].uuid
          /\ \A n \in Pending : n < r => b.items[n] = rows[n].uuid
      BY <3>2, <3>5 DEF OrderInv, ReadOff
    <3>7. r = q
      BY <3>4, <3>6 DEF TableInv
    <3>8. b.items[p] = rows[p].uuid
      BY <3>4, <3>6, <3>7
    <3>9. rows[p].uuid # NoSale
      BY <3>4 DEF TableInv, TypeOK
    <3>10. p \in BatchSeqs(s) /\ p =< r
      BY <3>3, <3>7, <3>8, <3>9 DEF BatchSeqs, SeqsOf, Seqs
    <3> QED BY <2>1, <3>1, <3>3, <3>8, <3>10
  <2> QED BY <2>2, <2>3
<1> QED BY <1>1, <1>2

LEMMA OrderInvInit == Init => OrderInv
<1> SUFFICES ASSUME Init PROVE OrderInv
  OBVIOUS
<1>1. \A s \in Sessions : InOrder(s)
  BY DEF Init, EngineInit, Free, InOrder, Open
<1>2. EvidenceInv
  BY DEF Init, EngineInit, TillInit, Free, NoItem, NoRow, Resting, NoVerdict,
         EvidenceInv, Shows
<1>3. Sent = {} /\ Rung = {}
  BY DEF Sent, Rung, UuidsOf, Init, EngineInit, Free
<1>4. OnlyRefusedAreOvertaken
  BY <1>3 DEF OnlyRefusedAreOvertaken
<1> QED BY <1>1, <1>2, <1>3, <1>4 DEF OrderInv

LEMMA OrderInvStep == SyncInv /\ OrderInv /\ [Next]_vars => OrderInv'
<1> SUFFICES ASSUME SyncInv, OrderInv, [Next]_vars PROVE OrderInv'
  OBVIOUS
<1>1. \A s \in Sessions : InOrder(s)'
  BY InOrderKept DEF OrderInv
<1>2. EvidenceInv'
  BY EvidenceKept DEF OrderInv
<1>3. \A b \in Sent' : ReadOff(b)'
  BY ReadOffKept DEF OrderInv
<1>4. machine' = 0 => \A b \in Sent' : \A q \in SeqsOf(b.items) : b.items[q] \in OnTill'
  BY FirstMachineKept
<1>5. Rung' \subseteq recorded' /\ OnlyRefusedAreOvertaken'
  BY RungRecordedKept, OvertakenKept
<1> QED BY <1>1, <1>2, <1>3, <1>4, <1>5 DEF OrderInv, SeqsOf

LEMMA OrderInvariant == Spec => [](SyncInv /\ OrderInv)
<1>1. Init => SyncInv /\ OrderInv
  BY SyncInvInit, OrderInvInit
<1>2. SyncInv /\ OrderInv /\ [Next]_vars => (SyncInv /\ OrderInv)'
  BY SyncInvStep, OrderInvStep
<1> QED BY <1>1, <1>2, PTL DEF Spec

\* The row of a number is about the sale the first machine holds under it.
LEMMA ItemIsOfRow ==
    ASSUME SyncInv, OrderInv, machine = 0, NEW q \in Seqs, Shows(q)
    PROVE  item[q].uuid = rows[q].uuid
<1> USE DEF SyncInv
<1>1. PICK b \in batches : b.items[q] = item[q].uuid /\ b.items[q] # NoSale
  BY DEF OrderInv, EvidenceInv, ItemOfBatch
<1>2. b \in Sent /\ q \in SeqsOf(b.items)
  BY <1>1 DEF Sent, SeqsOf
<1>3. rows[q].uuid = b.items[q]
  BY <1>2 DEF OrderInv, ReadOff
<1> QED BY <1>1, <1>3

-----------------------------------------------------------------------------
(* The promise of SaleDelivery.                                            *)

\* How often a sale is posted: once if it is in the books, else never.
PostedTimes(u) == Cardinality({x \in invoices : x.uuid = u})

LEMMA PostedOnce ==
    NoSaleRungTwice => \A u : PostedTimes(u) = IF u \in Rung THEN 1 ELSE 0
<1> SUFFICES ASSUME NoSaleRungTwice, NEW u
             PROVE  PostedTimes(u) = IF u \in Rung THEN 1 ELSE 0
  OBVIOUS
<1>1. CASE u \in Rung
  <2>1. PICK x \in invoices : x.uuid = u
    BY <1>1 DEF Rung, UuidsOf
  <2>2. {y \in invoices : y.uuid = u} = {x}
    BY <2>1 DEF NoSaleRungTwice, Books
  <2> QED BY <1>1, <2>2, FS_Singleton DEF PostedTimes
<1>2. CASE u \notin Rung
  <2>1. {y \in invoices : y.uuid = u} = {}
    BY <1>2 DEF Rung, UuidsOf
  <2> QED BY <1>2, <2>1, FS_EmptySet DEF PostedTimes
<1> QED BY <1>1, <1>2

\* What SaleDelivery reads off the till and the books.
LEMMA DeliveryReads ==
    SyncInv => /\ \A q \in Seqs : Delivery!Waiting(q) <=> rows[q].state = "pending"
               /\ \A q \in Seqs : Delivery!IsPosted(q) <=> rows[q].uuid \in Rung
               /\ Delivery!NothingOvertakes <=> OnlyRefusedAreOvertaken
<1> SUFFICES ASSUME SyncInv
             PROVE  /\ \A q \in Seqs : Delivery!Waiting(q) <=> rows[q].state = "pending"
                    /\ \A q \in Seqs : Delivery!IsPosted(q) <=> rows[q].uuid \in Rung
                    /\ Delivery!NothingOvertakes <=> OnlyRefusedAreOvertaken
  OBVIOUS
<1> USE DEF SyncInv
<1>1. \A q \in Seqs : Delivery!Waiting(q) <=> rows[q].state = "pending"
  BY DEF Delivery!Waiting, Shown, Settled
<1>2. Rung \subseteq Sales
  BY DEF Rung, UuidsOf, BooksInv, EngineTypeOK
<1>3. ASSUME NEW q \in Seqs PROVE Delivery!IsPosted(q) <=> rows[q].uuid \in Rung
  <2>1. \A u \in Sales : PostedTimes(u) > 0 <=> u \in Rung
    <3>1. \A u : PostedTimes(u) = IF u \in Rung THEN 1 ELSE 0
      BY PostedOnce DEF BooksInv
    <3> QED BY <3>1
  <2>2. Delivery!IsPosted(q) <=> rows[q].uuid \in Sales /\ PostedTimes(rows[q].uuid) > 0
    BY DEF Delivery!IsPosted, PostedTimes
  <2> QED BY <1>2, <2>1, <2>2
<1>4. Delivery!NothingOvertakes <=> OnlyRefusedAreOvertaken
  BY <1>1, <1>3 DEF Delivery!NothingOvertakes, OnlyRefusedAreOvertaken,
                    Delivery!Seqs, Seqs
<1> QED BY <1>1, <1>3, <1>4

LEMMA DeliveryStart == Init => Delivery!DeliveryInit
<1> SUFFICES ASSUME Init PROVE Delivery!DeliveryInit
  OBVIOUS
<1>1. \A q \in Seqs : [uuid |-> rows[q].uuid, state |-> Shown(rows[q].state)]
                         = [uuid |-> NoSale, state |-> "none"]
  BY DEF Init, TillInit, NoRow, Shown, Settled
<1>2. \A u \in Sales : Cardinality({x \in invoices : x.uuid = u}) = 0
  BY FS_EmptySet DEF Init, EngineInit
<1>3. crossed = {}
  BY DEF Init, TillInit
<1> QED BY <1>1, <1>2, <1>3 DEF Delivery!DeliveryInit, Delivery!Blank, Delivery!Seqs, Seqs, Init

\* Numbers become crossed by a send, and only then.
LEMMA CrossedMoves ==
    ASSUME SyncInv, [Next]_vars, ~Replace
    PROVE  \/ crossed' = crossed
           \/ /\ UNCHANGED <<rows, invoices, recorded>>
              /\ \E seqs \in SUBSET Pending : crossed' = crossed \cup seqs
<1>1. ASSUME NEW s \in Sessions, Sends(s)
      PROVE  /\ UNCHANGED <<rows, invoices, recorded>>
             /\ \E seqs \in SUBSET Pending : crossed' = crossed \cup seqs
  <2>1. PICK m \in Mounts : Send(m, s)
    BY <1>1 DEF Sends
  <2>2. UNCHANGED <<rows, invoices, recorded>>
    BY <2>1 DEF Send, FlushStart, Receive
  <2>3. crossed' = crossed \cup (Outstanding \cap UNION {InHand(n) : n \in Mounts \ {m}})
    BY <2>1 DEF Send, FlushStart
  <2> QED BY <2>2, <2>3 DEF Outstanding
<1>2. CASE TillStep
  <2>1. ASSUME NEW u \in Sales, Draw(u) \/ Record(u) PROVE crossed' = crossed
    BY <2>1 DEF Draw, DrawSeq, Record, Put
  <2>2. CASE GivesUp \/ Restart
    BY <2>2 DEF GivesUp, GiveUp, FlushThrew, Restart, TillRestart
  <2>3. CASE Writes
    BY <2>3 DEF Writes, Write, Mark, MarkFailed, MarkSettled
  <2> QED BY <1>2, <2>1, <2>2, <2>3 DEF TillStep
<1>3. ASSUME NEW s \in Sessions, ServerStep(s) \/ Discard(s) PROVE crossed' = crossed
  BY <1>3 DEF ServerStep, Discard, tillVars
<1>4. ASSUME NEW s \in Sessions, Delivers(s) PROVE crossed' = crossed
  BY <1>4 DEF Delivers, Deliver, FlushAnswered, FlushThrew
<1>5. CASE UNCHANGED vars
  BY <1>5 DEF vars, tillVars
<1> QED BY <1>1, <1>2, <1>3, <1>4, <1>5 DEF Next

LEMMA DeliveryStep ==
    ASSUME SyncInv, SyncInv', OrderInv, OrderInv', [Next]_vars
    PROVE  [Delivery!DeliveryNext]_(Delivery!deliveryVars)
<1> USE DEF SyncInv
<1>1. ASSUME UNCHANGED <<rows, invoices, recorded, crossed>>
      PROVE  UNCHANGED Delivery!deliveryVars
  BY <1>1 DEF Delivery!deliveryVars
<1>2. ASSUME NEW u \in Sales, Record(u)
      PROVE  [Delivery!DeliveryNext]_(Delivery!deliveryVars)
  <2>1. UNCHANGED <<invoices, crossed>>
    BY <1>2 DEF Record, Put, engineVars
  <2>2. CASE rows' = rows /\ recorded' = recorded
    BY <1>1, <2>1, <2>2
  <2>3. CASE /\ u \notin recorded /\ recorded' = recorded \cup {u}
             /\ drawn[u] \in Seqs \ Used
             /\ rows' = [rows EXCEPT ![drawn[u]] = [uuid |-> u, state |-> "pending"]]
    <3>1. /\ rows[drawn[u]] = NoRow
          /\ rows'[drawn[u]] = [uuid |-> u, state |-> "pending"]
          /\ \A q \in Seqs \ {drawn[u]} : rows'[q] = rows[q]
      BY <2>3 DEF TypeOK, TillTypeOK, Used, TableInv
    <3>2. Shown("pending") = "waiting" /\ Shown("none") = "none"
      BY DEF Shown, Settled
    <3>3. \A q \in Seqs :
             [uuid |-> rows'[q].uuid, state |-> Shown(rows'[q].state)] =
                IF q = drawn[u] THEN [uuid |-> u, state |-> "waiting"]
                ELSE [uuid |-> rows[q].uuid, state |-> Shown(rows[q].state)]
      BY <3>1, <3>2
    <3>4. [uuid |-> rows[drawn[u]].uuid, state |-> Shown(rows[drawn[u]].state)]
             = [uuid |-> NoSale, state |-> "none"]
      BY <3>1, <3>2 DEF NoRow
    <3>5. Delivery!Enqueue(drawn[u], u)
      BY <2>1, <2>3, <3>3, <3>4 DEF Delivery!Enqueue, Delivery!Blank
    <3> QED BY <2>3, <3>5 DEF Delivery!DeliveryNext, Delivery!Seqs, Seqs
  <2> QED BY <1>2, <2>2, <2>3, RecordEffect
<1>3. CASE Replace
  <2>1. /\ rows' = [q \in Seqs |-> NoRow]
        /\ UNCHANGED <<invoices, recorded>> /\ crossed' = {}
    BY <1>3 DEF Replace, engineVars
  <2>2. Shown("none") = "none"
    BY DEF Shown, Settled
  <2>3. Delivery!Abandon
    BY <2>1, <2>2 DEF Delivery!Abandon, Delivery!Blank, NoRow, Delivery!Seqs, Seqs
  <2> QED BY <2>3 DEF Delivery!DeliveryNext
<1>4. ASSUME NEW seqs \in SUBSET Seqs, NEW v \in Settled \cup {"failed"},
             seqs \subseteq Pending \cup crossed, rows' = SetState(seqs, v),
             UNCHANGED <<invoices, recorded, crossed>>
      PROVE  Delivery!Show(seqs, IF v = "failed" THEN "refused" ELSE "landed")
  <2>1. \A q \in seqs : Delivery!Waiting(q) \/ (Delivery!Shown(q) /\ q \in crossed)
    <3> SUFFICES ASSUME NEW q \in seqs, q \notin Pending
                 PROVE  Delivery!Shown(q) /\ q \in crossed
      BY DeliveryReads DEF Pending
    <3>1. q \in crossed /\ q \in Used
      BY <1>4 DEF QueueInv
    <3>2. rows[q].state \in Settled \cup {"failed"}
      BY <3>1 DEF Used, Pending, TypeOK, TillTypeOK, RowStates
    <3> QED BY <3>1, <3>2 DEF Delivery!Shown, Shown, Settled
  <2>2. \A q \in Seqs : /\ rows'[q].uuid = rows[q].uuid
                        /\ rows'[q].state = IF q \in seqs THEN v ELSE rows[q].state
    BY <1>4 DEF SetState, Pending, Used, QueueInv, TypeOK, TillTypeOK
  <2>3. Shown(v) = IF v = "failed" THEN "refused" ELSE "landed"
    BY DEF Shown, Settled
  <2>4. \A q \in Seqs :
           [uuid |-> rows'[q].uuid, state |-> Shown(rows'[q].state)] =
              IF q \in seqs
              THEN [uuid |-> rows[q].uuid,
                    state |-> IF v = "failed" THEN "refused" ELSE "landed"]
              ELSE [uuid |-> rows[q].uuid, state |-> Shown(rows[q].state)]
    BY <2>2, <2>3
  <2> QED BY <1>4, <2>1, <2>4 DEF Delivery!Show, Delivery!Seqs, Seqs
<1>5. CASE Writes
  <2>1. PICK m \in Mounts : Write(m)
    BY <1>5 DEF Writes
  <2>2. UNCHANGED <<invoices, recorded, crossed>>
    BY <2>1 DEF Write, Mark, MarkFailed, MarkSettled, engineVars
  <2>3. \A v \in Settled \cup {"failed"} :
            Heard(m, v) \subseteq Pending \cup crossed /\ Heard(m, v) \subseteq Seqs
    BY DEF Heard, QueueInv, InFlightIsPending, InHand, Unheard, Settled
  <2>4. CASE MarkFailed(m)
    <3>1. PICK q \in Heard(m, "failed") : rows' = SetState({q}, "failed")
      BY <2>4 DEF MarkFailed
    <3>2. {q} \in SUBSET Seqs /\ {q} \subseteq Pending \cup crossed /\ q \in Seqs
      BY <2>3, <3>1
    <3>3. Delivery!Show({q}, "refused")
      BY <1>4, <2>2, <3>1, <3>2
    <3> QED BY <3>2, <3>3 DEF Delivery!RefuseOne, Delivery!DeliveryNext, Delivery!Seqs, Seqs
  <2>5. ASSUME NEW v \in Settled, MarkSettled(m, v)
        PROVE  Delivery!DeliveryNext
    <3>1. rows' = SetState(Heard(m, v), v) /\ v # "failed"
      BY <2>5 DEF MarkSettled, Settled
    <3>2. Delivery!Show(Heard(m, v), "landed")
      BY <1>4, <2>2, <2>3, <3>1
    <3>3. \A q \in Heard(m, v) : q \in Seqs /\ rows[q].uuid \in Rung
      BY <2>3 DEF FlushInv, Told, Heard
    <3>4. \A q \in Heard(m, v) : Delivery!IsPosted(q)
      BY <3>3, DeliveryReads
    <3> QED BY <2>3, <3>2, <3>4 DEF Delivery!Land, Delivery!DeliveryNext, Delivery!Seqs, Seqs
  <2> QED BY <2>1, <2>4, <2>5 DEF Write, Mark
<1>6. CASE /\ ~Writes /\ ~Replace /\ (\A u \in Sales : ~Record(u))
           /\ invoices' # invoices
  <2> DEFINE new == Rung' \ Rung
  <2>1. UNCHANGED <<rows, recorded, crossed>>
    BY <1>6, RowsKept, CrossedMoves
  <2>2. Rung \subseteq Rung' /\ Rung' \subseteq recorded /\ recorded \subseteq Sales
    BY <2>1, BooksGrow DEF OrderInv, TypeOK
  <2>3. \A u : PostedTimes(u) = IF u \in Rung THEN 1 ELSE 0
    BY PostedOnce DEF BooksInv
  <2>4. \A u : PostedTimes(u)' = IF u \in Rung' THEN 1 ELSE 0
    <3>1. NoSaleRungTwice' => (\A u : PostedTimes(u) = IF u \in Rung THEN 1 ELSE 0)'
      BY PostedOnce, PTL
    <3> QED BY <3>1 DEF BooksInv
  <2>5. Delivery!NothingOvertakes'
    <3>1. SyncInv' => (Delivery!NothingOvertakes <=> OnlyRefusedAreOvertaken)'
      BY DeliveryReads, PTL
    <3> QED BY <3>1 DEF OrderInv
  <2>6. \A u \in Sales :
           PostedTimes(u)' = IF u \in new THEN 1 ELSE PostedTimes(u)
    BY <2>2, <2>3, <2>4
  <2>7. \A u \in new : u \in Sales /\ PostedTimes(u) = 0
    BY <2>2, <2>3
  <2> HIDE DEF new
  <2>8. Delivery!Post(new)
    BY <2>1, <2>2, <2>5, <2>6, <2>7 DEF Delivery!Post, PostedTimes, new
  <2>9. new \in SUBSET Sales
    BY <2>7
  <2> QED BY <2>8, <2>9 DEF Delivery!DeliveryNext
<1>7. ASSUME NEW seqs \in SUBSET Pending, crossed' = crossed \cup seqs,
             UNCHANGED <<rows, invoices, recorded>>
      PROVE  Delivery!DeliveryNext
  <2>1. Delivery!Contest(seqs)
    BY <1>7, DeliveryReads DEF Delivery!Contest, Pending
  <2>2. seqs \in SUBSET Seqs
    BY DEF Pending
  <2> QED BY <2>1, <2>2 DEF Delivery!DeliveryNext, Delivery!Seqs, Seqs
<1>8. CASE ~Writes /\ ~Replace /\ (\A u \in Sales : ~Record(u)) /\ invoices' = invoices
  BY <1>1, <1>7, <1>8, RowsKept, CrossedMoves
<1> QED BY <1>2, <1>3, <1>5, <1>6, <1>8

-----------------------------------------------------------------------------
(* What follows from it.                                                   *)

\* A sale lands ahead of an earlier one of this till only once the till has
\* been told that one was refused: outstanding's order, the push that serves
\* in sequence, and the stall that blocks what follows a refusal.
THEOREM OvertakingIsTold == Spec => []OnlyRefusedAreOvertaken
<1>1. OrderInv => OnlyRefusedAreOvertaken
  BY DEF OrderInv
<1> QED BY <1>1, OrderInvariant, PTL

\* On a terminal's first machine every verdict the till holds is backed by
\* sync_item's row for that number, about that very sale: recordItem.
THEOREM VerdictsOnRecord == Spec => []FirstMachineOnRecord
<1>1. SyncInv /\ OrderInv => FirstMachineOnRecord
  BY ItemIsOfRow DEF OrderInv, EvidenceInv, FirstMachineOnRecord, VerdictIsOnRecord
<1> QED BY <1>1, OrderInvariant, PTL

\* The first machine may drop every row up to the cursor: each is in the
\* books (Result.Cursor, advanceCursor).
THEOREM DiscardIsSafe == Spec => []MayDiscardToCursor
<1>1. SyncInv /\ OrderInv => MayDiscardToCursor
  <2> SUFFICES ASSUME SyncInv, OrderInv, machine = 0,
                      NEW q \in 1..cursor.applied
               PROVE  rows[q].uuid \in Rung
    BY DEF MayDiscardToCursor
  <2>1. item[q].state \in Settled /\ item[q].uuid \in Rung
    BY DEF SyncInv, CursorInv, CursorVouches
  <2>2. q \in Seqs
    BY DEF SyncInv, BooksInv, EngineTypeOK, Seqs
  <2> QED BY <2>1, <2>2, ItemIsOfRow DEF Shows, Settled
<1> QED BY <1>1, OrderInvariant, PTL

\* Till, pushes, transactions, faults and replaced machines together only do
\* what SaleDelivery allows: a sale is posted once, shown as landed only when
\* posted, and none passes one that still waits.
THEOREM ImplementsDelivery == Spec => DeliversSales
<1>1. Init => Delivery!DeliveryInit
  BY DeliveryStart
<1>2. SyncInv /\ OrderInv /\ (SyncInv /\ OrderInv)' /\ [Next]_vars
         => [Delivery!DeliveryNext]_(Delivery!deliveryVars)
  BY DeliveryStep
<1> QED BY <1>1, <1>2, OrderInvariant, PTL DEF Spec, DeliversSales, Delivery!DeliverySpec

-----------------------------------------------------------------------------
(* Refusals.                                                               *)

\* One push of one mount at a time, sales on a chain, and no check before
\* alreadyRung that turns against a sale already rung.
OneAtATime ==
    /\ OnAChain /\ ~GateShuts
    /\ \A s, t \in Sessions : s = t
    /\ \A m, n \in Mounts : m = n

\* A sale is sent under one number, whatever batches carry it.
OneNumber ==
    \A x, y \in Sent : \A p \in SeqsOf(x.items), q \in SeqsOf(y.items) :
        x.items[p] = y.items[q] => p = q

\* While an answer is written down no push is served, and while one is, the
\* rows of its sales wait.
MarkAlone ==
    \A m \in Mounts :
        /\ \A q \in Seqs : flush[m].verdict[q] # Unheard => flush[m].pc = "mark"
        /\ flush[m].pc = "mark" => \A s \in Sessions : session[s].key = NoKey

ServedWait ==
    \A s \in Sessions :
        session[s].key # NoKey =>
            \A p \in BatchSeqs(s), q \in Used :
                rows[q].uuid = session[s].items[p] => q \in Pending

\* What a push has refused it has not rung, and what it is about to ring is
\* new to the books.
RefusedHere ==
    \A s \in Sessions :
        /\ \A q \in Seqs : session[s].verdict[q] = "failed" => ~UuidTaken(s, session[s].items[q])
        /\ session[s].phase = "ring" =>
              \A q \in Seqs : IsNext(s, q) => ~UuidTaken(s, session[s].items[q])

RefusedOnRecord ==
    \A q \in Seqs : item[q].state = "failed" => item[q].uuid \notin Rung

RefusalInv ==
    /\ OneNumber /\ MarkAlone /\ ServedWait /\ RefusedHere /\ RefusedOnRecord
    /\ \A m \in Mounts : \A q \in Heard(m, "failed") : rows[q].uuid \notin Rung
    /\ RefusedIsNotRung

-----------------------------------------------------------------------------

\* What two pushes share they carry under the number it has on the till.
LEMMA OneNumberKept ==
    ASSUME SyncInv, OrderInv, OneNumber, [Next]_vars
    PROVE  OneNumber'
<1> USE DEF SyncInv
<1> DEFINE items == Contents(Outstanding)
           new   == [key |-> BatchKey(items), items |-> items]
<1> SUFFICES ASSUME NEW x \in Sent', NEW y \in Sent',
                    NEW p \in SeqsOf(x.items), NEW q \in SeqsOf(y.items),
                    x.items[p] = y.items[q]
             PROVE  p = q
  BY DEF OneNumber, SeqsOf
<1>1. x \in Sent \/ (x = new /\ \E s \in Sessions : Sends(s))
  BY SentMoves
<1>2. y \in Sent \/ (y = new /\ \E s \in Sessions : Sends(s))
  BY SentMoves
<1>3. ASSUME \E s \in Sessions : Sends(s), NEW r \in SeqsOf(items)
      PROVE  /\ r \in Used /\ rows[r].uuid = items[r] /\ items[r] \in OnTill
  <2>1. r \in Outstanding /\ r \in Seqs
    BY OutstandingIsPrefix DEF SeqsOf, Contents
  <2>2. r \in Used
    BY <2>1 DEF Outstanding, Pending, Used
  <2> QED BY <2>1, <2>2 DEF Contents, OnTill
<1>4. new.items = items
  OBVIOUS
<1> HIDE DEF new, items
<1>5. ASSUME \E s \in Sessions : Sends(s), NEW b \in Sent,
             NEW r \in SeqsOf(items), NEW n \in SeqsOf(b.items), items[r] = b.items[n]
      PROVE  r = n
  BY <1>3, <1>5 DEF OrderInv, ReadOff, TableInv
<1>6. CASE x \in Sent /\ y \in Sent
  BY <1>6 DEF OneNumber
<1>7. CASE x = new /\ y \in Sent /\ \E s \in Sessions : Sends(s)
  BY <1>4, <1>5, <1>7
<1>8. CASE y = new /\ x \in Sent /\ \E s \in Sessions : Sends(s)
  BY <1>4, <1>5, <1>8
<1>9. CASE x = new /\ y = new /\ \E s \in Sessions : Sends(s)
  BY <1>3, <1>4, <1>9 DEF TableInv
<1> QED BY <1>1, <1>2, <1>6, <1>7, <1>8, <1>9

\* A push carries a sale under one number.
LEMMA ItemsApart ==
    ASSUME OneNumber, NEW s \in Sessions, session[s].key # NoKey
    PROVE  \A p, q \in BatchSeqs(s) :
              session[s].items[p] = session[s].items[q] => p = q
<1> DEFINE b == [key |-> session[s].key, items |-> session[s].items]
<1>1. b \in Sent
  BY DEF Sent
<1>2. b.items = session[s].items
  OBVIOUS
<1> HIDE DEF b
<1> QED BY <1>1, <1>2 DEF OneNumber, BatchSeqs

\* What an open push has rung are items of its own with that verdict.
LEMMA RungHere ==
    ASSUME SyncInv, OrderInv, NEW s \in Sessions, NEW x \in session[s].rung
    PROVE  \E q \in BatchSeqs(s) : /\ session[s].verdict[q] = "applied"
                                   /\ session[s].items[q] = x.uuid
BY DEF OrderInv, InOrder, SyncInv, BooksInv, RungInOpen

\* A push that is served has its key.
LEMMA ServedHasKey ==
    ASSUME SyncInv, NEW s \in Sessions, session[s].phase \notin {"idle", "errored"}
    PROVE  session[s].key # NoKey
BY DEF SyncInv, BooksInv, Keyed

LEMMA ServingIsBusy ==
    ASSUME NEW s \in Sessions, Serve(s) \/ Abort(s)
    PROVE  session[s].phase \notin {"idle", "replied", "errored"}
BY DEF Serve, Replay, FirstSeen, Begin, ApplyOne, Block, Refuse, Recognise, Admit,
       Ring, RingClash, Poison, ReadCursor, Commit, Abort

-----------------------------------------------------------------------------
(* What a push refuses.                                                    *)

\* An item that an open push refuses is not among those it rang.
LEMMA NotRungYet ==
    ASSUME SyncInv, OrderInv, OneNumber, NEW s \in Sessions, NEW q \in Seqs,
           Open(s), IsNext(s, q), session[s].items[q] \notin Rung
    PROVE  ~UuidTaken(s, session[s].items[q])
<1>1. session[s].key # NoKey
  BY ServedHasKey DEF Open
<1>2. ASSUME NEW x \in session[s].rung, x.uuid = session[s].items[q] PROVE FALSE
  <2>1. PICK p \in BatchSeqs(s) : /\ session[s].verdict[p] = "applied"
                                  /\ session[s].items[p] = x.uuid
    BY RungHere
  <2>2. p = q
    BY <1>1, <1>2, <2>1, ItemsApart DEF IsNext
  <2> QED BY <2>1, <2>2 DEF IsNext, Recorded, Unheard
<1> QED BY <1>2 DEF UuidTaken, UuidsOf, Rung

LEMMA RefusedHereKept ==
    ASSUME SyncInv, OrderInv, OneNumber, RefusedHere, RefusedOnRecord, OneAtATime,
           [Next]_vars
    PROVE  RefusedHere'
<1> USE DEF SyncInv
<1>1. CASE UNCHANGED engineVars
  BY <1>1 DEF engineVars, RefusedHere, UuidTaken, IsNext, Recorded, BatchSeqs
<1>2. ASSUME NEW s \in Sessions, EngineStepOf(s)
      PROVE  /\ \A q \in Seqs : session'[s].verdict[q] = "failed"
                                   => ~UuidTaken(s, session[s].items[q])'
             /\ session'[s].phase = "ring" =>
                   \A q \in Seqs : IsNext(s, q)' => ~UuidTaken(s, session[s].items[q])'
  <2> DEFINE now == session[s]
             new == session'[s]
             Clear(u) == ~UuidTaken(s, u)
  <2>0. now \in SessionRecord
    BY SessionType DEF BooksInv
  <2>1. /\ \A q \in Seqs : now.verdict[q] = "failed" => ~UuidTaken(s, now.items[q])
        /\ now.phase = "ring" => \A q \in Seqs : IsNext(s, q) => ~UuidTaken(s, now.items[q])
    BY DEF RefusedHere
  <2>2. CASE new.verdict = NoVerdict /\ new.phase # "ring"
    BY <2>2 DEF NoVerdict, Unheard
  <2>3. CASE Replay(s)
    <3>1. /\ new.verdict = [q \in Seqs |-> IF item[q].batch = now.key
                                           THEN item[q].state ELSE Unheard]
          /\ new.items = now.items /\ new.phase = "replied" /\ new.rung = now.rung
          /\ invoices' = invoices
      BY <2>3 DEF Replay, BooksInv, EngineTypeOK
    <3>2. now.rung = {}
      BY <2>3 DEF Replay, BooksInv, RungInOpen, Open
    <3>3. ASSUME NEW q \in Seqs, new.verdict[q] = "failed"
          PROVE  ~UuidTaken(s, now.items[q])'
      <4>1. item[q].batch = now.key /\ item[q].state = "failed"
        BY <3>1, <3>3 DEF Unheard
      <4>2. now.items[q] = item[q].uuid /\ item[q].uuid \notin Rung
        BY <2>3, <4>1, ReplayIsAboutTheBatch DEF RefusedOnRecord
      <4> QED BY <3>1, <3>2, <4>2 DEF UuidTaken, UuidsOf, Rung
    <3> QED BY <3>1, <3>3 DEF UuidTaken
  <2>4. CASE FirstSeen(s) \/ Begin(s) \/ ReadCursor(s)
    <3>1. /\ new.verdict = now.verdict /\ new.items = now.items
          /\ new.rung = now.rung /\ new.phase # "ring" /\ invoices' = invoices
      BY <2>4 DEF FirstSeen, Begin, ReadCursor, BooksInv, EngineTypeOK
    <3> QED BY <2>1, <3>1 DEF UuidTaken
  <2>5. ASSUME NEW q \in Seqs, Admit(s, q)
        PROVE  /\ \A r \in Seqs : new.verdict[r] = "failed" => ~UuidTaken(s, now.items[r])'
               /\ \A r \in Seqs : IsNext(s, r)' => ~UuidTaken(s, now.items[r])'
    <3>1. /\ new.verdict = now.verdict /\ new.items = now.items
          /\ new.rung = now.rung /\ invoices' = invoices
      BY <2>5 DEF Admit, BooksInv, EngineTypeOK
    <3>2. IsNext(s, q) /\ ~UuidTaken(s, now.items[q])
      BY <2>5 DEF Admit, AlreadyRung, OneAtATime
    <3>3. ASSUME NEW r \in Seqs, IsNext(s, r)' PROVE r = q
      <4>1. IsNext(s, r)
        BY <3>1, <3>3 DEF IsNext, BatchSeqs, Recorded
      <4>2. r =< q /\ q =< r
        BY <3>2, <4>1 DEF IsNext
      <4> QED BY <4>2 DEF Seqs
    <3> QED BY <2>1, <3>1, <3>2, <3>3 DEF UuidTaken
  <2>6. ASSUME NEW q \in Seqs, Block(s, q) \/ Refuse(s, q) \/ Recognise(s, q)
        PROVE  /\ \A r \in Seqs : new.verdict[r] = "failed" => ~UuidTaken(s, now.items[r])'
               /\ new.phase # "ring"
    <3>1. PICK v \in {"blocked", "failed", "duplicate"} :
              Verdict(s, q, v) /\ (v = "failed" => Refuse(s, q))
      BY <2>6 DEF Block, Refuse, Recognise
    <3>2. /\ new.phase = "check" /\ new.rung = now.rung /\ new.items = now.items
          /\ new.verdict = [now.verdict EXCEPT ![q] = v]
      BY <3>1 DEF Verdict, BooksInv, EngineTypeOK
    <3>3. invoices' = invoices
      BY <2>6 DEF Block, Refuse, Recognise
    <3>4. v = "failed" => ~UuidTaken(s, now.items[q])
      <4>1. ASSUME Refuse(s, q)
            PROVE  Open(s) /\ IsNext(s, q) /\ now.items[q] \notin Rung
        BY <4>1 DEF Refuse, Open, OneAtATime, Rung
      <4> QED BY <3>1, <4>1, NotRungYet
    <3>5. new.verdict[q] = v /\ \A p \in Seqs \ {q} : new.verdict[p] = now.verdict[p]
      BY <2>0, <3>2 DEF SessionRecord
    <3> QED BY <2>1, <3>2, <3>3, <3>4, <3>5 DEF UuidTaken
  <2>7. ASSUME NEW q \in Seqs, Ring(s, q)
        PROVE  (\A r \in Seqs : new.verdict[r] # "failed") /\ new.phase # "ring"
    <3>1. new.phase = "check" /\ new.verdict = [now.verdict EXCEPT ![q] = "applied"]
      BY <2>7 DEF Ring, BooksInv, EngineTypeOK
    <3>2. \A r \in Seqs : now.verdict[r] # "failed"
      BY <2>7 DEF Ring, OrderInv, InOrder, Stalled
    <3> QED BY <2>0, <3>1, <3>2 DEF SessionRecord
  <2>8. ASSUME NEW q \in Seqs, RingClash(s, q) PROVE FALSE
    BY <2>1, <2>8 DEF RingClash
  <2>9. CASE Commit(s)
    <3>1. /\ new.verdict = now.verdict /\ new.items = now.items
          /\ new.rung = {} /\ new.phase = "replied"
          /\ invoices' = invoices \cup now.rung
      BY <2>9 DEF Commit, BooksInv, EngineTypeOK
    <3> QED BY <2>1, <3>1 DEF UuidTaken
  <2>10. ASSUME \/ \E p \in AnyPush : Receive(s, p[1], p[2])
                \/ Abort(s) \/ Release(s) \/ \E q \in Seqs : Poison(s, q)
         PROVE  new.verdict = NoVerdict /\ new.phase # "ring"
    <3>1. ASSUME NEW p \in AnyPush, Receive(s, p[1], p[2])
          PROVE  new.verdict = NoVerdict /\ new.phase = "received"
      BY <3>1 DEF Receive, Free, BooksInv, EngineTypeOK
    <3>2. CASE Abort(s) \/ Release(s) \/ \E q \in Seqs : Poison(s, q)
      <4>1. \/ session' = [session EXCEPT ![s] = Free]
            \/ session' = [session EXCEPT ![s] = [Free EXCEPT !.phase = "errored"]]
        BY <3>2 DEF Abort, Release, Poison
      <4> QED BY <4>1 DEF Free, BooksInv, EngineTypeOK
    <3> QED BY <2>10, <3>1, <3>2
  <2>11. \A q \in Seqs : UuidTaken(s, session[s].items[q])'
                            <=> session'[s].items[q] \in UuidsOf(invoices' \cup new.rung)
    BY DEF UuidTaken, UuidsOf
  <2> QED BY <1>2, <2>2, <2>3, <2>4, <2>5, <2>6, <2>7, <2>8, <2>9, <2>10, <2>11
             DEF EngineStepOf, Serve, ApplyOne
<1>3. ASSUME NEW s \in Sessions, EngineStepOf(s) PROVE RefusedHere'
  BY <1>2, <1>3 DEF RefusedHere, OneAtATime
<1> QED BY <1>1, <1>3, EngineMoves

\* A row of sync_item that says failed is about a sale that is not in the
\* books, and that the push which commits has not rung either.
LEMMA RefusedOnRecordKept ==
    ASSUME SyncInv, OrderInv, OneNumber, RefusedHere, RefusedOnRecord, [Next]_vars
    PROVE  RefusedOnRecord'
<1> USE DEF SyncInv
<1>1. CASE UNCHANGED engineVars
  BY <1>1 DEF engineVars, RefusedOnRecord, Rung
<1>2. ASSUME NEW s \in Sessions, EngineStepOf(s), ~Commit(s) PROVE RefusedOnRecord'
  BY <1>2, TablesKept DEF RefusedOnRecord
<1>3. ASSUME NEW s \in Sessions, Commit(s) PROVE RefusedOnRecord'
  <2> SUFFICES ASSUME NEW q \in Seqs, item'[q].state = "failed"
               PROVE  item'[q].uuid \notin Rung'
    BY DEF RefusedOnRecord
  <2>1. /\ item' = Written(s)
        /\ Rung' = UuidsOf(invoices \cup session[s].rung)
    BY <1>3 DEF Commit, Rung, UuidsOf
  <2>2. session[s].key # NoKey
    BY <1>3, ServedHasKey DEF Commit
  <2>3. CASE q \in Recorded(s) /\ item[q].state \notin Settled
    <3>1. /\ item'[q].uuid = session[s].items[q]
          /\ session[s].verdict[q] = "failed"
      BY <2>1, <2>3 DEF Written
    <3> QED BY <2>1, <3>1 DEF RefusedHere, UuidTaken
  <2>4. CASE ~(q \in Recorded(s) /\ item[q].state \notin Settled)
    <3>1. item'[q] = item[q]
      BY <2>1, <2>4 DEF Written
    <3>2. item[q].uuid \notin Rung /\ q \notin Recorded(s)
      BY <2>4, <3>1 DEF RefusedOnRecord, Settled
    <3>3. ASSUME NEW x \in session[s].rung, x.uuid = item[q].uuid PROVE FALSE
      <4>1. PICK p \in BatchSeqs(s) : /\ session[s].verdict[p] = "applied"
                                      /\ session[s].items[p] = x.uuid
        BY RungHere
      <4>2. PICK b \in batches : b.items[q] = item[q].uuid /\ b.items[q] # NoSale
        BY <3>1 DEF ItemOfBatch, OrderInv, EvidenceInv, Shows
      <4> DEFINE a == [key |-> session[s].key, items |-> session[s].items]
      <4>3. /\ a \in Sent /\ p \in SeqsOf(a.items) /\ a.items[p] = x.uuid
            /\ b \in Sent /\ q \in SeqsOf(b.items)
        BY <2>2, <4>1, <4>2 DEF Sent, BatchSeqs, SeqsOf
      <4> HIDE DEF a
      <4>4. p = q
        BY <3>3, <4>2, <4>3 DEF OneNumber
      <4> QED BY <3>2, <4>1, <4>4 DEF Recorded, Unheard
    <3> QED BY <2>1, <3>1, <3>2, <3>3 DEF Rung, UuidsOf
  <2> QED BY <2>3, <2>4
<1> QED BY <1>1, <1>2, <1>3, EngineMoves

-----------------------------------------------------------------------------
(* What the till is told.                                                  *)

\* What is left to write after a write was there before it.
LEMMA MarkAloneKept ==
    ASSUME SyncInv, MarkAlone, OneAtATime, [Next]_vars
    PROVE  MarkAlone'
<1> USE DEF SyncInv
<1> SUFFICES ASSUME NEW m \in Mounts
             PROVE  /\ \A q \in Seqs : flush'[m].verdict[q] # Unheard => flush'[m].pc = "mark"
                    /\ flush'[m].pc = "mark" => \A s \in Sessions : session'[s].key = NoKey
  BY DEF MarkAlone
<1>0. flush \in [Mounts -> Flushes] /\ \A n \in Mounts : n = m
  BY DEF TypeOK, TillTypeOK, OneAtATime
<1>1. ASSUME NEW q \in Seqs, flush'[m].verdict[q] # Unheard PROVE flush'[m].pc = "mark"
  <2>1. flush'[m] # Resting
    BY <1>1 DEF Resting, NoVerdict
  <2>2. CASE Write(m)
    <3>1. PICK seqs : flush' = [flush EXCEPT ![m] = Strike(m, seqs)]
      BY <2>2 DEF Write, Mark, MarkFailed, MarkSettled
    <3> QED BY <1>0, <2>1, <2>2, <3>1 DEF Strike, Write, Mark, MarkFailed, MarkSettled, Flushes
  <2>3. ASSUME NEW s \in Sessions, Send(m, s) PROVE FALSE
    <3>1. flush[m].pc = "idle" /\ flush'[m].verdict = flush[m].verdict
      BY <1>0, <2>3 DEF Send, FlushStart, Flushes
    <3> QED BY <1>1, <3>1 DEF MarkAlone
  <2>4. ASSUME NEW a, FlushAnswered(m, a) PROVE flush'[m].pc = "mark"
    BY <1>0, <2>1, <2>4 DEF FlushAnswered
  <2> QED BY <1>1, <2>1, <2>2, <2>3, <2>4, FlushMoves DEF MarkAlone
<1>2. ASSUME flush'[m].pc = "mark", NEW s \in Sessions PROVE session'[s].key = NoKey
  <2>1. ASSUME NEW t \in Sessions, Release(t) PROVE session'[s].key = NoKey
    <3>1. session' = [session EXCEPT ![t] = Free] /\ t = s
      BY <2>1 DEF Release, OneAtATime
    <3> QED BY <3>1 DEF Free, BooksInv, EngineTypeOK
  <2>2. ASSUME NEW t \in Sessions, Sends(t) PROVE FALSE
    BY <1>0, <1>2, <2>2 DEF Sends, Send, FlushStart, Flushes
  <2>3. CASE flush[m].pc = "mark" /\ session' = session
    BY <2>3 DEF MarkAlone
  <2>4. ASSUME NEW t \in Sessions, ServerStep(t) PROVE FALSE
    <3>1. flush' = flush /\ session[t].key # NoKey
      BY <2>4, ServingIsBusy, ServedHasKey DEF ServerStep, tillVars
    <3> QED BY <1>2, <3>1 DEF MarkAlone
  <2>5. CASE TillStep
    <3>1. session' = session
      BY <2>5 DEF TillStep, Draw, Record, GivesUp, GiveUp, Writes, Write,
         Restart, Replace, engineVars
    <3>2. ASSUME NEW t \in Sessions, Deliver(m, t), session[t].phase = "replied"
          PROVE  FALSE
      <4>1. session' = [session EXCEPT ![t] = Free]
        BY <3>2 DEF Deliver, Release
      <4> QED BY <3>1, <3>2, <4>1 DEF Free, BooksInv, EngineTypeOK
    <3>3. ASSUME NEW t \in Sessions, Send(m, t) PROVE FALSE
      BY <1>0, <1>2, <3>3 DEF Send, FlushStart, Flushes
    <3>4. Write(m) => flush[m].pc = "mark"
      BY DEF Write, Mark, MarkFailed, MarkSettled
    <3>5. flush'[m] # Resting
      BY <1>2 DEF Resting
    <3>6. flush[m].pc = "mark"
      BY <1>2, <3>2, <3>3, <3>4, <3>5, FlushMoves
    <3> QED BY <2>3, <3>1, <3>6
  <2>6. CASE UNCHANGED vars
    BY <1>2, <2>3, <2>6 DEF vars, tillVars, engineVars
  <2>7. ASSUME NEW t \in Sessions, Delivers(t) \/ Discard(t) PROVE Release(t)
    BY <2>7 DEF Delivers, Deliver, Discard
  <2> QED BY <2>1, <2>2, <2>4, <2>5, <2>6, <2>7 DEF Next
<1> QED BY <1>1, <1>2

\* The rows of a push that is served wait until it has answered: the flush
\* that writes them ends before the next push can be received.
LEMMA ServedWaitKept ==
    ASSUME SyncInv, MarkAlone, ServedWait, OneAtATime, [Next]_vars
    PROVE  ServedWait'
<1> USE DEF SyncInv
<1>1. ASSUME session' = session, \A q \in Used' : q \in Pending' \/
                 (q \in Used /\ rows'[q] = rows[q])
      PROVE  ServedWait'
  <2> SUFFICES ASSUME NEW s \in Sessions, session[s].key # NoKey,
                      NEW p \in BatchSeqs(s), NEW q \in Used',
                      rows'[q].uuid = session[s].items[p], q \notin Pending'
               PROVE  FALSE
    BY <1>1 DEF ServedWait, BatchSeqs
  <2>1. q \in Used /\ rows'[q] = rows[q]
    BY <1>1
  <2>2. q \in Pending
    BY <2>1 DEF ServedWait
  <2> QED BY <2>1, <2>2 DEF Pending
<1>2. CASE Writes
  <2>1. session' = session /\ \E m \in Mounts : flush[m].pc = "mark"
    BY <1>2 DEF Writes, Write, engineVars, Mark, MarkFailed, MarkSettled
  <2>2. \A s \in Sessions : session'[s].key = NoKey
    BY <2>1 DEF MarkAlone
  <2> QED BY <2>2 DEF ServedWait
<1>3. CASE Replace
  <2>1. session' = session /\ Used' = {}
    BY <1>3 DEF Replace, engineVars, Used, NoRow
  <2> QED BY <1>1, <2>1
<1>4. ASSUME NEW u \in Sales, Record(u) PROVE ServedWait'
  <2>1. session' = session
    BY <1>4 DEF Record, engineVars
  <2>2. CASE rows' = rows
    BY <1>1, <2>1, <2>2 DEF Used
  <2>3. CASE /\ drawn[u] \in Seqs \ Used
             /\ rows' = [rows EXCEPT ![drawn[u]] = [uuid |-> u, state |-> "pending"]]
    <3>1. /\ rows'[drawn[u]].state = "pending"
          /\ \A q \in Seqs \ {drawn[u]} : rows'[q] = rows[q]
      BY <2>3 DEF TypeOK, TillTypeOK
    <3>2. \A q \in Used' : q \in Pending' \/ (q \in Used /\ rows'[q] = rows[q])
      BY <3>1 DEF Used, Pending
    <3> QED BY <1>1, <2>1, <3>2
  <2> QED BY <1>4, <2>2, <2>3, RecordEffect
<1>5. CASE ~Writes /\ ~Replace /\ \A u \in Sales : ~Record(u)
  <2>1. rows' = rows /\ Used' = Used /\ Pending' = Pending
    BY <1>5, RowsKept DEF Used, Pending
  <2> SUFFICES ASSUME NEW s \in Sessions, session'[s].key # NoKey,
                      NEW p \in BatchSeqs(s)', NEW q \in Used,
                      rows[q].uuid = session'[s].items[p]
               PROVE  q \in Pending
    BY <2>1 DEF ServedWait
  <2>2. CASE session'[s].key = session[s].key /\ session'[s].items = session[s].items
    BY <2>2 DEF ServedWait, BatchSeqs
  <2>3. ASSUME NEW t \in Sessions, Sends(t) PROVE q \in Pending
    <3>1. Receive(t, BatchKey(Contents(Outstanding)), Contents(Outstanding)) /\ t = s
      BY <2>3 DEF Sends, Send, OneAtATime
    <3>2. session'[s].items = Contents(Outstanding)
      BY <3>1 DEF Receive, Free, BooksInv, EngineTypeOK
    <3>3. p \in Seqs /\ Contents(Outstanding)[p] # NoSale
      BY <3>2 DEF BatchSeqs, SeqsOf
    <3>4. p \in Outstanding /\ rows[p].uuid = rows[q].uuid
      BY <3>2, <3>3 DEF Contents
    <3>5. p \in Pending /\ p \in Used
      BY <3>4 DEF Outstanding, Pending, Used
    <3> QED BY <3>4, <3>5 DEF TableInv
  <2>4. CASE \A t \in Sessions : ~Sends(t)
    <3>1. CASE UNCHANGED engineVars
      BY <2>2, <3>1 DEF engineVars
    <3>2. ASSUME NEW t \in Sessions, EngineStepOf(t) PROVE q \in Pending
      <4>1. t = s
        BY DEF OneAtATime
      <4>2. CASE \E r \in AnyPush : Receive(s, r[1], r[2])
        <5>1. session[s].phase = "idle" /\ session'[s].phase = "received"
          BY <4>2 DEF Receive, Free, BooksInv, EngineTypeOK
        <5>2. ~UNCHANGED session
          BY <5>1
        <5>3. ASSUME NEW r \in Sessions, ServerStep(r) \/ Delivers(r) \/ Discard(r)
              PROVE  FALSE
          <6>1. r = s
            BY DEF OneAtATime
          <6> QED BY <5>1, <5>3, <6>1, ServingIsBusy DEF ServerStep, Delivers, Deliver, Discard, Release
        <5>4. ~TillStep /\ ~UNCHANGED vars
          BY <5>2 DEF TillStep, Draw, Record, GivesUp, GiveUp, Writes, Write, Restart, Replace,
                      engineVars, vars
        <5> QED BY <2>4, <5>3, <5>4 DEF Next
      <4> QED BY <2>2, <3>2, <4>1, <4>2, SessionMoves
    <3> QED BY <3>1, <3>2, EngineMoves
  <2> QED BY <2>3, <2>4
<1> QED BY <1>2, <1>3, <1>4, <1>5

\* A commit adds to the books only sales whose rows on the till wait, and none
\* while an answer is written down.
LEMMA OnlyWaitingAreRung ==
    ASSUME SyncInv, OrderInv, MarkAlone, ServedWait, [Next]_vars
    PROVE  /\ (\E m \in Mounts : flush[m].pc = "mark") => Rung' = Rung
           /\ Rung' # Rung => UNCHANGED <<rows, flush>>
           /\ \A q \in Used : rows[q].uuid \in Rung' \ Rung => q \in Pending
<1>1. ASSUME NEW u \in Rung' \ Rung
      PROVE  /\ \A m \in Mounts : flush[m].pc # "mark"
             /\ \A q \in Used : rows[q].uuid = u => q \in Pending
  <2>1. PICK s \in Sessions, p \in Seqs : /\ session[s].key # NoKey
                                          /\ p \in BatchSeqs(s)
                                          /\ session[s].items[p] = u
    BY <1>1, NewInBooks
  <2> QED BY <2>1 DEF MarkAlone, ServedWait
<1>2. Rung' # Rung => \E u \in Rung' : u \notin Rung
  BY BooksGrow
<1>3. ASSUME Rung' # Rung PROVE UNCHANGED <<rows, flush>>
  <2>1. PICK u \in Rung' : u \notin Rung
    BY <1>2, <1>3
  <2>2. PICK s \in Sessions : Commit(s)
    BY <2>1, NewInBooks
  <2>3. session'[s].phase = "replied" /\ session[s].phase = "cursor"
    BY <2>2 DEF Commit, SyncInv, BooksInv, EngineTypeOK
  <2>4. ASSUME NEW r \in Sessions, Sends(r) \/ Delivers(r) \/ Discard(r)
        PROVE  FALSE
    BY <1>3, <2>4 DEF Sends, Send, Receive, Delivers, Deliver, Discard, Release, Rung
  <2>5. ~TillStep
    BY <1>3 DEF TillStep, Draw, Record, GivesUp, GiveUp, Writes, Write, Restart, Replace, engineVars, Rung
  <2>6. ~UNCHANGED vars
    BY <1>3 DEF vars, engineVars, Rung
  <2>7. PICK r \in Sessions : ServerStep(r)
    BY <2>4, <2>5, <2>6 DEF Next
  <2> QED BY <2>7 DEF ServerStep, tillVars
<1> QED BY <1>1, <1>2, <1>3

\* What the till has heard refused, or shows as refused, is not in the books.
LEMMA RefusedOnTillKept ==
    ASSUME SyncInv, OrderInv, RefusalInv, OneAtATime, [Next]_vars
    PROVE  /\ \A m \in Mounts : \A q \in Heard(m, "failed")' : rows'[q].uuid \notin Rung'
           /\ RefusedIsNotRung'
<1> USE DEF SyncInv
<1>1. ASSUME NEW m \in Mounts, NEW q \in Seqs, flush[m].verdict[q] = "failed"
      PROVE  rows[q].uuid \notin Rung /\ q \in Used
  BY <1>1 DEF RefusalInv, Heard, QueueInv, InFlightIsPending, InHand, Unheard, Pending, Used
<1>2. \A q \in Seqs : rows[q].state = "failed" => rows[q].uuid \notin Rung
  BY DEF RefusalInv, RefusedIsNotRung
<1>3. ASSUME NEW m \in Mounts, NEW q \in Seqs, flush'[m].verdict[q] = "failed"
      PROVE  rows'[q].uuid \notin Rung'
  <2>0. ~Replace /\ flush'[m].verdict[q] # Unheard
    BY <1>3 DEF Replace, Resting, NoVerdict, Unheard
  <2>1. CASE Rung' # Rung
    <3>1. UNCHANGED <<rows, flush>> /\ flush[m].pc # "mark"
      BY <2>1, OnlyWaitingAreRung DEF RefusalInv
    <3> QED BY <2>0, <3>1 DEF RefusalInv, MarkAlone
  <2>2. CASE Rung' = Rung /\ flush[m].verdict[q] = flush'[m].verdict[q]
    BY <1>1, <1>3, <2>0, <2>2, VerdictsStay DEF KeepsVerdicts
  <2>3. ASSUME Rung' = Rung, rows' = rows, NEW s \in Sessions,
               session[s].verdict[q] = flush'[m].verdict[q],
               session[s].items[q] = rows[q].uuid
        PROVE  rows'[q].uuid \notin Rung'
    BY <1>3, <2>3 DEF RefusalInv, RefusedHere, UuidTaken, UuidsOf, Rung
  <2> QED BY <2>0, <2>1, <2>2, <2>3, VerdictsHeard
<1>4. ASSUME NEW q \in Seqs, rows'[q].state = "failed" PROVE rows'[q].uuid \notin Rung'
  <2>1. CASE Rung' # Rung
    <3>1. UNCHANGED rows
      BY <2>1, OnlyWaitingAreRung DEF RefusalInv
    <3>2. q \in Used /\ q \notin Pending
      BY <1>4, <3>1 DEF Used, Pending
    <3> QED BY <1>2, <1>4, <3>1, <3>2, OnlyWaitingAreRung DEF RefusalInv
  <2>2. CASE Rung' = Rung /\ rows'[q] = rows[q]
    BY <1>2, <1>4, <2>2
  <2>3. CASE Rung' = Rung /\ Writes
    <3>a. PICK m \in Mounts : Mark(m)
      BY <2>3 DEF Writes, Write
    <3>b. PICK v \in Settled \cup {"failed"} : \E seqs \in SUBSET Heard(m, v) :
              rows' = SetState(seqs, v)
      BY <3>a, MarkEffect DEF QueueInv
    <3>1. PICK seqs \in SUBSET Heard(m, v) : rows' = SetState(seqs, v)
      BY <3>b
    <3>2. rows'[q].uuid = rows[q].uuid
      BY <2>3, WriteEffect
    <3>3. q \in seqs => (v = "failed" /\ flush[m].verdict[q] = "failed") \/ rows[q].state = "failed"
      BY <1>4, <3>1 DEF SetState, Heard, TypeOK, TillTypeOK, Settled
    <3>4. q \notin seqs => rows'[q] = rows[q]
      BY <3>1 DEF SetState
    <3> QED BY <1>1, <1>2, <1>4, <2>3, <3>2, <3>3, <3>4
  <2>4. ASSUME NEW u \in Sales, Record(u) PROVE rows'[q] = rows[q]
    <3>1. CASE rows' = rows
      BY <3>1
    <3>2. CASE /\ drawn[u] \in Seqs \ Used
               /\ rows' = [rows EXCEPT ![drawn[u]] = [uuid |-> u, state |-> "pending"]]
      BY <1>4, <3>2 DEF TypeOK, TillTypeOK
    <3> QED BY <2>4, <3>1, <3>2, RecordEffect
  <2>5. ~Replace
    BY <1>4 DEF Replace, NoRow
  <2>6. CASE ~Writes /\ \A u \in Sales : ~Record(u)
    BY <2>1, <2>2, <2>5, <2>6, RowsKept
  <2> QED BY <2>1, <2>2, <2>3, <2>4, <2>6
<1> QED BY <1>3, <1>4 DEF Heard, RefusedIsNotRung

LEMMA RefusalInvInit == Init => RefusalInv
<1> SUFFICES ASSUME Init PROVE RefusalInv
  OBVIOUS
<1>1. Sent = {} /\ Rung = {}
  BY DEF Sent, Rung, UuidsOf, Init, EngineInit, Free
<1>2. MarkAlone
  BY DEF MarkAlone, Init, TillInit, Resting, NoVerdict
<1>3. ServedWait /\ RefusedHere
  BY DEF ServedWait, RefusedHere, Init, EngineInit, Free, NoVerdict, Unheard
<1>4. OneNumber /\ RefusedOnRecord /\ RefusedIsNotRung
  BY <1>1 DEF OneNumber, RefusedOnRecord, RefusedIsNotRung
<1> QED BY <1>1, <1>2, <1>3, <1>4 DEF RefusalInv

LEMMA RefusalInvStep ==
    ASSUME SyncInv, OrderInv, RefusalInv, OneAtATime, [Next]_vars
    PROVE  RefusalInv'
BY OneNumberKept, MarkAloneKept, ServedWaitKept, RefusedHereKept,
   RefusedOnRecordKept, RefusedOnTillKept DEF RefusalInv

\* One push at a time, on a chain and with no gate that shuts on what is rung:
\* a sale the till shows as refused is not in the books, through lost answers,
\* replays, aborts, restarts and replaced machines (queue.ts:143-146).
THEOREM RefusalsHold == ASSUME OneAtATime PROVE Spec => []RefusedIsNotRung
<1>1. Init => RefusalInv
  BY RefusalInvInit
<1>2. SyncInv /\ OrderInv /\ RefusalInv /\ [Next]_vars => RefusalInv'
  BY RefusalInvStep
<1>3. RefusalInv => RefusedIsNotRung
  BY DEF RefusalInv
<1> QED BY <1>1, <1>2, <1>3, OrderInvariant, PTL DEF Spec
=============================================================================
