------------------------ MODULE ZatcaSubmissionProofs ------------------------
(***************************************************************************)
(* What reporting promises, for any number of invoices, devices and        *)
(* workers.  First what none of the order of the line is needed for: it    *)
(* holds whichever job a claim takes, so the argument is about the         *)
(* workers' steps alone.  Then the order itself, and with it the types:    *)
(* what the line's and the claims' sequences look like after each step.    *)
(***************************************************************************)
EXTENDS ZatcaSubmission, FiniteSetTheorems, WellFoundedInduction, TLAPS

\* The variables the argument reads are functions of what they should be.
Shape ==
    /\ DOMAIN state = Jobs
    /\ invoice \in [Jobs -> {"none", "pending", "reported", "rejected"}]
    /\ attempts \in [Jobs -> SUBSET Verdicts]
    /\ authority \in [Jobs -> Verdicts \cup {"none"}]
    /\ DOMAIN job = Workers
    /\ DOMAIN pc = Workers
    /\ DOMAIN answer = Workers

\* A job is let go of only when its invoice is settled.
EndsSettled(w) == pc[w] \in {"complete", "fail"} => Settled(job[w])

\* What a worker has been told is what the authority has decided.
HeardRight(w) ==
    pc[w] \in {"record", "settle"} =>
        /\ answer[w] = "accepted" => authority[job[w]] = "accepted"
        /\ answer[w] = "rejected" => authority[job[w]] # "none"

\* What a worker is about to settle by is on record.
SettlesOnRecord(w) == pc[w] = "settle" => answer[w] \in attempts[job[w]]

WorkersInv ==
    \A w \in Workers :
        job[w] \in Jobs => EndsSettled(w) /\ HeardRight(w) /\ SettlesOnRecord(w)

ReportInv == Shape /\ WorkersInv /\ NeverDropped /\ SettledByAuthority /\ SettledOnRecord

USE DEF Verdicts, Outcomes, StateFor, Settled, Goto

-----------------------------------------------------------------------------
\* No invoice, no job.
LEMMA InitReport == Init => ReportInv
  BY DEF Init, QueueInit, ReportInv, Shape, WorkersInv, EndsSettled, HeardRight,
         SettlesOnRecord, NeverDropped, SettledByAuthority, SettledOnRecord, Outstanding

\* The steps of the queue that no handler takes move jobs between pending and
\* running, and no worker.
LEMMA QueueKeepsReport ==
  ASSUME ReportInv, Queue, UNCHANGED submitVars
  PROVE  ReportInv'
PROOF
<1>1. UNCHANGED <<invoice, attempts, authority, pc, answer, job>>
      BY DEF Queue, Tick, ClaimReads, Reap, submitVars
<1>2. /\ DOMAIN state' = Jobs
      /\ \A j \in Jobs : j \in Outstanding => j \in Outstanding'
      BY DEF Queue, Tick, ClaimReads, Reap, Outstanding, ReportInv, Shape
<1> QED BY <1>1, <1>2 DEF ReportInv, Shape, WorkersInv, EndsSettled, HeardRight,
         SettlesOnRecord, NeverDropped, SettledByAuthority, SettledOnRecord

\* A sale brings the invoice and its job together; signing changes neither.
LEMMA ShopKeepsReport ==
  ASSUME ReportInv, NEW j \in Jobs, Ring(j) \/ Attach(j)
  PROVE  ReportInv'
PROOF
<1>1. CASE Ring(j)
  <2>1. /\ state' = [state EXCEPT ![j] = "pending"]
        /\ invoice[j] = "none"
        /\ invoice' = [invoice EXCEPT ![j] = "pending"]
        /\ UNCHANGED <<job, attempts, authority, pc, answer>>
        BY <1>1 DEF Ring, EnqueueIn
  <2> QED BY <2>1 DEF ReportInv, Shape, WorkersInv, EndsSettled, HeardRight,
         SettlesOnRecord, NeverDropped, SettledByAuthority, SettledOnRecord, Outstanding
<1>2. CASE Attach(j)
  BY <1>2 DEF Attach, queueVars, ReportInv, Shape, WorkersInv, EndsSettled, HeardRight,
         SettlesOnRecord, NeverDropped, SettledByAuthority, SettledOnRecord, Outstanding
<1> QED BY <1>1, <1>2

\* A step of one worker leaves the others where they were, and what they rely
\* on is only added to: verdicts on record, decisions, settled invoices.
Gains(w) ==
    /\ \A v \in Workers \ {w} : /\ job'[v] = job[v] /\ pc'[v] = pc[v]
                                /\ answer'[v] = answer[v]
    /\ \A j \in Jobs : /\ attempts[j] \subseteq attempts'[j]
                       /\ authority[j] # "none" => authority'[j] = authority[j]
                       /\ Settled(j) => Settled(j)'

\* What one worker gains disturbs nothing that another, also busy, relies on.
LEMMA OthersKeep ==
  ASSUME ReportInv, NEW w \in Workers, Gains(w), NEW v \in Workers \ {w},
         job'[v] \in Jobs
  PROVE  (EndsSettled(v) /\ HeardRight(v) /\ SettlesOnRecord(v))'
  BY DEF ReportInv, Shape, WorkersInv, EndsSettled, HeardRight, SettlesOnRecord, Gains

\* Claiming: the job becomes running, if any does.
LEMMA TakeKeepsReport ==
  ASSUME ReportInv, NEW w \in Workers, Take(w)
  PROVE  ReportInv'
PROOF
<1>1. /\ UNCHANGED <<invoice, attempts, authority, answer>>
      /\ pc' = [pc EXCEPT ![w] = IF job'[w] = NoJob THEN "idle" ELSE "read"]
      BY DEF Take
<1>2. /\ DOMAIN state' = Jobs
      /\ DOMAIN job' = Workers
      /\ \A v \in Workers \ {w} : job'[v] = job[v]
      /\ \A j \in Jobs : j \in Outstanding => j \in Outstanding'
      BY DEF Take, ClaimTakes, Outstanding, ReportInv, Shape
<1>3. Gains(w) /\ Shape'
      BY <1>1, <1>2 DEF Gains, Shape, ReportInv
<1>4. (EndsSettled(w) /\ HeardRight(w) /\ SettlesOnRecord(w))'
      BY <1>1 DEF EndsSettled, HeardRight, SettlesOnRecord, ReportInv, Shape
<1>5. WorkersInv'
      BY <1>3, <1>4, OthersKeep DEF WorkersInv
<1> QED BY <1>1, <1>2, <1>3, <1>5 DEF ReportInv, NeverDropped, SettledByAuthority,
         SettledOnRecord

\* The steps between claim and end, which leave the queue alone.
LEMMA HandlerKeepsReport ==
  ASSUME ReportInv, NEW w \in Workers,
         \/ Read(w) \/ Submit(w) \/ AnswerLost(w) \/ NotAttempted(w)
         \/ Record(w) \/ Settle(w) \/ DbError(w)
  PROVE  ReportInv'
PROOF
<1>1. UNCHANGED queueVars
      BY DEF Read, Submit, AnswerLost, NotAttempted, Answered, Record, Settle, DbError
<1>2. UNCHANGED <<job, state>> /\ (Outstanding' = Outstanding)
      BY <1>1 DEF queueVars, Outstanding
<1>3. CASE Read(w) \/ DbError(w)
  <2>1. UNCHANGED <<invoice, attempts, authority, answer>>
        BY <1>3 DEF Read, DbError
  <2>2. \E step \in {"complete", "send", "retry"} :
            /\ pc' = [pc EXCEPT ![w] = step]
            /\ step = "complete" => Settled(job[w])
        BY <1>3 DEF Read, DbError
  <2>3. Gains(w) /\ Shape'
        BY <1>2, <2>1, <2>2 DEF Gains, Shape, ReportInv
  <2>4. (EndsSettled(w) /\ HeardRight(w) /\ SettlesOnRecord(w))'
        BY <1>2, <2>1, <2>2 DEF EndsSettled, HeardRight, SettlesOnRecord, ReportInv, Shape
  <2>5. WorkersInv'
        BY <2>3, <2>4, OthersKeep DEF WorkersInv
  <2> QED BY <1>2, <2>1, <2>3, <2>5 DEF ReportInv, NeverDropped, SettledByAuthority,
           SettledOnRecord
<1>4. CASE Submit(w) \/ AnswerLost(w) \/ NotAttempted(w)
  <2>1. /\ UNCHANGED <<invoice, attempts>>
        /\ pc' = [pc EXCEPT ![w] = "record"]
        BY <1>4 DEF Submit, AnswerLost, NotAttempted, Answered
  <2>2. \E outcome \in Outcomes :
            /\ answer' = [answer EXCEPT ![w] = outcome]
            /\ job[w] \in Jobs =>
                 /\ outcome = "accepted" => authority'[job[w]] = "accepted"
                 /\ outcome = "rejected" => authority'[job[w]] # "none"
        BY <1>4 DEF Submit, AnswerLost, NotAttempted, Answered, ReportInv, Shape
  <2>3. /\ authority' \in [Jobs -> Verdicts \cup {"none"}]
        /\ \A j \in Jobs : authority[j] # "none" => authority'[j] = authority[j]
        BY <1>4 DEF Submit, AnswerLost, NotAttempted, ReportInv, Shape
  <2>4. Gains(w) /\ Shape'
        BY <1>2, <2>1, <2>2, <2>3 DEF Gains, Shape, ReportInv
  <2>5. job'[w] \in Jobs => (EndsSettled(w) /\ HeardRight(w) /\ SettlesOnRecord(w))'
        BY <1>2, <2>1, <2>2 DEF EndsSettled, HeardRight, SettlesOnRecord, ReportInv, Shape
  <2>6. WorkersInv'
        BY <2>4, <2>5, OthersKeep DEF WorkersInv
  <2> QED BY <1>2, <2>1, <2>3, <2>4, <2>6 DEF ReportInv, NeverDropped,
           SettledByAuthority, SettledOnRecord, Shape
<1>5. CASE Record(w)
  <2>1. /\ UNCHANGED <<invoice, authority, answer>>
        /\ attempts' = [attempts EXCEPT ![job[w]] = @ \cup ({answer[w]} \cap Verdicts)]
        /\ pc' = [pc EXCEPT ![w] = IF answer[w] \in Verdicts THEN "settle" ELSE "retry"]
        /\ pc[w] = "record"
        BY <1>5 DEF Record
  <2>2. Gains(w) /\ Shape'
        BY <1>2, <2>1 DEF Gains, Shape, ReportInv
  <2>3. job'[w] \in Jobs => (EndsSettled(w) /\ HeardRight(w) /\ SettlesOnRecord(w))'
        BY <1>2, <2>1 DEF EndsSettled, HeardRight, SettlesOnRecord, ReportInv, Shape,
                          WorkersInv
  <2>4. WorkersInv'
        BY <2>2, <2>3, OthersKeep DEF WorkersInv
  <2> QED BY <1>2, <2>1, <2>2, <2>4 DEF ReportInv, NeverDropped, SettledByAuthority,
           SettledOnRecord, Gains, Shape
<1>6. CASE Settle(w)
  <2>1. /\ UNCHANGED <<attempts, authority, answer>>
        /\ invoice' = [invoice EXCEPT ![job[w]] = StateFor(answer[w])]
        /\ pc' = [pc EXCEPT ![w] = IF answer[w] = "accepted" THEN "complete" ELSE "fail"]
        /\ pc[w] = "settle"
        BY <1>6 DEF Settle
  <2>2. Gains(w) /\ Shape'
        BY <1>2, <2>1 DEF Gains, Shape, ReportInv
  <2>3. job'[w] \in Jobs => (EndsSettled(w) /\ HeardRight(w) /\ SettlesOnRecord(w))'
        BY <1>2, <2>1 DEF EndsSettled, HeardRight, SettlesOnRecord, ReportInv, Shape
  <2>4. WorkersInv'
        BY <2>2, <2>3, OthersKeep DEF WorkersInv
  <2>5. job[w] \in Jobs => /\ HeardRight(w) /\ SettlesOnRecord(w)
                           /\ answer[w] \in Verdicts
        BY <2>1 DEF ReportInv, Shape, WorkersInv, SettlesOnRecord
  <2>6. (SettledByAuthority /\ SettledOnRecord)'
        BY <2>1, <2>5 DEF ReportInv, Shape, HeardRight, SettlesOnRecord,
                          SettledByAuthority, SettledOnRecord
  <2> QED BY <1>2, <2>1, <2>2, <2>4, <2>6 DEF ReportInv, NeverDropped, Shape
<1> QED BY <1>3, <1>4, <1>5, <1>6

\* The end of a run: only a job whose invoice is settled leaves the queue.
LEMMA EndKeepsReport ==
  ASSUME ReportInv, NEW w \in Workers, Return(w) \/ Die(w)
  PROVE  ReportInv'
PROOF
<1>1. /\ UNCHANGED <<invoice, attempts, authority>>
      /\ pc' = [pc EXCEPT ![w] = "idle"]
      /\ answer' = [answer EXCEPT ![w] = "none"]
      BY DEF Return, Die
<1>2. /\ DOMAIN state' = Jobs
      /\ job' = [job EXCEPT ![w] = NoJob]
      BY DEF Return, Die, Complete, Fail, Retry, Finish, Lose, Leave, ReportInv, Shape
<1>3. Gains(w) /\ Shape'
      BY <1>1, <1>2 DEF Gains, Shape, ReportInv
<1>4. (EndsSettled(w) /\ HeardRight(w) /\ SettlesOnRecord(w))'
      BY <1>1 DEF EndsSettled, HeardRight, SettlesOnRecord, ReportInv, Shape
<1>5. WorkersInv'
      BY <1>3, <1>4, OthersKeep DEF WorkersInv
<1>6. ASSUME NEW j \in Jobs, j \in Outstanding, ~Settled(j)
      PROVE  j \in Outstanding'
  <2>1. \/ state' = state
        \/ \E outcome \in {"done", "failed"} :
              /\ pc[w] \in {"complete", "fail"}
              /\ state' = [state EXCEPT ![job[w]] = outcome]
        \/ state' = [state EXCEPT ![job[w]] = "pending"]
        BY DEF Return, Die, Complete, Fail, Retry, Finish, Lose
  <2>2. pc[w] \in {"complete", "fail"} => job[w] # j
        BY <1>6 DEF ReportInv, WorkersInv, EndsSettled
  <2> QED BY <1>6, <2>1, <2>2 DEF Outstanding, ReportInv, Shape
<1>7. NeverDropped'
      BY <1>1, <1>6 DEF ReportInv, NeverDropped
<1> QED BY <1>1, <1>3, <1>5, <1>7 DEF ReportInv, SettledByAuthority, SettledOnRecord

-----------------------------------------------------------------------------
\* What the workers rely on and what reporting promises hold together, in
\* every state of every behaviour.
THEOREM ReportCorrect == Spec => []ReportInv
PROOF
<1>1. Init => ReportInv
      BY InitReport
<1>2. ReportInv /\ [Next]_vars => ReportInv'
  <2> SUFFICES ASSUME ReportInv, [Next]_vars PROVE ReportInv'
      OBVIOUS
  <2>1. CASE UNCHANGED vars
        BY <2>1 DEF vars, queueVars, submitVars, ReportInv, Shape, WorkersInv,
           EndsSettled, HeardRight, SettlesOnRecord, NeverDropped, SettledByAuthority,
           SettledOnRecord, Outstanding
  <2>2. CASE \E j \in Jobs : Ring(j) \/ Attach(j)
        BY <2>2, ShopKeepsReport
  <2>3. CASE Queue /\ UNCHANGED submitVars
        BY <2>3, QueueKeepsReport
  <2>4. CASE \E w \in Workers : Handle(w) \/ Setback(w)
        BY <2>4, TakeKeepsReport, HandlerKeepsReport, EndKeepsReport
           DEF Handle, Setback
  <2> QED BY <2>1, <2>2, <2>3, <2>4 DEF Next
<1> QED BY <1>1, <1>2, PTL DEF Spec

\* An invoice that is not settled always has a job to run or running
\* (zatcasubmit.go:34-36, queue.go:224): workers that die, answer late by id or
\* are reaped alive never leave it without one.
THEOREM NeverDroppedCorrect == Spec => []NeverDropped
<1>1. ReportInv => NeverDropped
      BY DEF ReportInv
<1> QED BY <1>1, ReportCorrect, PTL

\* The books say of an invoice only what the authority has decided of it
\* (zatcasubmit.go:253, 275).
THEOREM SettledByAuthorityCorrect == Spec => []SettledByAuthority
<1>1. ReportInv => SettledByAuthority
      BY DEF ReportInv
<1> QED BY <1>1, ReportCorrect, PTL

\* The outcome that settled an invoice is among its recorded attempts
\* (zatcasubmit.go:170, 230).
THEOREM SettledOnRecordCorrect == Spec => []SettledOnRecord
<1>1. ReportInv => SettledOnRecord
      BY DEF ReportInv
<1> QED BY <1>1, ReportCorrect, PTL

HIDE DEF Verdicts, Outcomes, StateFor, Settled, Goto

-----------------------------------------------------------------------------
(* Sequences: what taking the jobs of a set out of one keeps, and where    *)
(* removing and inserting a job leaves the others.                         *)

\* A set of numbers that has 0 and the successor of each of its members has
\* every number.
LEMMA Upwards ==
    ASSUME NEW G, 0 \in G, \A n \in Nat : n \in G => n + 1 \in G
    PROVE  \A n \in Nat : n \in G
<1> SUFFICES ASSUME NEW n \in Nat, n \notin G PROVE FALSE
  OBVIOUS
<1> DEFINE Bad == {m \in 0..n : m \notin G}
           Below == {1..m : m \in Bad}
<1>1. Below # {} /\ \A I \in Below : I \in FiniteSubsetsOf(Nat)
  <2>1. \A m \in Nat : IsFiniteSet(1..m) /\ (1..m) \subseteq Nat
    BY FS_Interval
  <2>2. n \in Bad /\ Bad \subseteq Nat
    OBVIOUS
  <2> HIDE DEF Bad
  <2> QED  BY <2>1, <2>2 DEF FiniteSubsetsOf
<1>2. PICK I \in Below : \A J \in Below : ~(<<J, I>> \in StrictSubsetOrdering(Nat))
  <2> HIDE DEF Below
  <2>1. Below \subseteq FiniteSubsetsOf(Nat)
    BY <1>1
  <2>2. IsWellFoundedOn(StrictSubsetOrdering(Nat), FiniteSubsetsOf(Nat))
    BY FS_StrictSubsetOrderingWellFounded
  <2> QED  BY <1>1, <2>1, <2>2, WFMin
<1>3. PICK m \in Bad : I = 1..m
  OBVIOUS
<1>4. m \in Nat /\ m # 0 /\ m - 1 \in Nat /\ m - 1 \in 0..n /\ (m - 1) + 1 = m
  BY <1>3
<1>5. m - 1 \in Bad
  BY <1>3, <1>4
<1>6. (1..(m - 1)) \in Below /\ (1..(m - 1)) \subseteq (1..m) /\ m \in 1..m
      /\ m \notin 1..(m - 1) /\ (1..(m - 1)) \in SUBSET Nat /\ (1..m) \in SUBSET Nat
  BY <1>4, <1>5
<1>7. <<1..(m - 1), I>> \in StrictSubsetOrdering(Nat)
  BY <1>3, <1>6 DEF StrictSubsetOrdering
<1> QED  BY <1>2, <1>6, <1>7

\* kept is what Only computes of s up to each of its places up to N.
Keeps(kept, N, s, P) ==
    kept = [n \in 0..N |->
              IF n = 0 THEN <<>>
              ELSE IF s[n] \in P THEN Append(kept[n - 1], s[n]) ELSE kept[n - 1]]

LEMMA OnlyIsRecursive ==
    ASSUME NEW s, NEW P
    PROVE  Only(s, P) = (CHOOSE kept : Keeps(kept, Len(s), s, P))[Len(s)]
  BY DEF Only, Keeps

LEMMA KeepsExists ==
    ASSUME NEW s, NEW P
    PROVE  \A N \in Nat : \E kept : Keeps(kept, N, s, P)
<1> DEFINE G == {N \in Nat : \E kept : Keeps(kept, N, s, P)}
<1>1. 0 \in G
  <2> DEFINE k == [n \in 0..0 |-> <<>>]
  <2>1. k = [n \in 0..0 |->
              IF n = 0 THEN <<>>
              ELSE IF s[n] \in P THEN Append(k[n - 1], s[n]) ELSE k[n - 1]]
    OBVIOUS
  <2> HIDE DEF k
  <2> QED  BY <2>1 DEF Keeps
<1>2. ASSUME NEW N \in Nat, N \in G PROVE N + 1 \in G
  <2>1. PICK g : Keeps(g, N, s, P)
    BY <1>2
  <2> DEFINE k == [n \in 0..(N + 1) |->
                     IF n \in 0..N THEN g[n]
                     ELSE IF s[n] \in P THEN Append(g[N], s[n]) ELSE g[N]]
             h == [n \in 0..(N + 1) |->
                     IF n = 0 THEN <<>>
                     ELSE IF s[n] \in P THEN Append(k[n - 1], s[n]) ELSE k[n - 1]]
  <2>2. ASSUME NEW n \in 0..(N + 1) PROVE k[n] = h[n]
    <3>1. CASE n = 0
      <4>1. 0 \in 0..N /\ k[0] = g[0] /\ h[0] = <<>>
        OBVIOUS
      <4> HIDE DEF k, h
      <4>2. g[0] = <<>>
        BY <2>1, <4>1 DEF Keeps
      <4> QED  BY <3>1, <4>1, <4>2
    <3>2. CASE n \in 1..N
      <4>1. /\ k[n - 1] = g[n - 1] /\ k[n] = g[n] /\ n \in 0..N /\ n # 0
            /\ h[n] = IF s[n] \in P THEN Append(k[n - 1], s[n]) ELSE k[n - 1]
        BY <3>2
      <4> HIDE DEF k, h
      <4>2. g[n] = IF s[n] \in P THEN Append(g[n - 1], s[n]) ELSE g[n - 1]
        BY <2>1, <4>1 DEF Keeps
      <4> QED  BY <4>1, <4>2
    <3>3. CASE n = N + 1
      <4>1. k[n - 1] = g[N] /\ n \notin 0..N /\ n # 0
        BY <3>3
      <4> QED  BY <3>3, <4>1
    <3> QED  BY <3>1, <3>2, <3>3
  <2>3. k = h
    <3>1. DOMAIN k = DOMAIN h /\ k = [n \in DOMAIN k |-> k[n]] /\ h = [n \in DOMAIN h |-> h[n]]
      OBVIOUS
    <3> HIDE DEF k, h
    <3>2. \A n \in DOMAIN k : k[n] = h[n]
      BY <2>2 DEF k
    <3> QED  BY <3>1, <3>2
  <2>4. Keeps(k, N + 1, s, P)
    <3> HIDE DEF k
    <3> QED  BY <2>3 DEF Keeps
  <2> HIDE DEF k, h
  <2> QED  BY <2>4
<1> HIDE DEF G
<1>3. \A N \in Nat : N \in G
  BY <1>1, <1>2, Upwards
<1> QED  BY <1>3 DEF G

\* r is the elements of s up to its n-th place that are in P, each found at
\* its place, in the order of their places.
Picks(place, r, s, P, n) ==
    /\ place \in [1..Len(r) -> 1..n]
    /\ \A k \in 1..Len(r) : r[k] = s[place[k]] /\ r[k] \in P
    /\ \A k, l \in 1..Len(r) : k < l => place[k] < place[l]
    /\ \A m \in 1..n : s[m] \in P => \E k \in 1..Len(r) : place[k] = m

\* One more element, taken or passed over.
LEMMA PicksOneMore ==
    ASSUME NEW S, NEW s \in Seq(S), NEW P, NEW r \in Seq(S), NEW n \in Nat,
           n + 1 \in 1..Len(s), NEW place, Picks(place, r, s, P, n)
    PROVE  /\ s[n + 1] \notin P => \E next : Picks(next, r, s, P, n + 1)
           /\ s[n + 1] \in P =>
                 \E next : Picks(next, Append(r, s[n + 1]), s, P, n + 1)
<1>1. Len(r) \in Nat /\ \A m \in 1..(n + 1) : m \in 1..n \/ m = n + 1
  OBVIOUS
<1>2. ASSUME s[n + 1] \notin P PROVE Picks(place, r, s, P, n + 1)
  <2>1. (1..n) \subseteq 1..(n + 1)
    OBVIOUS
  <2> QED  BY <1>1, <1>2, <2>1 DEF Picks
<1>3. ASSUME s[n + 1] \in P
      PROVE  \E next : Picks(next, Append(r, s[n + 1]), s, P, n + 1)
  <2> DEFINE q == Append(r, s[n + 1])
             L == Len(r)
             next == [k \in 1..(L + 1) |-> IF k \in 1..L THEN place[k] ELSE n + 1]
  <2>1. /\ Len(q) = L + 1 /\ \A k \in 1..L : q[k] = r[k]
        /\ q[L + 1] = s[n + 1]
    OBVIOUS
  <2>2. /\ L \in Nat /\ L + 1 \in 1..(L + 1) /\ L + 1 \notin 1..L
        /\ \A k \in 1..(L + 1) : k \in 1..L \/ k = L + 1
        /\ \A k \in 1..L : k \in 1..(L + 1)
    OBVIOUS
  <2>3. /\ \A k \in 1..L : next[k] = place[k] /\ place[k] \in 1..n
        /\ next[L + 1] = n + 1 /\ DOMAIN next = 1..(L + 1)
    BY DEF Picks
  <2>4. next = [k \in 1..(L + 1) |-> next[k]]
    OBVIOUS
  <2> HIDE DEF next, q
  <2>5. next \in [1..Len(q) -> 1..(n + 1)]
    <3>1. \A k \in 1..(L + 1) : next[k] \in 1..(n + 1)
      BY <2>2, <2>3
    <3> QED  BY <2>1, <2>4, <3>1
  <2>6. \A k \in 1..Len(q) : q[k] = s[next[k]] /\ q[k] \in P
    BY <1>3, <2>1, <2>2, <2>3 DEF Picks
  <2>7. \A k, l \in 1..Len(q) : k < l => next[k] < next[l]
    <3> SUFFICES ASSUME NEW k \in 1..(L + 1), NEW l \in 1..(L + 1), k < l
                 PROVE  next[k] < next[l]
      BY <2>1
    <3>1. k \in 1..L
      BY <2>2
    <3>2. CASE l \in 1..L
      BY <2>3, <3>1, <3>2 DEF Picks
    <3>3. CASE l = L + 1
      BY <2>3, <3>1, <3>3
    <3> QED  BY <2>2, <3>2, <3>3
  <2>8. \A m \in 1..(n + 1) : s[m] \in P => \E k \in 1..Len(q) : next[k] = m
    <3>1. ASSUME NEW m \in 1..n, s[m] \in P PROVE \E k \in 1..(L + 1) : next[k] = m
      <4>1. PICK k \in 1..L : place[k] = m
        BY <3>1 DEF Picks
      <4> QED  BY <2>2, <2>3, <4>1
    <3>2. \E k \in 1..(L + 1) : next[k] = n + 1
      BY <2>2, <2>3
    <3> QED  BY <1>1, <2>1, <3>1, <3>2
  <2>9. Picks(next, q, s, P, n + 1)
    BY <2>5, <2>6, <2>7, <2>8 DEF Picks
  <2> QED  BY <2>9 DEF q
<1> QED  BY <1>2, <1>3

\* What Only keeps, and in which order.
LEMMA OnlyPicks ==
    ASSUME NEW S, NEW s \in Seq(S), NEW P
    PROVE  /\ Only(s, P) \in Seq(S)
           /\ \E place : Picks(place, Only(s, P), s, P, Len(s))
<1> DEFINE kept == CHOOSE k : Keeps(k, Len(s), s, P)
<1>1. Keeps(kept, Len(s), s, P) /\ Only(s, P) = kept[Len(s)] /\ Len(s) \in Nat
  <2>1. Len(s) \in Nat
    OBVIOUS
  <2>2. \E k : Keeps(k, Len(s), s, P)
    BY <2>1, KeepsExists
  <2>3. Keeps(kept, Len(s), s, P)
    BY <2>2
  <2> QED  BY <2>1, <2>3, OnlyIsRecursive
<1> HIDE DEF kept
<1> DEFINE Right(n) == kept[n] \in Seq(S) /\ \E place : Picks(place, kept[n], s, P, n)
           G == {n \in Nat : n =< Len(s) => Right(n)}
<1>2. 0 \in G
  <2>1. kept[0] = <<>> /\ kept[0] \in Seq(S) /\ Len(kept[0]) = 0
    BY <1>1 DEF Keeps
  <2>2. \E place : Picks(place, kept[0], s, P, 0)
    <3> DEFINE none == [k \in {} |-> 0]
    <3>1. none \in [1..0 -> 1..0] /\ 1..0 = {}
      OBVIOUS
    <3> HIDE DEF none
    <3>2. 1..Len(kept[0]) = {}
      BY <2>1, <3>1
    <3>3. none \in [1..Len(kept[0]) -> 1..0]
      BY <2>1, <3>1
    <3>4. Picks(none, kept[0], s, P, 0)
      BY <3>1, <3>2, <3>3 DEF Picks
    <3> QED  BY <3>4
  <2>3. Right(0)
    BY <2>1, <2>2
  <2> HIDE DEF Right
  <2> QED  BY <2>3
<1>3. ASSUME NEW n \in Nat, n \in G PROVE n + 1 \in G
  <2>1. SUFFICES ASSUME n + 1 =< Len(s) PROVE Right(n + 1)
    OBVIOUS
  <2>2. Right(n)
    BY <1>1, <1>3, <2>1
  <2>3. n + 1 \in 1..Len(s) /\ n + 1 \in 0..Len(s) /\ n + 1 # 0 /\ (n + 1) - 1 = n
        /\ s[n + 1] \in S
    BY <1>1, <2>1
  <2>4. kept[n + 1] = IF s[n + 1] \in P THEN Append(kept[n], s[n + 1]) ELSE kept[n]
    <3>1. kept[n + 1] = IF s[n + 1] \in P THEN Append(kept[(n + 1) - 1], s[n + 1])
                        ELSE kept[(n + 1) - 1]
      BY <1>1, <2>3 DEF Keeps
    <3> QED  BY <2>3, <3>1
  <2>5. PICK place : Picks(place, kept[n], s, P, n)
    BY <2>2
  <2>6. /\ s[n + 1] \notin P => \E next : Picks(next, kept[n], s, P, n + 1)
        /\ s[n + 1] \in P =>
              \E next : Picks(next, Append(kept[n], s[n + 1]), s, P, n + 1)
    BY <2>2, <2>3, <2>5, PicksOneMore
  <2>7. kept[n + 1] \in Seq(S)
    BY <2>2, <2>3, <2>4
  <2>8. \E next : Picks(next, kept[n + 1], s, P, n + 1)
    BY <2>4, <2>6
  <2> QED  BY <2>7, <2>8
<1>4. \A n \in Nat : n \in G
  <2> HIDE DEF G
  <2> QED  BY <1>2, <1>3, Upwards
<1>5. Right(Len(s))
  BY <1>1, <1>4
<1> QED  BY <1>1, <1>5

\* A set of places has a first.
LEMMA FirstPlace ==
    ASSUME NEW I \in SUBSET Nat, I # {}
    PROVE  \E x \in I : \A y \in I : x =< y
<1> SUFFICES ASSUME \A x \in I : \E y \in I : y < x PROVE FALSE
  OBVIOUS
<1> DEFINE G == {n \in Nat : \A m \in 0..n : m \notin I}
<1>1. 0 \in G
  <2>1. 0 \notin I
    OBVIOUS
  <2> QED  BY <2>1
<1>2. ASSUME NEW n \in Nat, n \in G PROVE n + 1 \in G
  <2>1. n + 1 \notin I
    <3> SUFFICES ASSUME n + 1 \in I PROVE FALSE
      OBVIOUS
    <3>1. PICK y \in I : y < n + 1
      OBVIOUS
    <3>2. y \in 0..n
      BY <3>1
    <3> QED  BY <1>2, <3>2
  <2> QED  BY <1>2, <2>1
<1>3. \A n \in Nat : n \in G
  <2> HIDE DEF G
  <2> QED  BY <1>1, <1>2, Upwards
<1>4. PICK n : n \in I
  OBVIOUS
<1>5. n \in Nat /\ n \in 0..n /\ n \in G
  BY <1>3, <1>4
<1> QED  BY <1>4, <1>5

LEMMA JoinedIs ==
    ASSUME NEW S, NEW a \in Seq(S), NEW b \in Seq(S),
           NEW m \in Nat, Len(a) = m, NEW n \in Nat, Len(b) = n
    PROVE  /\ a \o b \in Seq(S) /\ Len(a \o b) = m + n
           /\ \A p \in 1..m : (a \o b)[p] = a[p]
           /\ \A p \in 1..n : (a \o b)[m + p] = b[p]
  OBVIOUS

\* Removing an element: nothing, where it is not; else what follows it moves up.
LEMMA RemoveFirstIs ==
    ASSUME NEW S, NEW s \in Seq(S), NEW e
    PROVE  \/ /\ \A p \in 1..Len(s) : s[p] # e
              /\ RemoveFirst(s, e) = s
           \/ \E x \in 1..Len(s) :
                 /\ s[x] = e
                 /\ RemoveFirst(s, e) \in Seq(S)
                 /\ Len(RemoveFirst(s, e)) = Len(s) - 1
                 /\ \A p \in 1..(Len(s) - 1) :
                       RemoveFirst(s, e)[p] = IF p < x THEN s[p] ELSE s[p + 1]
<1>1. CASE \A p \in 1..Len(s) : s[p] # e
  BY <1>1 DEF RemoveFirst
<1>2. CASE \E p \in 1..Len(s) : s[p] = e
  <2> DEFINE I == {i \in 1..Len(s) : s[i] = e}
             x == SelectInSeq(s, LAMBDA v : v = e)
  <2>1. I \in SUBSET Nat /\ I # {}
    BY <1>2
  <2>2. x = Min(I)
    BY <2>1 DEF SelectInSeq
  <2>3. x \in I
    <3>1. PICK m \in I : \A y \in I : m =< y
      BY <2>1, FirstPlace
    <3> HIDE DEF I, x
    <3>2. Min(I) \in I
      BY <3>1 DEF Min
    <3> QED  BY <2>2, <3>2
  <2>4. RemoveFirst(s, e) = SubSeq(s, 1, x - 1) \o SubSeq(s, x + 1, Len(s))
    BY <1>2 DEF RemoveFirst, RemoveAt
  <2> HIDE DEF x
  <2> DEFINE a == SubSeq(s, 1, x - 1)
             b == SubSeq(s, x + 1, Len(s))
  <2>5. /\ x \in 1..Len(s) /\ Len(s) \in Nat
        /\ a \in Seq(S) /\ Len(a) = x - 1 /\ \A p \in 1..(x - 1) : a[p] = s[p]
        /\ b \in Seq(S) /\ Len(b) = Len(s) - x
        /\ \A p \in 1..(Len(s) - x) : b[p] = s[x + p]
    BY <2>3
  <2> HIDE DEF a, b
  <2>6. /\ a \o b \in Seq(S) /\ Len(a \o b) = Len(s) - 1
        /\ \A p \in 1..(x - 1) : (a \o b)[p] = a[p]
        /\ \A p \in 1..(Len(s) - x) : (a \o b)[(x - 1) + p] = b[p]
    <3>1. /\ (x - 1) + (Len(s) - x) = Len(s) - 1
          /\ x - 1 \in Nat /\ Len(s) - x \in Nat
      BY <2>5
    <3>2. PICK m \in Nat, n \in Nat : m = x - 1 /\ n = Len(s) - x
      BY <3>1
    <3>3. a \in Seq(S) /\ b \in Seq(S) /\ Len(a) = m /\ Len(b) = n
      BY <2>5, <3>2
    <3>4. /\ a \o b \in Seq(S) /\ Len(a \o b) = m + n
          /\ \A p \in 1..m : (a \o b)[p] = a[p]
          /\ \A p \in 1..n : (a \o b)[m + p] = b[p]
      BY ONLY m \in Nat, n \in Nat, <3>3, JoinedIs
    <3> QED  BY <3>1, <3>2, <3>4
  <2>7. \A p \in 1..(Len(s) - 1) : (a \o b)[p] = IF p < x THEN s[p] ELSE s[p + 1]
    <3> SUFFICES ASSUME NEW p \in 1..(Len(s) - 1)
                 PROVE  (a \o b)[p] = IF p < x THEN s[p] ELSE s[p + 1]
      OBVIOUS
    <3>1. CASE p < x
      <4>1. p \in 1..(x - 1)
        BY <2>5, <3>1
      <4> QED  BY <2>5, <2>6, <3>1, <4>1
    <3>2. CASE ~(p < x)
      <4>1. /\ p - (x - 1) \in 1..(Len(s) - x) /\ x + (p - (x - 1)) = p + 1
            /\ (x - 1) + (p - (x - 1)) = p
        BY <2>5, <3>2
      <4>2. (a \o b)[(x - 1) + (p - (x - 1))] = b[p - (x - 1)]
        BY <2>6, <4>1
      <4>3. b[p - (x - 1)] = s[x + (p - (x - 1))]
        BY <2>5, <4>1
      <4> QED  BY <3>2, <4>1, <4>2, <4>3
    <3> QED  BY <3>1, <3>2
  <2>8. RemoveFirst(s, e) = a \o b
    BY <2>4 DEF a, b
  <2> QED  BY <2>3, <2>5, <2>6, <2>7, <2>8
<1> QED  BY <1>1, <1>2

\* Inserting one: what was at its place and behind moves back.
LEMMA InsertAtIs ==
    ASSUME NEW S, NEW s \in Seq(S), NEW e \in S, NEW x \in 1..(Len(s) + 1)
    PROVE  /\ InsertAt(s, x, e) \in Seq(S)
           /\ Len(InsertAt(s, x, e)) = Len(s) + 1
           /\ \A p \in 1..(Len(s) + 1) :
                 InsertAt(s, x, e)[p] =
                    IF p < x THEN s[p] ELSE IF p = x THEN e ELSE s[p - 1]
<1> DEFINE a == SubSeq(s, 1, x - 1)
           b == SubSeq(s, x, Len(s))
           c == Append(a, e)
<1>1. /\ Len(s) \in Nat /\ x \in Nat /\ x >= 1
      /\ a \in Seq(S) /\ Len(a) = x - 1 /\ \A p \in 1..(x - 1) : a[p] = s[p]
      /\ b \in Seq(S) /\ Len(b) = (Len(s) - x) + 1
      /\ \A p \in 1..((Len(s) - x) + 1) : b[p] = s[(x + p) - 1]
  OBVIOUS
<1>2. InsertAt(s, x, e) = (a \o <<e>>) \o b
  BY DEF InsertAt
<1> HIDE DEF a, b
<1>3. a \o <<e>> = c
  BY <1>1
<1>4. InsertAt(s, x, e) = c \o b
  BY <1>2, <1>3
<1>5. /\ c \in Seq(S) /\ Len(c) = x
      /\ \A p \in 1..(x - 1) : c[p] = s[p]
      /\ c[x] = e
  BY <1>1
<1> HIDE DEF c
<1>7. /\ c \o b \in Seq(S) /\ Len(c \o b) = Len(s) + 1
      /\ \A p \in 1..x : (c \o b)[p] = c[p]
      /\ \A p \in 1..((Len(s) - x) + 1) : (c \o b)[x + p] = b[p]
  <2>1. /\ x + ((Len(s) - x) + 1) = Len(s) + 1
        /\ x \in Nat /\ (Len(s) - x) + 1 \in Nat
    BY <1>1
  <2>2. PICK n \in Nat : n = (Len(s) - x) + 1
    BY <2>1
  <2>3. c \in Seq(S) /\ b \in Seq(S) /\ Len(c) = x /\ Len(b) = n /\ x \in Nat
    BY <1>1, <1>5, <2>2
  <2>4. /\ c \o b \in Seq(S) /\ Len(c \o b) = x + n
        /\ \A p \in 1..x : (c \o b)[p] = c[p]
        /\ \A p \in 1..n : (c \o b)[x + p] = b[p]
    <3>1. c \o b \in Seq(S) /\ Len(c \o b) = x + n
      BY ONLY n \in Nat, <2>3
    <3>2. \A p \in 1..x : (c \o b)[p] = c[p]
      BY ONLY n \in Nat, <2>3
    <3>3. \A p \in 1..n : (c \o b)[x + p] = b[p]
      BY ONLY n \in Nat, <2>3
    <3> QED  BY <3>1, <3>2, <3>3
  <2> QED  BY <2>1, <2>2, <2>4
<1>8. \A p \in 1..(Len(s) + 1) :
         (c \o b)[p] = IF p < x THEN s[p] ELSE IF p = x THEN e ELSE s[p - 1]
  <2> SUFFICES ASSUME NEW p \in 1..(Len(s) + 1)
               PROVE  (c \o b)[p] = IF p < x THEN s[p] ELSE IF p = x THEN e ELSE s[p - 1]
    OBVIOUS
  <2>1. CASE p < x
    <3>1. p \in 1..(x - 1) /\ p \in 1..x
      BY <1>1, <2>1
    <3> QED  BY <1>5, <1>7, <2>1, <3>1
  <2>2. CASE p = x
    <3>1. x \in 1..x /\ ~(x < x)
      BY <1>1
    <3> QED  BY <1>5, <1>7, <2>2, <3>1
  <2>3. CASE x < p
    <3>1. /\ p - x \in 1..((Len(s) - x) + 1) /\ (x + (p - x)) - 1 = p - 1
          /\ x + (p - x) = p /\ ~(p < x) /\ p # x
      BY <1>1, <2>3
    <3>2. (c \o b)[x + (p - x)] = b[p - x]
      BY <1>7, <3>1
    <3>3. b[p - x] = s[(x + (p - x)) - 1]
      BY <1>1, <3>1
    <3> QED  BY <3>1, <3>2, <3>3
  <2>4. p < x \/ p = x \/ x < p
    BY <1>1
  <2> QED  BY <2>1, <2>2, <2>3, <2>4
<1> QED  BY <1>4, <1>7, <1>8

-----------------------------------------------------------------------------
(* The order in which a device's invoices are first tried.                 *)

\* Its job is enqueued and no worker has had it.
Untried(j) == invoice[j] # "none" /\ j \notin tried

\* A line l of which d places are due: a job is in it once, those that were
\* never claimed are due, and they stand in the order of their numbers.
Orderly(l, d) ==
    /\ l \in Seq(Jobs)
    /\ d \in 0..Len(l)
    /\ \A p, q \in 1..Len(l) : l[p] = l[q] => p = q
    /\ \A p \in 1..Len(l) : invoice[l[p]] # "none"
    /\ \A j \in Jobs : Untried(j) => \E p \in 1..d : l[p] = j
    /\ \A p, q \in 1..Len(l) :
          Untried(l[p]) /\ Untried(l[q]) /\ l[p] < l[q] => p < q

\* Sales commit in the order of their numbers, and what was never claimed is
\* pending.
RungInOrder ==
    /\ \A i, j \in Jobs : i < j /\ invoice[j] # "none" => invoice[i] # "none"
    /\ \A j \in Jobs : Untried(j) => state[j] = "pending"
    /\ \A j \in Jobs : invoice[j] = "none" => j \notin tried

\* What a claim has read: an untried job comes with the untried ones of its
\* device that are before it.
ReadInOrder(s) ==
    \A q \in 1..Len(s) :
        /\ invoice[s[q]] # "none"
        /\ \A i \in Jobs :
              i < s[q] /\ SameChain(i, s[q]) /\ Untried(i) /\ Untried(s[q])
                  => \E p \in 1..(q - 1) : s[p] = i

OrderInv ==
    /\ TypeOK
    /\ Orderly(line, due)
    /\ RungInOrder
    /\ \A w \in Workers : ReadInOrder(seen[w]) /\ job[w] \in tried \cup {NoJob}
    /\ FirstTriedInOrder

-----------------------------------------------------------------------------
(* The line.                                                               *)

\* A job that was tried leaves the line, and nothing else in it moves.
LEMMA LineWithout ==
    ASSUME NEW l, NEW d, Orderly(l, d), NEW j \in Jobs, ~Untried(j),
           NEW e, e = d - (IF Contains(SubSeq(l, 1, d), j) THEN 1 ELSE 0)
    PROVE  /\ Orderly(RemoveFirst(l, j), e)
           /\ \A p \in 1..Len(RemoveFirst(l, j)) : RemoveFirst(l, j)[p] # j
<1>1. /\ l \in Seq(Jobs) /\ Len(l) \in Nat /\ d \in Nat /\ d =< Len(l)
      /\ \A p \in 1..Len(l) : l[p] \in Jobs
  BY DEF Orderly
<1>2. Contains(SubSeq(l, 1, d), j) <=> \E p \in 1..d : l[p] = j
  BY <1>1 DEF Contains
<1>3. CASE \A p \in 1..Len(l) : l[p] # j
  <2>1. RemoveFirst(l, j) = l
    BY <1>1, <1>3, RemoveFirstIs
  <2>2. e = d
    BY <1>1, <1>2, <1>3
  <2> QED  BY <1>3, <2>1, <2>2
<1>4. CASE \E p \in 1..Len(l) : l[p] = j
  <2> DEFINE r == RemoveFirst(l, j)
  <2>1. PICK x \in 1..Len(l) :
           /\ l[x] = j /\ r \in Seq(Jobs) /\ Len(r) = Len(l) - 1
           /\ \A p \in 1..(Len(l) - 1) : r[p] = IF p < x THEN l[p] ELSE l[p + 1]
    BY <1>1, <1>4, RemoveFirstIs
  <2> HIDE DEF r
  <2>2. e = IF x =< d THEN d - 1 ELSE d
    BY <1>1, <1>2, <2>1 DEF Orderly
  <2> DEFINE old(p) == IF p < x THEN p ELSE p + 1
  <2>3. \A p \in 1..Len(r) : old(p) \in 1..Len(l) /\ old(p) # x /\ r[p] = l[old(p)]
    BY <1>1, <2>1
  <2>4. \A p, q \in 1..Len(r) : p < q <=> old(p) < old(q)
    BY <1>1, <2>1
  <2>5. \A q \in 1..Len(l) : q # x => \E p \in 1..Len(r) : old(p) = q
    <3> SUFFICES ASSUME NEW q \in 1..Len(l), q # x
                 PROVE  \E p \in 1..Len(r) : old(p) = q
      OBVIOUS
    <3>1. CASE q < x
      <4>1. q \in 1..Len(r) /\ old(q) = q
        BY <1>1, <2>1, <3>1
      <4> QED  BY <4>1
    <3>2. CASE x < q
      <4>1. q - 1 \in 1..Len(r) /\ old(q - 1) = q
        BY <1>1, <2>1, <3>2
      <4> QED  BY <4>1
    <3> QED  BY <1>1, <2>1, <3>1, <3>2
  <2>6. \A p \in 1..Len(r) : old(p) =< d => p =< e
    BY <1>1, <2>1, <2>2
  <2>7. e \in 0..Len(r)
    BY <1>1, <2>1, <2>2
  <2> HIDE DEF old
  <2>8. \A p \in 1..Len(r) : r[p] # j
    BY <2>1, <2>3 DEF Orderly
  <2>9. \A p, q \in 1..Len(r) : r[p] = r[q] => p = q
    <3> SUFFICES ASSUME NEW p \in 1..Len(r), NEW q \in 1..Len(r), r[p] = r[q]
                 PROVE  p = q
      OBVIOUS
    <3>1. old(p) = old(q) /\ old(p) \in Int /\ old(q) \in Int
      BY <2>3 DEF Orderly
    <3>2. ~(p < q) /\ ~(q < p)
      BY <2>4, <3>1
    <3> QED  BY <2>1, <3>2
  <2>10. \A p \in 1..Len(r) : invoice[r[p]] # "none"
    BY <2>3 DEF Orderly
  <2>11. ASSUME NEW i \in Jobs, Untried(i) PROVE \E p \in 1..e : r[p] = i
    <3>1. PICK q \in 1..d : l[q] = i
      BY <2>11 DEF Orderly
    <3>2. q \in 1..Len(l) /\ q # x
      BY <1>1, <2>1, <2>11, <3>1
    <3>3. PICK p \in 1..Len(r) : old(p) = q
      BY <2>5, <3>2
    <3>4. p \in 1..e /\ r[p] = i
      BY <1>1, <2>3, <2>6, <2>7, <3>1, <3>3
    <3> QED  BY <3>4
  <2>12. ASSUME NEW p \in 1..Len(r), NEW q \in 1..Len(r), Untried(r[p]), Untried(r[q]),
                r[p] < r[q]
         PROVE  p < q
    <3>1. old(p) < old(q)
      BY <2>3, <2>12 DEF Orderly
    <3> QED  BY <2>4, <3>1
  <2>13. Orderly(r, e)
    BY <2>1, <2>7, <2>9, <2>10, <2>11, <2>12 DEF Orderly
  <2> QED  BY <2>8, <2>13 DEF r
<1> QED  BY <1>3, <1>4

\* One that was tried goes in somewhere behind what is due.
LEMMA PutBehind ==
    ASSUME NEW l, NEW d, Orderly(l, d), NEW j \in Jobs, ~Untried(j),
           invoice[j] # "none", \A p \in 1..Len(l) : l[p] # j,
           NEW x \in d + 1 .. Len(l) + 1
    PROVE  Orderly(InsertAt(l, x, j), d)
<1> DEFINE r == InsertAt(l, x, j)
<1>1. /\ l \in Seq(Jobs) /\ Len(l) \in Nat /\ d \in Nat /\ d =< Len(l)
      /\ x \in 1..(Len(l) + 1)
  BY DEF Orderly
<1>2. /\ r \in Seq(Jobs) /\ Len(r) = Len(l) + 1
      /\ \A p \in 1..(Len(l) + 1) :
            r[p] = IF p < x THEN l[p] ELSE IF p = x THEN j ELSE l[p - 1]
  BY <1>1, InsertAtIs
<1> HIDE DEF r
<1> DEFINE old(p) == IF p < x THEN p ELSE p - 1
<1>3. /\ \A p \in 1..Len(r) : p # x => old(p) \in 1..Len(l) /\ r[p] = l[old(p)]
      /\ r[x] = j
  BY <1>1, <1>2
<1>4. \A p, q \in 1..Len(r) : p # x /\ q # x => (p < q <=> old(p) < old(q))
  BY <1>1, <1>2
<1> HIDE DEF old
<1>5. \A p, q \in 1..Len(r) : r[p] = r[q] => p = q
  <2> SUFFICES ASSUME NEW p \in 1..Len(r), NEW q \in 1..Len(r), r[p] = r[q]
               PROVE  p = q
    OBVIOUS
  <2>1. CASE p = x \/ q = x
    BY <1>3, <2>1
  <2>2. CASE p # x /\ q # x
    <3>1. old(p) = old(q) /\ old(p) \in Int
      BY <1>3, <2>2 DEF Orderly
    <3>2. ~(p < q) /\ ~(q < p)
      BY <1>4, <2>2, <3>1
    <3> QED  BY <1>1, <1>2, <3>2
  <2> QED  BY <2>1, <2>2
<1>6. \A p \in 1..Len(r) : invoice[r[p]] # "none"
  BY <1>3 DEF Orderly
<1>7. ASSUME NEW i \in Jobs, Untried(i) PROVE \E p \in 1..d : r[p] = i
  <2>1. PICK p \in 1..d : l[p] = i
    BY <1>7 DEF Orderly
  <2>2. p \in 1..(Len(l) + 1) /\ p < x
    BY <1>1
  <2> QED  BY <1>2, <2>1, <2>2
<1>8. ASSUME NEW p \in 1..Len(r), NEW q \in 1..Len(r), Untried(r[p]), Untried(r[q]),
             r[p] < r[q]
      PROVE  p < q
  <2>1. p # x /\ q # x
    BY <1>3, <1>8
  <2>2. old(p) < old(q)
    BY <1>3, <1>8, <2>1 DEF Orderly
  <2> QED  BY <1>4, <2>1, <2>2
<1>9. Orderly(r, d)
  <2>1. d \in 0..Len(r)
    BY <1>1, <1>2
  <2> QED  BY <1>2, <1>5, <1>6, <1>7, <1>8, <2>1 DEF Orderly
<1> QED  BY <1>9 DEF r

\* The first of the jobs that are not due goes in right behind those that are:
\* where a sale puts the job of its invoice, whose number is above all.
LEMMA RingKeepsOrder ==
    ASSUME OrderInv, NEW j \in Jobs, Ring(j)
    PROVE  OrderInv'
<1>0. PICK r : r = InsertAt(line, due + 1, j)
  OBVIOUS
<1>1. /\ invoice[j] = "none" /\ j \notin tried
      /\ invoice' = [invoice EXCEPT ![j] = "pending"]
      /\ state' = [state EXCEPT ![j] = "pending"]
      /\ UNCHANGED <<signed, attempts, authority, pc, answer, tried, job, seen>>
      /\ line' = r /\ due' = due + 1
      /\ \A i \in Jobs : i < j => invoice[i] # "none"
  BY <1>0 DEF Ring, EnqueueIn, OrderInv, RungInOrder
<1>2. /\ line \in Seq(Jobs) /\ Len(line) \in Nat /\ due \in Nat /\ due =< Len(line)
      /\ due + 1 \in 1..(Len(line) + 1) /\ \A p \in 1..Len(line) : line[p] \in Jobs
  BY DEF OrderInv, Orderly
<1>3. /\ r \in Seq(Jobs) /\ Len(r) = Len(line) + 1
      /\ \A p \in 1..(Len(line) + 1) :
            r[p] = IF p < due + 1 THEN line[p]
                   ELSE IF p = due + 1 THEN j ELSE line[p - 1]
  <2>1. PICK l \in Seq(Jobs) : l = line
    BY <1>2
  <2>2. PICK x \in 1..(Len(l) + 1) : x = due + 1
    BY <1>2, <2>1
  <2>3. /\ InsertAt(l, x, j) \in Seq(Jobs) /\ Len(InsertAt(l, x, j)) = Len(l) + 1
        /\ \A p \in 1..(Len(l) + 1) :
              InsertAt(l, x, j)[p] =
                 IF p < x THEN l[p] ELSE IF p = x THEN j ELSE l[p - 1]
    BY InsertAtIs
  <2> QED  BY <1>0, <2>1, <2>2, <2>3
<1>4. \A i \in Jobs : /\ Untried(i)' <=> (Untried(i) \/ i = j)
                      /\ invoice'[i] # "none" <=> (invoice[i] # "none" \/ i = j)
                      /\ invoice[i] # "none" => i < j
  <2>1. \A i \in Jobs : i # j => invoice'[i] = invoice[i]
    BY <1>1 DEF OrderInv, TypeOK
  <2>2. invoice'[j] # "none"
    BY <1>1 DEF OrderInv, TypeOK
  <2>3. \A i \in Jobs : invoice[i] # "none" => i < j
    BY <1>1, QueueAssumption DEF QueueAssumption, OrderInv, RungInOrder
  <2> QED  BY <1>1, <2>1, <2>2, <2>3 DEF Untried
<1>5. TypeOK'
  <2>1. /\ invoice' \in [Jobs -> {"none", "pending", "reported", "rejected"}]
        /\ state' \in [Jobs -> JobStates]
    BY <1>1 DEF OrderInv, TypeOK, QueueTypeOK, JobStates
  <2>2. line' \in Seq(Jobs) /\ due' \in 0..Len(line')
    BY <1>1, <1>2, <1>3
  <2> QED  BY <1>1, <2>1, <2>2 DEF OrderInv, TypeOK, QueueTypeOK
<1> DEFINE old(p) == IF p < due + 1 THEN p ELSE p - 1
<1>6. /\ \A p \in 1..Len(r) : p # due + 1 => old(p) \in 1..Len(line) /\ r[p] = line[old(p)]
      /\ r[due + 1] = j /\ due + 1 \in 1..(due + 1) /\ due + 1 \in 1..Len(r)
      /\ \A p \in 1..Len(r) : old(p) =< due => p =< due + 1
  BY <1>2, <1>3
<1>7. \A p, q \in 1..Len(r) : p # due + 1 /\ q # due + 1 => (p < q <=> old(p) < old(q))
  BY <1>2, <1>3
<1> HIDE DEF old
<1>8. \A p \in 1..Len(r) : p # due + 1 => r[p] # j
  BY <1>1, <1>6 DEF OrderInv, Orderly
<1>9. \A p, q \in 1..Len(r) : r[p] = r[q] => p = q
  <2> SUFFICES ASSUME NEW p \in 1..Len(r), NEW q \in 1..Len(r), r[p] = r[q]
               PROVE  p = q
    OBVIOUS
  <2>1. CASE p = due + 1 \/ q = due + 1
    BY <1>6, <1>8, <2>1
  <2>2. CASE p # due + 1 /\ q # due + 1
    <3>1. old(p) = old(q) /\ old(p) \in Int
      BY <1>6, <2>2 DEF OrderInv, Orderly
    <3>2. ~(p < q) /\ ~(q < p)
      BY <1>7, <2>2, <3>1
    <3> QED  BY <1>2, <1>3, <3>2
  <2> QED  BY <2>1, <2>2
<1>10. \A p \in 1..Len(r) : invoice'[r[p]] # "none"
  <2>1. \A p \in 1..Len(r) : r[p] \in Jobs
    BY <1>3
  <2>2. \A p \in 1..Len(r) : p # due + 1 => invoice[r[p]] # "none"
    BY <1>6 DEF OrderInv, Orderly
  <2> QED  BY <1>4, <1>6, <2>1, <2>2
<1>11. ASSUME NEW i \in Jobs, Untried(i)' PROVE \E p \in 1..(due + 1) : r[p] = i
  <2>1. CASE i = j
    BY <1>6, <2>1
  <2>2. CASE Untried(i)
    <3>1. PICK p \in 1..due : line[p] = i
      BY <2>2 DEF OrderInv, Orderly
    <3>2. p \in 1..(Len(line) + 1) /\ p < due + 1 /\ p \in 1..(due + 1)
      BY <1>2
    <3> QED  BY <1>3, <3>1, <3>2
  <2> QED  BY <1>4, <1>11, <2>1, <2>2
<1>12. ASSUME NEW p \in 1..Len(r), NEW q \in 1..Len(r),
              Untried(r[p])', Untried(r[q])', r[p] < r[q]
       PROVE  p < q
  <2>1. r[p] \in Jobs /\ r[q] \in Jobs /\ r[p] \in Nat /\ r[q] \in Nat
    <3>1. r[p] \in Jobs /\ r[q] \in Jobs
      BY <1>3
    <3> QED  BY ONLY <3>1, QueueAssumption DEF QueueAssumption
  <2>2. r[p] # j
    <3> SUFFICES ASSUME r[p] = j PROVE FALSE
      OBVIOUS
    <3>1. r[q] # j
      BY <1>12, <2>1
    <3>2. invoice'[r[q]] # "none"
      BY <1>10
    <3> QED  BY <1>4, <1>12, <2>1, <3>1, <3>2
  <2>3. p # due + 1 /\ Untried(r[p])
    BY <1>4, <1>6, <1>12, <2>1, <2>2
  <2>4. CASE r[q] = j
    <3>1. PICK k \in 1..due : line[k] = r[p]
      BY <2>1, <2>3 DEF OrderInv, Orderly
    <3>2. old(p) \in 1..Len(line) /\ line[old(p)] = line[k] /\ k \in 1..Len(line)
      BY <1>2, <1>6, <2>3, <3>1
    <3>3. old(p) = k
      BY <3>2 DEF OrderInv, Orderly
    <3>4. p =< due + 1 /\ q = due + 1
      BY <1>2, <1>6, <1>9, <2>4, <3>3
    <3> QED  BY <1>2, <1>3, <2>3, <3>4
  <2>5. CASE r[q] # j
    <3>1. q # due + 1 /\ Untried(r[q])
      BY <1>4, <1>6, <1>12, <2>1, <2>5
    <3>2. old(p) < old(q)
      BY <1>6, <1>12, <2>3, <3>1 DEF OrderInv, Orderly
    <3> QED  BY <1>7, <2>3, <3>1, <3>2
  <2> QED  BY <2>4, <2>5
<1>13. Orderly(line, due)'
  <2>1. due + 1 \in 0..Len(r)
    BY <1>2, <1>3
  <2> QED  BY <1>1, <1>3, <1>9, <1>10, <1>11, <1>12, <2>1 DEF Orderly
<1>14. RungInOrder'
  <2>1. \A i, k \in Jobs : i < k /\ invoice'[k] # "none" => invoice'[i] # "none"
    BY <1>1, <1>4 DEF OrderInv, RungInOrder
  <2>2. \A i \in Jobs : Untried(i)' => state'[i] = "pending"
    BY <1>1, <1>4 DEF OrderInv, RungInOrder, TypeOK, QueueTypeOK
  <2>3. \A i \in Jobs : invoice'[i] = "none" => i \notin tried'
    BY <1>1, <1>4 DEF OrderInv, RungInOrder
  <2> QED  BY <2>1, <2>2, <2>3 DEF RungInOrder
<1>15. ASSUME NEW w \in Workers PROVE ReadInOrder(seen[w])'
  <2>0. PICK s : s = seen[w]
    OBVIOUS
  <2>1. s \in Seq(Jobs) /\ \A q \in 1..Len(s) : s[q] \in Jobs
    BY <2>0 DEF OrderInv, TypeOK, QueueTypeOK
  <2>2. ReadInOrder(s)
    BY <2>0 DEF OrderInv
  <2>3. ASSUME NEW q \in 1..Len(s)
        PROVE  /\ invoice'[s[q]] # "none" /\ s[q] \in Jobs /\ s[q] < j /\ s[q] # j
               /\ Untried(s[q])' => Untried(s[q])
    <3>1. s[q] \in Jobs /\ invoice[s[q]] # "none"
      BY <2>1, <2>2 DEF ReadInOrder
    <3> QED  BY <1>1, <1>4, <3>1
  <2>4. ASSUME NEW q \in 1..Len(s), NEW i \in Jobs, i < s[q], SameChain(i, s[q]),
               Untried(i)', Untried(s[q])'
        PROVE  \E p \in 1..(q - 1) : s[p] = i
    <3>1. Untried(s[q]) /\ s[q] < j /\ s[q] \in Jobs
      BY <2>3, <2>4
    <3>2. i # j
      <4>1. i \in Nat /\ s[q] \in Nat /\ j \in Nat
        BY <3>1, QueueAssumption DEF QueueAssumption
      <4> QED  BY <2>4, <3>1, <4>1
    <3>3. Untried(i)
      BY <1>4, <2>4, <3>2
    <3> QED  BY <2>2, <2>4, <3>1, <3>3 DEF ReadInOrder
  <2>5. seen'[w] = s
    BY <1>1, <2>0
  <2> QED  BY <2>3, <2>4, <2>5 DEF ReadInOrder, SameChain
<1>16. FirstTriedInOrder' /\ \A w \in Workers : job'[w] \in tried' \cup {NoJob}
  BY <1>1 DEF OrderInv, FirstTriedInOrder, SameChain
<1> QED  BY <1>5, <1>13, <1>14, <1>15, <1>16 DEF OrderInv

\* A step that claims nothing and moves nothing in the line.
LEMMA StillInOrder ==
    ASSUME OrderInv, TypeOK', UNCHANGED <<line, due, seen, tried>>,
           \A j \in Jobs : invoice'[j] = "none" <=> invoice[j] = "none",
           \A j \in Jobs : Untried(j) => state'[j] = state[j],
           \A w \in Workers : job'[w] \in {job[w], NoJob}
    PROVE  OrderInv'
<1>1. \A j \in Jobs : Untried(j)' <=> Untried(j)
  BY DEF Untried
<1>2. Orderly(line, due)'
  <2>1. PICK l, d : l = line /\ d = due
    OBVIOUS
  <2>2. Orderly(l, d) /\ \A p \in 1..Len(l) : l[p] \in Jobs
    BY <2>1 DEF OrderInv, Orderly
  <2>3. Orderly(l, d)'
    BY <1>1, <2>2 DEF Orderly
  <2> QED  BY <2>1, <2>3
<1>3. RungInOrder'
  BY <1>1 DEF OrderInv, RungInOrder
<1>4. ASSUME NEW w \in Workers PROVE ReadInOrder(seen[w])'
  <2>1. PICK s : s = seen[w]
    OBVIOUS
  <2>2. ReadInOrder(s) /\ \A q \in 1..Len(s) : s[q] \in Jobs
    BY <2>1 DEF OrderInv, TypeOK, QueueTypeOK
  <2>3. ReadInOrder(s)'
    BY <1>1, <2>2 DEF ReadInOrder, SameChain
  <2> QED  BY <2>1, <2>3
<1>5. \A w \in Workers : job'[w] \in tried' \cup {NoJob}
  BY DEF OrderInv
<1>6. FirstTriedInOrder'
  BY DEF OrderInv, FirstTriedInOrder, SameChain
<1> QED  BY <1>2, <1>3, <1>4, <1>5, <1>6 DEF OrderInv

\* Time passes: one more place is due.
LEMMA TickKeepsOrder ==
    ASSUME OrderInv, Tick, UNCHANGED submitVars
    PROVE  OrderInv'
<1>1. /\ due < Len(line) /\ due' = due + 1
      /\ UNCHANGED <<line, state, job, seen, invoice, signed, attempts, authority, pc,
                     answer, tried>>
  BY DEF Tick, submitVars
<1>2. TypeOK'
  BY <1>1 DEF OrderInv, TypeOK, QueueTypeOK
<1>3. \A j : Untried(j)' <=> Untried(j)
  BY <1>1 DEF Untried
<1>4. Orderly(line, due)'
  <2>1. PICK l, d, e : l = line /\ d = due /\ e = due'
    OBVIOUS
  <2>2. Orderly(l, d) /\ d \in Nat /\ e = d + 1 /\ e \in 0..Len(l)
    BY <1>1, <2>1 DEF OrderInv, Orderly
  <2>3. \A p \in 1..d : p \in 1..e
    BY <2>2
  <2>4. Orderly(l, e)'
    BY <1>1, <1>3, <2>2, <2>3 DEF Orderly
  <2> QED  BY <1>1, <2>1, <2>4
<1>5. RungInOrder'
  BY <1>1, <1>3 DEF OrderInv, RungInOrder
<1>6. ASSUME NEW w \in Workers PROVE ReadInOrder(seen[w])'
  <2>1. PICK s : s = seen[w]
    OBVIOUS
  <2>2. ReadInOrder(s)'
    BY <1>1, <1>3, <2>1 DEF OrderInv, ReadInOrder, SameChain
  <2> QED  BY <1>1, <2>1, <2>2
<1>7. FirstTriedInOrder' /\ \A w \in Workers : job'[w] \in tried' \cup {NoJob}
  BY <1>1 DEF OrderInv, FirstTriedInOrder, SameChain
<1> QED  BY <1>2, <1>4, <1>5, <1>6, <1>7 DEF OrderInv

\* A claim reads an untried job only behind the untried ones of its device: they
\* are due and pending, in the order of their numbers, and their key is free if
\* its is.
LEMMA ClaimableInOrder ==
    ASSUME OrderInv
    PROVE  Claimable \in Seq(Jobs) /\ ReadInOrder(Claimable)
<1> DEFINE P == {j \in Pending : ~KeyBusy(j)}
<1>1. /\ line \in Seq(Jobs) /\ Len(line) \in Nat /\ due \in Nat /\ due =< Len(line)
  BY DEF OrderInv, Orderly
<1>2. /\ Due \in Seq(Jobs) /\ Len(Due) = due
      /\ \A p \in 1..due : Due[p] = line[p] /\ line[p] \in Jobs /\ p \in 1..Len(line)
  BY <1>1 DEF Due
<1>3. PICK r, s : r = Claimable /\ s = Due
  OBVIOUS
<1>4. r = Only(s, P) /\ s \in Seq(Jobs) /\ Len(s) = due
  BY <1>2, <1>3 DEF Claimable
<1>5. \A i, k \in Jobs : i \in P /\ k \in Jobs /\ state[k] = "pending" /\ SameChain(k, i)
                            => k \in P
  BY DEF Pending, KeyBusy, SameChain
<1> HIDE DEF P
<1>6. r \in Seq(Jobs) /\ \E place : Picks(place, r, s, P, Len(s))
  BY <1>4, OnlyPicks
<1>7. PICK place : Picks(place, r, s, P, due)
  BY <1>4, <1>6
<1>8. \A q \in 1..Len(r) : /\ place[q] \in 1..due /\ r[q] = line[place[q]]
                           /\ r[q] \in P /\ r[q] \in Jobs
  <2>1. \A q \in 1..Len(r) : place[q] \in 1..due /\ r[q] = s[place[q]] /\ r[q] \in P
    BY <1>7 DEF Picks
  <2>2. \A q \in 1..Len(r) : r[q] \in Jobs
    BY <1>6
  <2>3. \A m \in 1..due : s[m] = line[m]
    BY <1>2, <1>3
  <2> QED  BY <2>1, <2>2, <2>3
<1>9. \A q \in 1..Len(r) : invoice[r[q]] # "none"
  BY <1>2, <1>8 DEF OrderInv, Orderly
<1>10. ASSUME NEW q \in 1..Len(r), NEW i \in Jobs, i < r[q], SameChain(i, r[q]),
              Untried(i), Untried(r[q])
       PROVE  \E p \in 1..(q - 1) : r[p] = i
  <2>1. PICK m \in 1..due : line[m] = i
    BY <1>10 DEF OrderInv, Orderly
  <2>2. m < place[q] /\ place[q] \in 1..due
    <3>1. m \in 1..Len(line) /\ place[q] \in 1..Len(line) /\ r[q] = line[place[q]]
      BY <1>2, <1>8, <2>1
    <3> QED  BY <1>8, <1>10, <2>1, <3>1 DEF OrderInv, Orderly
  <2>3. s[m] \in P
    <3>1. state[i] = "pending"
      BY <1>10 DEF OrderInv, RungInOrder
    <3>2. i \in P
      BY <1>5, <1>8, <1>10, <3>1
    <3> QED  BY <1>2, <1>3, <2>1, <3>2
  <2>4. PICK p \in 1..Len(r) : place[p] = m
    BY <1>7, <2>1, <2>3 DEF Picks
  <2>5. p # q /\ ~(q < p)
    BY <1>7, <1>8, <2>1, <2>2, <2>4 DEF Picks
  <2>6. p \in 1..(q - 1)
    BY <1>6, <2>5
  <2>7. r[p] = i
    BY <1>8, <2>1, <2>4
  <2> QED  BY <2>6, <2>7
<1>11. ReadInOrder(r)
  BY <1>9, <1>10 DEF ReadInOrder
<1> QED  BY <1>3, <1>6, <1>11

LEMMA ClaimReadsInOrder ==
    ASSUME OrderInv, NEW w \in Workers, ClaimReads(w), UNCHANGED submitVars
    PROVE  OrderInv'
<1>1. /\ UNCHANGED <<line, due, state, job, invoice, signed, attempts, authority, pc,
                     answer, tried>>
      /\ seen' = [seen EXCEPT ![w] = Claimable]
  BY DEF ClaimReads, submitVars
<1>2. Claimable \in Seq(Jobs) /\ ReadInOrder(Claimable)
  BY ClaimableInOrder
<1>3. TypeOK'
  BY <1>1, <1>2 DEF OrderInv, TypeOK, QueueTypeOK
<1>4. ASSUME NEW v \in Workers PROVE ReadInOrder(seen[v])'
  <2>1. PICK s : s = seen'[v]
    OBVIOUS
  <2>2. ReadInOrder(s)
    BY <1>1, <1>2, <2>1 DEF OrderInv, TypeOK, QueueTypeOK
  <2>3. ReadInOrder(s)'
    BY <1>1, <2>2 DEF ReadInOrder, SameChain, Untried
  <2> QED  BY <2>1, <2>3
<1>5. Orderly(line, due)' /\ RungInOrder'
  BY <1>1 DEF OrderInv, Orderly, RungInOrder, Untried
<1>6. FirstTriedInOrder' /\ \A v \in Workers : job'[v] \in tried' \cup {NoJob}
  BY <1>1 DEF OrderInv, FirstTriedInOrder, SameChain
<1> QED  BY <1>3, <1>4, <1>5, <1>6 DEF OrderInv

\* The untried job that a claim takes is the first of its device: one before it
\* would be pending still, and read before it.
LEMMA TakeKeepsOrder ==
    ASSUME OrderInv, NEW w \in Workers, Take(w)
    PROVE  OrderInv'
<1> DEFINE P == Pending
<1>0. PICK s, r : s = seen[w] /\ r = Only(s, P)
  OBVIOUS
<1>1. /\ UNCHANGED <<line, due, invoice, signed, attempts, authority, answer>>
      /\ seen' = [seen EXCEPT ![w] = <<>>]
      /\ tried' = tried \cup ({job'[w]} \ {NoJob})
      /\ pc' = [pc EXCEPT ![w] = IF job'[w] = NoJob THEN "idle" ELSE "read"]
      /\ r = <<>> => UNCHANGED <<state, job>>
      /\ r # <<>> => /\ state' = [state EXCEPT ![Head(r)] = "running"]
                     /\ job' = [job EXCEPT ![w] = Head(r)]
  BY <1>0 DEF Take, ClaimTakes, Goto
<1>2. s \in Seq(Jobs) /\ ReadInOrder(s) /\ \A q \in 1..Len(s) : s[q] \in Jobs
  BY <1>0 DEF OrderInv, TypeOK, QueueTypeOK
<1>3. r \in Seq(Jobs) /\ \E place : Picks(place, r, s, P, Len(s))
  <2> HIDE DEF P
  <2> QED  BY <1>0, <1>2, OnlyPicks
<1>4. \A v \in Workers : ReadInOrder(seen'[v]) /\ seen'[v] \in Seq(Jobs)
  <2>1. ReadInOrder(<<>>) /\ <<>> \in Seq(Jobs)
    BY DEF ReadInOrder
  <2> QED  BY <1>1, <2>1 DEF OrderInv, TypeOK, QueueTypeOK
<1>5. pc' \in [Workers -> Steps] /\ seen' \in [Workers -> Seq(Jobs)]
  <2>1. DOMAIN seen' = Workers /\ seen' = [v \in Workers |-> seen'[v]]
    BY <1>1 DEF OrderInv, TypeOK, QueueTypeOK
  <2> QED  BY <1>1, <1>4, <2>1 DEF OrderInv, TypeOK, Steps
<1>6. CASE r = <<>>
  <2>1. UNCHANGED <<state, job>> /\ tried' = tried
    BY <1>1, <1>6 DEF OrderInv
  <2>2. TypeOK'
    BY <1>1, <1>5, <2>1 DEF OrderInv, TypeOK, QueueTypeOK
  <2>3. Orderly(line, due)' /\ RungInOrder'
    BY <1>1, <2>1 DEF OrderInv, Orderly, RungInOrder, Untried
  <2>4. ASSUME NEW v \in Workers PROVE ReadInOrder(seen[v])'
    <3>1. PICK t : t = seen'[v]
      OBVIOUS
    <3>2. ReadInOrder(t)'
      BY <1>1, <1>4, <2>1, <3>1 DEF ReadInOrder, SameChain, Untried
    <3> QED  BY <3>1, <3>2
  <2>5. FirstTriedInOrder' /\ \A v \in Workers : job'[v] \in tried' \cup {NoJob}
    BY <2>1 DEF OrderInv, FirstTriedInOrder, SameChain
  <2> QED  BY <2>2, <2>3, <2>4, <2>5 DEF OrderInv
<1>7. CASE r # <<>>
  <2>1. PICK h : h = Head(r)
    OBVIOUS
  <2>2. h \in Jobs /\ Len(r) \in Nat /\ 1 \in 1..Len(r) /\ h = r[1] /\ h # NoJob
    BY <1>3, <1>7, <2>1, QueueAssumption DEF QueueAssumption
  <2>3. /\ state' = [state EXCEPT ![h] = "running"] /\ job' = [job EXCEPT ![w] = h]
        /\ tried' = tried \cup {h}
    <3>1. state' = [state EXCEPT ![h] = "running"] /\ job' = [job EXCEPT ![w] = h]
      BY <1>1, <1>7, <2>1
    <3>2. job'[w] = h
      BY <3>1 DEF OrderInv, TypeOK, QueueTypeOK
    <3> QED  BY <1>1, <2>2, <3>1, <3>2
  <2>4. PICK place : Picks(place, r, s, P, Len(s))
    BY <1>3
  <2>5. /\ place[1] \in 1..Len(s) /\ h = s[place[1]]
        /\ \A m \in 1..Len(s) : s[m] \in P => ~(m < place[1])
    <3>1. place[1] \in 1..Len(s) /\ r[1] = s[place[1]]
      BY <2>2, <2>4 DEF Picks
    <3>2. ASSUME NEW m \in 1..Len(s), s[m] \in P, m < place[1] PROVE FALSE
      <4>1. PICK k \in 1..Len(r) : place[k] = m
        BY <2>4, <3>2 DEF Picks
      <4>2. k = 1 \/ 1 < k
        BY <2>2
      <4>3. 1 < k => place[1] < place[k]
        BY <2>2, <2>4 DEF Picks
      <4>4. m \in Nat /\ place[1] \in Nat
        BY <1>2, <3>1
      <4> QED  BY <3>2, <4>1, <4>2, <4>3, <4>4
    <3> QED  BY <2>2, <3>1, <3>2
  <2>6. ASSUME NEW i \in Jobs, i < h, SameChain(i, h) PROVE i \in tried
    <3> SUFFICES ASSUME i \notin tried PROVE FALSE
      OBVIOUS
    <3>1. invoice[h] # "none" /\ h \notin tried
      BY <1>2, <2>2, <2>5, <2>6 DEF ReadInOrder, OrderInv, FirstTriedInOrder
    <3>2. Untried(i) /\ Untried(h)
      BY <2>2, <2>6, <3>1 DEF OrderInv, RungInOrder, Untried
    <3>3. PICK p \in 1..(place[1] - 1) : s[p] = i
      BY <1>2, <2>5, <2>6, <3>2 DEF ReadInOrder
    <3>4. p \in 1..Len(s) /\ p < place[1]
      BY <1>2, <2>5
    <3>5. i \in P
      BY <3>2 DEF OrderInv, RungInOrder, Pending
    <3> QED  BY <2>5, <3>3, <3>4, <3>5
  <2>7. \A j : Untried(j)' => Untried(j) /\ j # h
    BY <1>1, <2>3 DEF Untried
  <2>8. TypeOK'
    <3>1. state' \in [Jobs -> JobStates] /\ job' \in [Workers -> Jobs \cup {NoJob}]
      BY <2>2, <2>3 DEF OrderInv, TypeOK, QueueTypeOK, JobStates
    <3>2. tried' \subseteq Jobs
      BY <2>2, <2>3 DEF OrderInv, TypeOK
    <3> QED  BY <1>1, <1>5, <3>1, <3>2 DEF OrderInv, TypeOK, QueueTypeOK
  <2>9. Orderly(line, due)'
    <3>1. PICK l, d : l = line /\ d = due
      OBVIOUS
    <3>2. Orderly(l, d)
      BY <3>1 DEF OrderInv
    <3>3. Orderly(l, d)'
      BY <1>1, <2>7, <3>2 DEF Orderly
    <3> QED  BY <1>1, <3>1, <3>3
  <2>10. RungInOrder'
    <3>1. \A j \in Jobs : Untried(j)' => state'[j] = "pending"
      BY <2>3, <2>7 DEF OrderInv, RungInOrder, TypeOK, QueueTypeOK
    <3>2. invoice[h] # "none"
      BY <1>2, <2>5 DEF ReadInOrder
    <3> QED  BY <1>1, <2>3, <3>1, <3>2 DEF OrderInv, RungInOrder
  <2>11. ASSUME NEW v \in Workers PROVE ReadInOrder(seen[v])'
    <3>1. PICK t : t = seen'[v]
      OBVIOUS
    <3>2. ReadInOrder(t)'
      BY <1>1, <1>4, <2>7, <3>1 DEF ReadInOrder, SameChain
    <3> QED  BY <3>1, <3>2
  <2>12. \A v \in Workers : job'[v] \in tried' \cup {NoJob}
    BY <2>3 DEF OrderInv, TypeOK, QueueTypeOK
  <2>13. FirstTriedInOrder'
    BY <2>3, <2>6 DEF OrderInv, FirstTriedInOrder, SameChain
  <2> QED  BY <2>8, <2>9, <2>10, <2>11, <2>12, <2>13 DEF OrderInv
<1> QED  BY <1>6, <1>7

\* What a claim has read keeps its order without a job that was tried.
LEMMA ReadWithout ==
    ASSUME NEW s \in Seq(Jobs), ReadInOrder(s), NEW j \in Jobs, ~Untried(j)
    PROVE  RemoveFirst(s, j) \in Seq(Jobs) /\ ReadInOrder(RemoveFirst(s, j))
<1> DEFINE r == RemoveFirst(s, j)
<1>1. CASE \A p \in 1..Len(s) : s[p] # j
  BY <1>1, RemoveFirstIs
<1>2. CASE \E p \in 1..Len(s) : s[p] = j
  <2>1. PICK x \in 1..Len(s) :
           /\ s[x] = j /\ r \in Seq(Jobs) /\ Len(r) = Len(s) - 1
           /\ \A p \in 1..(Len(s) - 1) : r[p] = IF p < x THEN s[p] ELSE s[p + 1]
    BY <1>2, RemoveFirstIs
  <2> HIDE DEF r
  <2>2. Len(s) \in Nat
    OBVIOUS
  <2> DEFINE old(p) == IF p < x THEN p ELSE p + 1
  <2>3. \A p \in 1..Len(r) : old(p) \in 1..Len(s) /\ r[p] = s[old(p)]
    BY <2>1, <2>2
  <2>4. \A p \in 1..Len(r) : \A q \in 1..(old(p) - 1) :
           q # x => \E k \in 1..(p - 1) : old(k) = q
    <3> SUFFICES ASSUME NEW p \in 1..Len(r), NEW q \in 1..(old(p) - 1), q # x
                 PROVE  \E k \in 1..(p - 1) : old(k) = q
      OBVIOUS
    <3>1. CASE q < x
      <4>1. q \in 1..(p - 1) /\ old(q) = q
        BY <2>1, <2>2, <3>1
      <4> QED  BY <4>1
    <3>2. CASE x < q
      <4>1. q - 1 \in 1..(p - 1) /\ old(q - 1) = q
        BY <2>1, <2>2, <3>2
      <4> QED  BY <4>1
    <3> QED  BY <2>1, <2>2, <3>1, <3>2
  <2>5. \A p \in 1..Len(r) : \A k \in 1..(p - 1) : k \in 1..Len(r)
    BY <2>1, <2>2
  <2> HIDE DEF old
  <2>6. ASSUME NEW p \in 1..Len(r), NEW i \in Jobs, i < r[p], SameChain(i, r[p]),
               Untried(i), Untried(r[p])
        PROVE  \E k \in 1..(p - 1) : r[k] = i
    <3>1. PICK q \in 1..(old(p) - 1) : s[q] = i
      BY <2>3, <2>6 DEF ReadInOrder
    <3>2. q # x
      BY <2>1, <2>6, <3>1
    <3>3. PICK k \in 1..(p - 1) : old(k) = q
      BY <2>4, <3>2
    <3>4. r[k] = i
      BY <2>3, <2>5, <3>1, <3>3
    <3> QED  BY <3>4
  <2>7. \A p \in 1..Len(r) : invoice[r[p]] # "none"
    BY <2>3 DEF ReadInOrder
  <2>8. ReadInOrder(r)
    BY <2>6, <2>7 DEF ReadInOrder
  <2> QED  BY <2>1, <2>8 DEF r
<1> QED  BY <1>1, <1>2

\* The end of a run, whoever holds the job by then: it was tried.
LEMMA ReturnKeepsOrder ==
    ASSUME OrderInv, NEW w \in Workers, Return(w)
    PROVE  OrderInv'
<1>0. PICK j, rest, e : j = job[w] /\ rest = RemoveFirst(line, j) /\ e = DueWithout(j)
  OBVIOUS
<1>1. /\ UNCHANGED <<invoice, signed, attempts, authority, tried>>
      /\ pc' = [pc EXCEPT ![w] = "idle"] /\ answer' = [answer EXCEPT ![w] = "none"]
      /\ job' = [job EXCEPT ![w] = NoJob] /\ j # NoJob /\ due' = e
  BY <1>0 DEF Return, Complete, Fail, Retry, Finish, Leave, Goto
<1>2. j \in Jobs /\ j \in tried /\ ~Untried(j) /\ invoice[j] # "none"
  BY <1>0, <1>1 DEF OrderInv, TypeOK, RungInOrder, Untried
<1>3. \A i : Untried(i)' <=> Untried(i)
  BY <1>1 DEF Untried
<1>4. PICK l, d : l = line /\ d = due
  OBVIOUS
<1>5. Orderly(rest, e) /\ \A p \in 1..Len(rest) : rest[p] # j
  <2>1. Orderly(l, d) /\ rest = RemoveFirst(l, j)
    BY <1>0, <1>4 DEF OrderInv
  <2>2. e = d - (IF Contains(SubSeq(l, 1, d), j) THEN 1 ELSE 0)
    BY <1>0, <1>4 DEF DueWithout, Due
  <2> QED  BY <1>2, <2>1, <2>2, LineWithout
<1>6. /\ \E x : x \in JobStates /\ state' = [state EXCEPT ![j] = x]
      /\ \/ line' = rest /\ seen' = seen
         \/ /\ \E x \in e + 1 .. Len(rest) + 1 : line' = InsertAt(rest, x, j)
            /\ seen' = [v \in Workers |-> RemoveFirst(seen[v], j)]
  BY <1>0 DEF Return, Complete, Fail, Retry, Finish, JobStates
<1>7. Orderly(line', e)
  <2>1. \A x \in e + 1 .. Len(rest) + 1 : Orderly(InsertAt(rest, x, j), e)
    BY <1>2, <1>5, PutBehind
  <2> QED  BY <1>5, <1>6, <2>1
<1>8. Orderly(line, due)'
  <2>1. PICK m : m = line'
    OBVIOUS
  <2>2. Orderly(m, e)
    BY <1>7, <2>1
  <2>3. Orderly(m, e)'
    BY <1>1, <1>3, <2>2 DEF Orderly
  <2> QED  BY <1>1, <2>1, <2>3
<1>9. \A v \in Workers : seen'[v] \in Seq(Jobs) /\ ReadInOrder(seen'[v])
  <2>1. \A v \in Workers : seen[v] \in Seq(Jobs) /\ ReadInOrder(seen[v])
    BY DEF OrderInv, TypeOK, QueueTypeOK
  <2>2. \A v \in Workers : /\ RemoveFirst(seen[v], j) \in Seq(Jobs)
                           /\ ReadInOrder(RemoveFirst(seen[v], j))
    BY <1>2, <2>1, ReadWithout
  <2> QED  BY <1>6, <2>1, <2>2
<1>10. ASSUME NEW v \in Workers PROVE ReadInOrder(seen[v])'
  <2>1. PICK s : s = seen'[v]
    OBVIOUS
  <2>2. ReadInOrder(s)'
    BY <1>1, <1>3, <1>9, <2>1 DEF ReadInOrder, SameChain
  <2> QED  BY <2>1, <2>2
<1>11. TypeOK'
  <2>1. /\ state' \in [Jobs -> JobStates] /\ job' \in [Workers -> Jobs \cup {NoJob}]
        /\ pc' \in [Workers -> Steps] /\ answer' \in [Workers -> Outcomes \cup {"none"}]
    BY <1>1, <1>6 DEF OrderInv, TypeOK, QueueTypeOK, Steps
  <2>2. seen' \in [Workers -> Seq(Jobs)]
    <3>1. seen' = [v \in Workers |-> seen'[v]]
      BY <1>6 DEF OrderInv, TypeOK, QueueTypeOK
    <3> QED  BY <1>9, <3>1
  <2>3. line' \in Seq(Jobs) /\ due' \in 0..Len(line')
    BY <1>1, <1>7 DEF Orderly
  <2> QED  BY <1>1, <2>1, <2>2, <2>3 DEF OrderInv, TypeOK, QueueTypeOK
<1>12. RungInOrder'
  <2>1. \A i \in Jobs : Untried(i) => state'[i] = state[i]
    BY <1>2, <1>6 DEF OrderInv, TypeOK, QueueTypeOK
  <2> QED  BY <1>1, <1>3, <2>1 DEF OrderInv, RungInOrder
<1>13. FirstTriedInOrder' /\ \A v \in Workers : job'[v] \in tried' \cup {NoJob}
  BY <1>1 DEF OrderInv, FirstTriedInOrder, SameChain, TypeOK, QueueTypeOK
<1> QED  BY <1>8, <1>10, <1>11, <1>12, <1>13 DEF OrderInv

\* The steps that leave the line, the claims and what was tried alone.
LEMMA HandlerKeepsOrder ==
    ASSUME OrderInv, NEW w \in Workers,
           \/ Read(w) \/ Submit(w) \/ AnswerLost(w) \/ NotAttempted(w)
           \/ Record(w) \/ Settle(w) \/ DbError(w) \/ Die(w)
    PROVE  OrderInv'
<1>1. /\ UNCHANGED <<line, due, seen, tried, state, signed>>
      /\ job' = job \/ job' = [job EXCEPT ![w] = NoJob]
  BY DEF Read, Submit, AnswerLost, NotAttempted, Answered, Record, Settle, DbError, Die,
         Lose, Leave, queueVars
<1>2. job' \in [Workers -> Jobs \cup {NoJob}]
  BY <1>1 DEF OrderInv, TypeOK, QueueTypeOK
<1>3. pc' \in [Workers -> Steps]
  <2>1. \E step \in Steps : pc' = [pc EXCEPT ![w] = step]
    BY DEF Read, Submit, AnswerLost, NotAttempted, Answered, Record, Settle, DbError, Die,
           Goto, Steps
  <2> QED  BY <2>1 DEF OrderInv, TypeOK
<1>4. answer' \in [Workers -> Outcomes \cup {"none"}]
  <2>1. answer' = answer \/ \E x \in Outcomes \cup {"none"} : answer' = [answer EXCEPT ![w] = x]
    BY DEF Read, Submit, AnswerLost, NotAttempted, Answered, Record, Settle, DbError, Die,
           Outcomes, Verdicts
  <2> QED  BY <2>1 DEF OrderInv, TypeOK
<1>5. authority' \in [Jobs -> Verdicts \cup {"none"}]
  <2>1. \/ authority' = authority
        \/ \E x \in Verdicts \cup {"none"} :
              authority' = [authority EXCEPT ![job[w]] = IF @ = "none" THEN x ELSE @]
    <3>1. CASE Submit(w)
      BY <3>1 DEF Submit
    <3>2. CASE AnswerLost(w)
      BY <3>2 DEF AnswerLost
    <3>3. CASE Read(w) \/ NotAttempted(w) \/ Record(w) \/ Settle(w) \/ DbError(w) \/ Die(w)
      BY <3>3 DEF Read, NotAttempted, Record, Settle, DbError, Die
    <3> QED  BY <3>1, <3>2, <3>3
  <2> QED  BY <2>1 DEF OrderInv, TypeOK
<1>6. attempts' \in [Jobs -> SUBSET Verdicts]
  <2>1. \/ attempts' = attempts
        \/ \E x \in SUBSET Verdicts :
              attempts' = [attempts EXCEPT ![job[w]] = @ \cup x]
    BY DEF Read, Submit, AnswerLost, NotAttempted, Answered, Record, Settle, DbError, Die
  <2> QED  BY <2>1 DEF OrderInv, TypeOK
<1>7. /\ invoice' \in [Jobs -> {"none", "pending", "reported", "rejected"}]
      /\ \A j \in Jobs : invoice'[j] = "none" <=> invoice[j] = "none"
  <2>1. \/ invoice' = invoice
        \/ \E x \in {"reported", "rejected"} : invoice' = [invoice EXCEPT ![job[w]] = x]
    BY DEF Read, Submit, AnswerLost, NotAttempted, Answered, Record, Settle, DbError, Die,
           StateFor
  <2>2. job[w] \in Jobs => invoice[job[w]] # "none"
    BY QueueAssumption DEF QueueAssumption, OrderInv, RungInOrder
  <2> QED  BY <2>1, <2>2 DEF OrderInv, TypeOK
<1>8. TypeOK'
  BY <1>1, <1>2, <1>3, <1>4, <1>5, <1>6, <1>7 DEF OrderInv, TypeOK, QueueTypeOK
<1>9. \A v \in Workers : job'[v] \in {job[v], NoJob}
  BY <1>1 DEF OrderInv, TypeOK, QueueTypeOK
<1> QED  BY <1>1, <1>7, <1>8, <1>9, StillInOrder

LEMMA InitInOrder == Init => OrderInv
<1> SUFFICES ASSUME Init PROVE OrderInv
  OBVIOUS
<1>1. TypeOK
  BY DEF Init, QueueInit, TypeOK, QueueTypeOK, JobStates, Steps
<1>2. Orderly(line, due) /\ RungInOrder /\ FirstTriedInOrder
  BY DEF Init, QueueInit, Orderly, RungInOrder, Untried, FirstTriedInOrder
<1>3. \A w \in Workers : ReadInOrder(seen[w]) /\ job[w] \in tried \cup {NoJob}
  BY DEF Init, QueueInit, ReadInOrder
<1> QED  BY <1>1, <1>2, <1>3 DEF OrderInv

LEMMA OrderCorrect == Spec => []OrderInv
<1>1. OrderInv /\ [Next]_vars => OrderInv'
  <2> SUFFICES ASSUME OrderInv, [Next]_vars PROVE OrderInv'
    OBVIOUS
  <2>1. CASE UNCHANGED vars
    <3>1. UNCHANGED <<line, due, seen, tried, state, job, invoice>> /\ TypeOK'
      BY <2>1 DEF vars, queueVars, submitVars, OrderInv, TypeOK, QueueTypeOK
    <3> QED  BY <3>1, StillInOrder
  <2>2. ASSUME NEW j \in Jobs, Attach(j) PROVE OrderInv'
    <3>1. UNCHANGED <<line, due, seen, tried, state, job, invoice>> /\ TypeOK'
      BY <2>2 DEF Attach, queueVars, OrderInv, TypeOK, QueueTypeOK
    <3> QED  BY <3>1, StillInOrder
  <2>3. ASSUME NEW j \in Jobs, Reap(j), UNCHANGED submitVars PROVE OrderInv'
    <3>1. /\ UNCHANGED <<line, due, seen, tried, job, invoice>> /\ state[j] = "running"
          /\ state' = [state EXCEPT ![j] = "pending"]
      BY <2>3 DEF Reap, submitVars
    <3>2. TypeOK'
      BY <2>3, <3>1 DEF submitVars, OrderInv, TypeOK, QueueTypeOK, JobStates
    <3>3. \A i \in Jobs : Untried(i) => state'[i] = state[i]
      BY <3>1 DEF OrderInv, RungInOrder, TypeOK, QueueTypeOK
    <3> QED  BY <3>1, <3>2, <3>3, StillInOrder
  <2>4. CASE Queue /\ UNCHANGED submitVars
    BY <2>3, <2>4, TickKeepsOrder, ClaimReadsInOrder DEF Queue
  <2>5. CASE \E w \in Workers : Handle(w) \/ Setback(w)
    BY <2>5, TakeKeepsOrder, HandlerKeepsOrder, ReturnKeepsOrder DEF Handle, Setback
  <2> QED  BY <2>1, <2>2, <2>4, <2>5, RingKeepsOrder DEF Next
<1> QED  BY <1>1, InitInOrder, PTL DEF Spec

\* The line, the claims and the workers stay in their types, whatever is reaped,
\* lost, retried or finished twice: the due places are places of the line
\* (queue.go:165-234).
THEOREM SubmissionTypeCorrect == Spec => []TypeOK
<1>1. OrderInv => TypeOK
  BY DEF OrderInv
<1> QED  BY <1>1, OrderCorrect, PTL

\* A device's invoices are first claimed in the order of their chain numbers,
\* though the claims of any number of workers cross and SKIP LOCKED passes over
\* what another holds (0027_job_queue.sql:83-114).
THEOREM FirstTriedInOrderHolds == Spec => []FirstTriedInOrder
<1>1. OrderInv => FirstTriedInOrder
  BY DEF OrderInv
<1> QED  BY <1>1, OrderCorrect, PTL
=============================================================================
