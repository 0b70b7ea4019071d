------------------------------ MODULE JobQueue ------------------------------
(***************************************************************************)
(* The job table and the workers that drain it: backend/internal/jobs and  *)
(* migration 0027.  Time is kept as an order: line is every unfinished job *)
(* by run_after, and the jobs in its first `due' places are due.           *)
(*                                                                         *)
(* Jobs are numbered in the order in which their transactions commit.  One *)
(* kind of job, with one priority and no limit on its attempts, which is   *)
(* what ZATCA submission asks for (zatcasubmit.go:50-55).                  *)
(***************************************************************************)
EXTENDS Naturals, Sequences, FiniteSets, SequencesExt

CONSTANTS
    Jobs,       \* numbers of the jobs that can be enqueued
    Workers,
    KeyOf,      \* the queue key of each job
    NoJob

ASSUME QueueAssumption ==
    /\ Jobs \subseteq Nat
    /\ NoJob \notin Jobs

VARIABLES
    state,      \* job.state, "none" for a job not enqueued yet
    line,       \* unfinished jobs by run_after
    due,        \* how many of them are due
    job,        \* the job each worker is busy with
    seen        \* what a worker's claim has read: claimable jobs, best first

queueVars == <<state, line, due, job, seen>>

JobStates == {"none", "pending", "running", "done", "failed"}

QueueTypeOK ==
    /\ state \in [Jobs -> JobStates]
    /\ line \in Seq(Jobs)
    /\ due \in 0..Len(line)
    /\ job \in [Workers -> Jobs \cup {NoJob}]
    /\ seen \in [Workers -> Seq(Jobs)]

QueueInit ==
    /\ state = [j \in Jobs |-> "none"]
    /\ line = <<>>
    /\ due = 0
    /\ job = [w \in Workers |-> NoJob]
    /\ seen = [w \in Workers |-> <<>>]

Outstanding == {j \in Jobs : state[j] \in {"pending", "running"}}

Due == SubSeq(line, 1, due)

\* Those of the jobs in sequence s that are in P, as they stand in s.
Only(s, P) ==
    LET kept[n \in 0..Len(s)] ==
            IF n = 0 THEN <<>>
            ELSE IF s[n] \in P THEN Append(kept[n - 1], s[n]) ELSE kept[n - 1]
    IN  kept[Len(s)]

\* A slip: a job leaves the line, and nothing else in it moves.
DueAlways(j) == due

\* The places of line that are due once job j has left it.
DueWithout(j) == due - (IF Contains(Due, j) THEN 1 ELSE 0)

-----------------------------------------------------------------------------
(* Enqueueing, in the caller's transaction.                                *)

\* A slip: the newest first.
EnqueueInFront(j) ==
    /\ j \notin Outstanding
    /\ state' = [state EXCEPT ![j] = "pending"]
    /\ line' = <<j>> \o line
    /\ due' = due + 1
    /\ UNCHANGED <<job, seen>>

\* run_after is now: behind every job that is due, before every one that
\* waits.  A job still outstanding is not queued twice (the dedupe index).
EnqueueIn(j) ==
    /\ j \notin Outstanding
    /\ state' = [state EXCEPT ![j] = "pending"]
    /\ line' = InsertAt(line, due + 1, j)
    /\ due' = due + 1
    /\ UNCHANGED <<job, seen>>

\* The next run_after is reached.
Tick ==
    /\ due < Len(line)
    /\ due' = due + 1
    /\ UNCHANGED <<state, line, job, seen>>

-----------------------------------------------------------------------------
(* claim_job is one statement, but not one moment: it reads a snapshot and *)
(* then locks the first row it can, which it reads again.                  *)

\* A slip: a key is busy while any other of its jobs is unfinished.
KeyUnfinished(j) == \E r \in Outstanding \ {j} : KeyOf[r] = KeyOf[j]

\* A job of a key that has one running is left alone.
KeyBusy(j) == \E r \in Jobs : state[r] = "running" /\ KeyOf[r] = KeyOf[j]

Pending == {j \in Jobs : state[j] = "pending"}

Claimable == Only(Due, {j \in Pending : ~KeyBusy(j)})

Idle(w) == job[w] = NoJob /\ seen[w] = <<>>

ClaimReads(w) ==
    /\ Idle(w)
    /\ Claimable # <<>>
    /\ seen' = [seen EXCEPT ![w] = Claimable]
    /\ UNCHANGED <<state, line, due, job>>

\* FOR UPDATE SKIP LOCKED: the first one that is pending still.  That its
\* key has nothing running is not looked at again.
ClaimTakes(w) ==
    LET open == Only(seen[w], Pending)
    IN  /\ seen[w] # <<>>
        /\ seen' = [seen EXCEPT ![w] = <<>>]
        /\ IF open = <<>>
             THEN UNCHANGED <<state, job>>
             ELSE /\ state' = [state EXCEPT ![Head(open)] = "running"]
                  /\ job' = [job EXCEPT ![w] = Head(open)]
        /\ UNCHANGED <<line, due>>

-----------------------------------------------------------------------------
(* What a worker does with its job in the end: by id alone, whoever holds  *)
(* the job by now and whatever has become of it.                           *)

Leave(w) == job' = [job EXCEPT ![w] = NoJob]

Finish(w, outcome) ==
    LET j == job[w]
    IN  /\ j # NoJob
        /\ state' = [state EXCEPT ![j] = outcome]
        /\ line' = RemoveFirst(line, j)
        /\ due' = DueWithout(j)
        /\ Leave(w)
        /\ UNCHANGED seen

Complete(w) == Finish(w, "done")
Fail(w)     == Finish(w, "failed")

\* The back-off is at least thirty seconds (Backoff is asked for attempt two
\* and up), so the job goes somewhere behind everything that is due.  A claim
\* under way finds a run_after in the future and passes the job over.
Retry(w) ==
    LET j    == job[w]
        rest == RemoveFirst(line, j)
    IN  /\ j # NoJob
        /\ state' = [state EXCEPT ![j] = "pending"]
        /\ \E place \in DueWithout(j) + 1 .. Len(rest) + 1 :
               line' = InsertAt(rest, place, j)
        /\ due' = DueWithout(j)
        /\ seen' = [v \in Workers |-> RemoveFirst(seen[v], j)]
        /\ Leave(w)

\* The worker dies, or its last update of the job fails: the row stays running.
Lose(w) ==
    /\ job[w] # NoJob
    /\ Leave(w)
    /\ UNCHANGED <<state, line, due, seen>>

Held(j) == \E w \in Workers : job[w] = j

\* reap_abandoned_jobs: pending again, with the run_after it had.
Reap(j) ==
    /\ state[j] = "running"
    /\ state' = [state EXCEPT ![j] = "pending"]
    /\ UNCHANGED <<line, due, job, seen>>
=============================================================================
