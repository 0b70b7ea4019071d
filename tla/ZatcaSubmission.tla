--------------------------- MODULE ZatcaSubmission ---------------------------
(***************************************************************************)
(* Reporting invoices to the tax authority: backend/internal/jobs/         *)
(* zatcasubmit.go run by the workers of JobQueue.  The job of an invoice   *)
(* carries the invoice's number on its device's chain (the ICV).           *)
(***************************************************************************)
EXTENDS JobQueue

CONSTANTS
    SlowWorkers,        \* may a live worker be reaped?
    DuplicatesRefused   \* does the authority refuse what it has accepted once?

VARIABLES
    invoice,    \* sales_invoice.state: "none", "pending", "reported", "rejected"
    signed,     \* invoices whose terminal has uploaded the signed document
    attempts,   \* zatca_submission_attempt: the verdicts recorded per invoice
    authority,  \* what the authority has decided of each document it received
    pc,         \* how far each worker is with its job
    answer,     \* what the authority told it
    tried       \* history: jobs that were ever claimed

submitVars == <<invoice, signed, attempts, authority, pc, answer, tried>>
vars == <<queueVars, submitVars>>

\* "unheard" is a transport failure or nothing sent: rows of their own in
\* zatca_submission_attempt, which nothing reads but the numbering of attempts.
Verdicts == {"accepted", "rejected"}
Outcomes == Verdicts \cup {"unheard"}
Steps    == {"idle", "read", "send", "record", "settle", "complete", "fail", "retry"}

TypeOK ==
    /\ QueueTypeOK
    /\ invoice \in [Jobs -> {"none", "pending", "reported", "rejected"}]
    /\ signed \subseteq Jobs
    /\ attempts \in [Jobs -> SUBSET Verdicts]
    /\ authority \in [Jobs -> Verdicts \cup {"none"}]
    /\ pc \in [Workers -> Steps]
    /\ answer \in [Workers -> Outcomes \cup {"none"}]
    /\ tried \subseteq Jobs

Init ==
    /\ QueueInit
    /\ invoice = [j \in Jobs |-> "none"]
    /\ signed = {}
    /\ attempts = [j \in Jobs |-> {}]
    /\ authority = [j \in Jobs |-> "none"]
    /\ pc = [w \in Workers |-> "idle"]
    /\ answer = [w \in Workers |-> "none"]
    /\ tried = {}

Settled(j) == invoice[j] \in {"reported", "rejected"}

-----------------------------------------------------------------------------
(* The shop.                                                               *)

\* A sale commits: the invoice, its place on the chain and the obligation to
\* report it in one transaction.  The chain's row lock makes the order of
\* commits the order of the numbers.
Ring(j) ==
    /\ invoice[j] = "none"
    /\ \A i \in Jobs : i < j => invoice[i] # "none"
    /\ EnqueueIn(j)
    /\ invoice' = [invoice EXCEPT ![j] = "pending"]
    /\ UNCHANGED <<signed, attempts, authority, pc, answer, tried>>

\* The terminal builds and signs the document, and uploads it when it can.
Attach(j) ==
    /\ invoice[j] # "none"
    /\ j \notin signed
    /\ signed' = signed \cup {j}
    /\ UNCHANGED <<queueVars, invoice, attempts, authority, pc, answer, tried>>

-----------------------------------------------------------------------------
(* A worker's run: claim, then the handler, then the queue.                *)

Goto(w, step) == pc' = [pc EXCEPT ![w] = step]

Take(w) ==
    /\ ClaimTakes(w)
    /\ Goto(w, IF job'[w] = NoJob THEN "idle" ELSE "read")
    /\ tried' = tried \cup ({job'[w]} \ {NoJob})
    /\ UNCHANGED <<invoice, signed, attempts, authority, answer>>

\* A slip: a document that is not there is taken as nothing to do.
ReadLenient(w) ==
    /\ pc[w] = "read"
    /\ Goto(w, IF job[w] \in signed /\ ~Settled(job[w]) THEN "send" ELSE "complete")
    /\ UNCHANGED <<queueVars, invoice, signed, attempts, authority, answer, tried>>

\* read and the checks on what it read.  An invoice settled by an earlier
\* attempt is done; one that is not signed yet is tried again later.
Read(w) ==
    /\ pc[w] = "read"
    /\ Goto(w, IF Settled(job[w]) THEN "complete"
               ELSE IF job[w] \in signed THEN "send" ELSE "retry")
    /\ UNCHANGED <<queueVars, invoice, signed, attempts, authority, answer, tried>>

Answered(w, outcome) ==
    /\ pc[w] = "send"
    /\ answer' = [answer EXCEPT ![w] = outcome]
    /\ Goto(w, "record")
    /\ UNCHANGED <<queueVars, invoice, signed, attempts, tried>>

\* The authority decides of a document once.
Submit(w) ==
    LET j == job[w]
    IN  \E verdict \in Verdicts :
            /\ Answered(w, verdict)
            /\ authority[j] = "rejected" => verdict = "rejected"
            /\ authority[j] = "accepted" =>
                   verdict = "accepted" \/ DuplicatesRefused
            /\ authority' = [authority EXCEPT ![j] = IF @ = "none" THEN verdict ELSE @]

\* A slip: a request that went out is taken as delivered.
AnswerPresumed(w) ==
    /\ Answered(w, "accepted")
    /\ UNCHANGED authority

\* Nothing is heard back, whether or not the document arrived.
AnswerLost(w) ==
    /\ Answered(w, "unheard")
    /\ \E verdict \in Verdicts \cup {"none"} :
           authority' = [authority EXCEPT ![job[w]] = IF @ = "none" THEN verdict ELSE @]

\* No client, no credential, an expired certificate: no request left.
NotAttempted(w) ==
    /\ Answered(w, "unheard")
    /\ UNCHANGED authority

\* A slip: the attempt is left to be written with the job's end.
RecordLater(w) ==
    /\ pc[w] = "record"
    /\ Goto(w, IF answer[w] \in Verdicts THEN "settle" ELSE "retry")
    /\ UNCHANGED <<queueVars, invoice, signed, attempts, authority, answer, tried>>

\* The attempt, in a transaction of its own, before anything follows from it.
Record(w) ==
    /\ pc[w] = "record"
    /\ attempts' = [attempts EXCEPT ![job[w]] = @ \cup ({answer[w]} \cap Verdicts)]
    /\ Goto(w, IF answer[w] \in Verdicts THEN "settle" ELSE "retry")
    /\ UNCHANGED <<queueVars, invoice, signed, authority, answer, tried>>

StateFor(outcome) == IF outcome = "accepted" THEN "reported" ELSE "rejected"

\* settle or markRejected, in a transaction of its own.
Settle(w) ==
    /\ pc[w] = "settle"
    /\ invoice' = [invoice EXCEPT ![job[w]] = StateFor(answer[w])]
    /\ Goto(w, IF answer[w] = "accepted" THEN "complete" ELSE "fail")
    /\ UNCHANGED <<queueVars, signed, attempts, authority, answer, tried>>

\* A database error ends the run with an error, and the job is tried again.
DbError(w) ==
    /\ pc[w] \in {"read", "record", "settle"}
    /\ Goto(w, "retry")
    /\ UNCHANGED <<queueVars, invoice, signed, attempts, authority, answer, tried>>

\* The update that ends the run.
Return(w) ==
    /\ \/ pc[w] = "complete" /\ Complete(w)
       \/ pc[w] = "fail"     /\ Fail(w)
       \/ pc[w] = "retry"    /\ Retry(w)
    /\ Goto(w, "idle")
    /\ answer' = [answer EXCEPT ![w] = "none"]
    /\ UNCHANGED <<invoice, signed, attempts, authority, tried>>

\* The worker dies here (another takes its place), or that update fails.
Die(w) ==
    /\ Lose(w)
    /\ Goto(w, "idle")
    /\ answer' = [answer EXCEPT ![w] = "none"]
    /\ UNCHANGED <<invoice, signed, attempts, authority, tried>>

MayReap(j) == SlowWorkers \/ ~Held(j)

Queue ==
    \/ Tick
    \/ \E w \in Workers : ClaimReads(w)
    \/ \E j \in Jobs : MayReap(j) /\ Reap(j)

Handle(w) == Take(w) \/ Read(w) \/ Submit(w) \/ Record(w) \/ Settle(w) \/ Return(w)

Setback(w) == AnswerLost(w) \/ NotAttempted(w) \/ DbError(w) \/ Die(w)

Next ==
    \/ \E j \in Jobs : Ring(j) \/ Attach(j)
    \/ Queue /\ UNCHANGED submitVars
    \/ \E w \in Workers : Handle(w) \/ Setback(w)

Spec == Init /\ [][Next]_vars

-----------------------------------------------------------------------------
(* What reporting promises.                                                *)

\* "Never silently dropped": an invoice that is not settled has a job that is
\* still to run or running, whatever dies, is reaped, or answers late by id.
NeverDropped == \A j \in Jobs : invoice[j] = "pending" => j \in Outstanding

\* The books say reported only of what the authority has accepted, and
\* rejected only of what it has received (settle, markRejected).
SettledByAuthority ==
    \A j \in Jobs :
        /\ invoice[j] = "reported" => authority[j] = "accepted"
        /\ invoice[j] = "rejected" => authority[j] # "none"

\* The outcome that settled an invoice is among its recorded attempts: a crash
\* between the two transactions leaves the evidence, not the state alone.
SettledOnRecord ==
    \A j \in Jobs :
        /\ invoice[j] = "reported" => "accepted" \in attempts[j]
        /\ invoice[j] = "rejected" => "rejected" \in attempts[j]

SameChain(i, j) == KeyOf[i] = KeyOf[j]

\* A device's invoices are first tried in ICV order, by any number of workers
\* whose claims cross: the order of run_after, and SKIP LOCKED.
FirstTriedInOrder ==
    \A i, j \in Jobs : i < j /\ SameChain(i, j) /\ j \in tried => i \in tried

-----------------------------------------------------------------------------
(* What eventually happens.  Workers poll and run for ever, the reaper has *)
(* its ticker, time passes, a terminal uploads what it signed.             *)

Fairness ==
    /\ WF_vars(Tick /\ UNCHANGED submitVars)
    /\ \A w \in Workers :
           /\ WF_vars(ClaimReads(w) /\ UNCHANGED submitVars)
           /\ WF_vars(Handle(w))
    /\ \A j \in Jobs :
           /\ WF_vars(~Held(j) /\ Reap(j) /\ UNCHANGED submitVars)
           /\ WF_vars(Attach(j))

\* Setbacks only have to stop some day.
Calm == <>[][~\E w \in Workers : Setback(w)]_vars

CalmSpec == Spec /\ Fairness /\ Calm

\* Every invoice of a sale is reported or rejected in the end, though the
\* worker that had it died and though a rejected one comes before it.
EveryInvoiceSettles == \A j \in Jobs : invoice[j] = "pending" ~> Settled(j)
=============================================================================
