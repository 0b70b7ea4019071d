------------------------------ MODULE CardCharge ------------------------------
(***************************************************************************)
(* Taking money through a card provider and sending it back                *)
(* (backend/internal/payments/payments.go, adapters.go, migration 0102).   *)
(*                                                                         *)
(* A request is a handler of its own.  Each of its transactions is one     *)
(* statement that matters; between the second and the third it calls the   *)
(* provider, which acts on the call whether or not anyone still waits for  *)
(* the answer.                                                             *)
(***************************************************************************)
EXTENDS Naturals, FiniteSets

CONSTANTS
    Attempts,       \* the uuids callers send, and so the rows they may make
    MaxRequests     \* bound: requests, numbered as they come

ASSUME CardAssumption == "none" \notin Attempts /\ MaxRequests \in Nat

Requests == 1..MaxRequests
Statuses == {"initiated", "authorised", "captured", "failed", "cancelled", "refunded"}

\* What each adapter makes of the answers it may get to a charge; "page" stands
\* for every word it does not know.  The hosted ones are HyperPay, PayTabs, Geidea,
\* Checkout.com and Amazon, which know no other.
ChargeWords ==
    [moyasar  |-> [paid |-> "captured", held |-> "authorised", reversed |-> "refunded",
                   page |-> "initiated", declined |-> "failed", error |-> "failed"],
     tap      |-> [paid |-> "captured", held |-> "authorised", void |-> "cancelled",
                   page |-> "initiated", declined |-> "failed", error |-> "failed"],
     terminal |-> [paid |-> "captured", declined |-> "failed", error |-> "failed"],
     hosted   |-> [page |-> "initiated", error |-> "failed"]]

Adapters == DOMAIN ChargeWords

\* What may be said of a refund, to an adapter that reads no more than whether
\* there was an error, and to one that reads it.
Unread == [returned |-> "refunded", accepted |-> "refunded", declined |-> "refunded",
           error |-> "failed"]
Read   == [returned |-> "refunded", accepted |-> "failed", declined |-> "failed",
           error |-> "failed"]

\* A slip: the terminal's answer is read no further than the others'.
NoneRead == [a \in Adapters |-> Unread]

\* No charge of a hosted page ever reads captured, so none is refunded.
RefundWords == [a \in Adapters |-> IF a = "terminal" THEN Read ELSE Unread]

\* The word an adapter has for an answer to a call.
Words(what, a) == IF what = "charge" THEN ChargeWords[a] ELSE RefundWords[a]

Answers == {"paid", "held", "page", "void", "reversed",
            "returned", "accepted", "declined", "error"}

VARIABLES
    adapter,    \* whose gateway an attempt is made through
    status,     \* the rows of payment_attempt, "none" where there is none
    op, key,    \* what a request asks for, and of which attempt
    pc,         \* where its handler is
    result,     \* what the adapter made of its call
    wire,       \* what the provider did with its call, and answers to it
    cut         \* attempts whose charge was cut off half-way (history)

vars == <<adapter, status, op, key, pc, result, wire, cut>>

Waiting == {"look", "insert", "read", "call", "answer", "write"}

TypeOK ==
    /\ adapter \in [Attempts -> Adapters]
    /\ status \in [Attempts -> Statuses \cup {"none"}]
    /\ op \in [Requests -> {"none", "charge", "refund"}]
    /\ key \in [Requests -> Attempts \cup {"none"}]
    /\ pc \in [Requests -> Waiting \cup {"none", "end"}]
    /\ result \in [Requests -> Statuses \cup {"none"}]
    /\ wire \in [Requests -> Answers \cup {"none", "sent"}]
    /\ cut \subseteq Attempts

Init ==
    /\ adapter \in [Attempts -> Adapters]
    /\ status = [k \in Attempts |-> "none"]
    /\ op = [r \in Requests |-> "none"]
    /\ key = [r \in Requests |-> "none"]
    /\ pc = [r \in Requests |-> "none"]
    /\ result = [r \in Requests |-> "none"]
    /\ wire = [r \in Requests |-> "none"]
    /\ cut = {}

-----------------------------------------------------------------------------
Goto(r, step) == pc' = [pc EXCEPT ![r] = step]

Arrive(r, what, k) ==
    /\ pc[r] = "none"
    /\ \A q \in Requests : pc[q] = "none" => r <= q
    /\ op' = [op EXCEPT ![r] = what]
    /\ key' = [key EXCEPT ![r] = k]
    /\ Goto(r, IF what = "charge" THEN "look" ELSE "read")
    /\ UNCHANGED <<adapter, status, result, wire, cut>>

\* Any caller, at any time: the first try or a retry.
Charge(r) == \E k \in Attempts : Arrive(r, "charge", k)

Refund(r) == \E k \in Attempts : status[k] # "none" /\ Arrive(r, "refund", k)

\* attemptByUUID: a retry is answered with the row.
Look(r) ==
    /\ pc[r] = "look"
    /\ Goto(r, IF status[key[r]] = "none" THEN "insert" ELSE "end")
    /\ UNCHANGED <<adapter, status, op, key, result, wire, cut>>

\* The provider is switched off, or its key cannot be read.
SwitchedOff(r) ==
    /\ pc[r] = "insert"
    /\ Goto(r, "end")
    /\ UNCHANGED <<adapter, status, op, key, result, wire, cut>>

\* A slip: no index on the uuid.
InsertAnyway(r) ==
    /\ pc[r] = "insert"
    /\ status' = [status EXCEPT ![key[r]] = "initiated"]
    /\ Goto(r, "call")
    /\ UNCHANGED <<adapter, op, key, result, wire, cut>>

\* The row first; the index on its uuid sends all but one away with an error.
Insert(r) ==
    /\ pc[r] = "insert"
    /\ IF status[key[r]] = "none"
       THEN /\ status' = [status EXCEPT ![key[r]] = "initiated"]
            /\ Goto(r, "call")
       ELSE Goto(r, "end") /\ UNCHANGED status
    /\ UNCHANGED <<adapter, op, key, result, wire, cut>>

\* A refund is for a charge that reads captured.
ReadForRefund(r) ==
    /\ pc[r] = "read"
    /\ Goto(r, IF status[key[r]] = "captured" THEN "call" ELSE "end")
    /\ UNCHANGED <<adapter, status, op, key, result, wire, cut>>

\* The charge has no reference of the provider's, or the key cannot be read.
Unrefundable(r) ==
    /\ pc[r] = "read"
    /\ Goto(r, "end")
    /\ UNCHANGED <<adapter, status, op, key, result, wire, cut>>

Call(r) ==
    /\ pc[r] = "call"
    /\ wire' = [wire EXCEPT ![r] = "sent"]
    /\ Goto(r, "answer")
    /\ UNCHANGED <<adapter, status, op, key, result, cut>>

\* The answer, as the adapter puts it.
Hears(r) ==
    /\ pc[r] = "answer"
    /\ wire[r] \notin {"none", "sent"}
    /\ result' = [result EXCEPT ![r] = Words(op[r], adapter[key[r]])[wire[r]]]
    /\ Goto(r, "write")
    /\ UNCHANGED <<adapter, status, op, key, wire, cut>>

\* A slip: a client with no timeout waits for as long as it takes.
HangsOn(r) == FALSE

\* The connection fails or twenty seconds pass, wherever the call is by then.
Unreachable(r) ==
    /\ pc[r] = "answer"
    /\ result' = [result EXCEPT ![r] = "failed"]
    /\ Goto(r, "write")
    /\ UNCHANGED <<adapter, status, op, key, wire, cut>>

\* The UPDATE, by id alone.
Write(r) ==
    /\ pc[r] = "write"
    /\ status' = [status EXCEPT ![key[r]] = result[r]]
    /\ Goto(r, "end")
    /\ UNCHANGED <<adapter, op, key, result, wire, cut>>

\* The server is killed, its database is gone, or the caller hung up and took
\* the request's context with it.
Die(r) ==
    /\ pc[r] \in Waiting
    /\ Goto(r, "end")
    /\ cut' = IF op[r] = "charge" /\ pc[r] \in {"call", "answer", "write"}
              THEN cut \cup {key[r]} ELSE cut
    /\ UNCHANGED <<adapter, status, op, key, result, wire>>

-----------------------------------------------------------------------------
(* The provider.                                                           *)

Charges(k) == {r \in Requests : op[r] = "charge" /\ key[r] = k}
Refunds(k) == {r \in Requests : op[r] = "refund" /\ key[r] = k}
Taken(k)    == \E r \in Charges(k) : wire[r] \in {"paid", "reversed"}
Returned(k) == \/ \E r \in Refunds(k) : wire[r] = "returned"
               \/ \E r \in Charges(k) : wire[r] = "reversed"
Heeded(k)   == \E r \in Refunds(k) : wire[r] \in {"returned", "accepted", "declined"}

\* A call is acted on at some time, or never.
Decide(r) ==
    /\ wire[r] = "sent"
    /\ \E answer \in DOMAIN Words(op[r], adapter[key[r]]) :
          /\ answer \in {"returned", "accepted"} => Taken(key[r])
          /\ wire' = [wire EXCEPT ![r] = answer]
    /\ UNCHANGED <<adapter, status, op, key, pc, result, cut>>

\* The customer pays on the provider's page, or a hold is captured there; the
\* code has no call that asks and no address to be told at.
PaidElsewhere(r) ==
    /\ pc[r] = "end"
    /\ wire[r] \in {"page", "held"}
    /\ wire' = [wire EXCEPT ![r] = "paid"]
    /\ UNCHANGED <<adapter, status, op, key, pc, result, cut>>

Answer(r) == Hears(r) \/ Unreachable(r)

Serve(r) == \/ Look(r) \/ Insert(r) \/ ReadForRefund(r) \/ Call(r) \/ Answer(r)
            \/ Write(r)

Next == \E r \in Requests :
            \/ Charge(r) \/ Refund(r) \/ Serve(r) \/ SwitchedOff(r) \/ Unrefundable(r)
            \/ Die(r) \/ Decide(r) \/ PaidElsewhere(r)

\* A handler goes on, and its call ends by the client's timeout at the latest.
Spec == Init /\ [][Next]_vars /\ \A r \in Requests : WF_vars(Serve(r))

-----------------------------------------------------------------------------
(* Properties.                                                             *)

\* However often and however fast a caller retries, one call to charge goes out
\* under a uuid (payments.go:606): the row it is inserted under is its claim.
ChargedOnce ==
    \A k \in Attempts : Cardinality({r \in Charges(k) : wire[r] # "none"}) <= 1

\* A row that reads captured was paid, and one that reads refunded has had money
\* sent back (payments.go:687, 848), or else is one of Moyasar's or Tap's, whose
\* refunds are not read (adapters.go:308, 628), and their provider has answered
\* one without an error: no lost answer, crash, retry or crossing of refunds whose
\* answers are written in either order makes it say so.
RowTellsTrue ==
    \A k \in Attempts :
        /\ status[k] = "captured" => Taken(k)
        /\ status[k] = "refunded" =>
               Returned(k) \/ (adapter[k] \in {"moyasar", "tap"} /\ Heeded(k))

\* An attempt is answered unless its customer is still on the provider's page or
\* its handler was cut off (payments.go:70, 648): a silent provider is no reason.
Open(k) == status[k] = "initiated"
OnPage(k) == \E r \in Charges(k) : result[r] = "initiated"
EveryAttemptAnswered ==
    \A k \in Attempts : Open(k) ~> (~Open(k) \/ OnPage(k) \/ k \in cut)

\* What Refund tells whoever asks about a failed charge: "there is nothing to
\* send back" (payments.go:826).
NothingToSendBack ==
    \A k \in Attempts : status[k] = "failed" => ~Taken(k) \/ Returned(k)
=============================================================================
