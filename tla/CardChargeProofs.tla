--------------------------- MODULE CardChargeProofs ---------------------------
(***************************************************************************)
(* Card charges, for any number of attempts and of requests about them: a  *)
(* uuid is charged once, and a row speaks of money as the provider dealt   *)
(* with it or, where its answer is not read, as it was asked to.           *)
(***************************************************************************)
EXTENDS CardCharge, FiniteSetTheorems, TLAPS

USE CardAssumption

\* A charge that has its row, and may call or has called.
Claims(r) == /\ op[r] = "charge"
             /\ pc[r] \in {"call", "answer", "write"} \/ wire[r] # "none"

\* The row was there before the call, and each row has one charge behind it.
ClaimInv ==
    /\ \A r \in Requests : Claims(r) => status[key[r]] # "none"
    /\ \A q, r \in Requests : Claims(q) /\ Claims(r) /\ key[q] = key[r] => q = r

\* What the provider of a request's attempt may say to it.
Spoken(r) == DOMAIN Words(op[r], adapter[key[r]])

\* Who asks what, and what its call has come to at each step.
RequestInv ==
    \A r \in Requests :
        /\ pc[r] # "none" => key[r] \in Attempts /\ op[r] # "none"
        /\ pc[r] \in {"none", "look", "insert", "read", "call"} => wire[r] = "none"
        /\ pc[r] \in {"look", "insert"} => op[r] = "charge"
        /\ pc[r] = "read" => op[r] = "refund"
        /\ pc[r] = "none" => op[r] = "none"
        /\ pc[r] = "answer" /\ wire[r] \notin {"none", "sent"} => wire[r] \in Spoken(r)

\* What is about to be written of money is what its provider has said of it.
Vouched(r) ==
    /\ result[r] \in {"captured", "refunded"} => adapter[key[r]] # "hosted"
    /\ result[r] = "captured" => op[r] = "charge" /\ wire[r] = "paid"
    /\ result[r] = "refunded" =>
           \/ op[r] = "charge" /\ wire[r] = "reversed"
           \/ op[r] = "refund" /\ wire[r] = "returned"
           \/ /\ op[r] = "refund" /\ wire[r] \in {"accepted", "declined"}
              /\ adapter[key[r]] # "terminal"

ResultInv == \A r \in Requests : pc[r] = "write" => result[r] # "none" /\ Vouched(r)

\* A hosted page's charge reads neither captured nor refunded, and nobody asks for
\* its refund.
HostedInv ==
    /\ \A k \in Attempts : adapter[k] = "hosted" => status[k] \notin {"captured", "refunded"}
    /\ \A r \in Requests : /\ pc[r] \in {"call", "answer", "write"} /\ op[r] = "refund"
                           => adapter[key[r]] # "hosted"

CardInv == TypeOK /\ RequestInv /\ ClaimInv /\ ResultInv /\ HostedInv /\ RowTellsTrue

\* What an adapter hears of a charge.
LEMMA ChargeAnswers ==
    ASSUME NEW a \in Adapters, NEW w \in DOMAIN ChargeWords[a]
    PROVE  /\ w \in Answers \ {"returned", "accepted", "sent", "none"}
           /\ ChargeWords[a][w] \in Statuses
           /\ ChargeWords[a][w] = "captured" => w = "paid"
           /\ ChargeWords[a][w] = "refunded" => w = "reversed" /\ a = "moyasar"
           /\ a = "hosted" => w \in {"page", "error"}
           /\ ChargeWords[a][w] = "captured" => a # "hosted"
  BY DEF Adapters, ChargeWords, Answers, Statuses

\* What an adapter hears of a refund.
LEMMA RefundAnswers ==
    ASSUME NEW a \in Adapters, NEW w \in DOMAIN RefundWords[a]
    PROVE  /\ w \in {"returned", "accepted", "declined", "error"}
           /\ RefundWords[a][w] \in {"refunded", "failed"}
           /\ RefundWords[a][w] = "refunded" =>
                  w = "returned" \/ (w \in {"accepted", "declined"} /\ a # "terminal")
  BY DEF RefundWords, Read, Unread

\* No row and no request.
LEMMA InitCard == Init => CardInv
  BY DEF Init, CardInv, TypeOK, RequestInv, ClaimInv, Claims, ResultInv, HostedInv,
         RowTellsTrue, Statuses, Waiting, Answers

\* What the provider has taken, returned or answered is left alone by any step that
\* leaves the requests of others and their calls alone.
MoneyKept ==
    \A k \in Attempts : /\ Taken(k) => Taken(k)'
                        /\ Returned(k) => Returned(k)'
                        /\ Heeded(k) => Heeded(k)'

\* The answers nothing comes after.
Final == {"paid", "reversed", "returned", "accepted", "declined"}

-----------------------------------------------------------------------------
\* A request comes: it claims nothing yet.
LEMMA ArriveKeeps ==
    ASSUME CardInv, NEW r \in Requests, Charge(r) \/ Refund(r)
    PROVE  CardInv'
<1>1. PICK what \in {"charge", "refund"}, k \in Attempts : Arrive(r, what, k)
  BY DEF Charge, Refund
<1>2. /\ pc[r] = "none" /\ wire[r] = "none"
      /\ op' = [op EXCEPT ![r] = what] /\ key' = [key EXCEPT ![r] = k]
      /\ pc' = [pc EXCEPT ![r] = IF what = "charge" THEN "look" ELSE "read"]
      /\ UNCHANGED <<adapter, status, result, wire, cut>>
  BY <1>1 DEF Arrive, Goto, CardInv, RequestInv
<1>3. TypeOK' /\ RequestInv'
  BY <1>2 DEF CardInv, TypeOK, RequestInv, Spoken, Waiting
<1>4. \A q \in Requests : Claims(q)' => q # r /\ Claims(q) /\ key'[q] = key[q]
  BY <1>2 DEF CardInv, TypeOK, Claims
<1>5. ClaimInv' /\ ResultInv' /\ HostedInv'
  BY <1>2, <1>4 DEF CardInv, TypeOK, ClaimInv, ResultInv, Vouched, HostedInv
<1>6. RowTellsTrue'
  <2>1. MoneyKept
    BY <1>2 DEF MoneyKept, Taken, Returned, Heeded, Charges, Refunds, CardInv, TypeOK
  <2> QED BY <1>2, <2>1 DEF CardInv, RowTellsTrue, MoneyKept
<1> QED BY <1>3, <1>5, <1>6 DEF CardInv

\* A step that changes no final answer keeps the money where it is.
LEMMA MoneyStays ==
    ASSUME CardInv, UNCHANGED <<op, key>>,
           \A r \in Requests : wire[r] \in Final => wire'[r] = wire[r]
    PROVE  MoneyKept
  BY DEF MoneyKept, Final, Taken, Returned, Heeded, Charges, Refunds

\* The handler's steps that write no row and hear nothing.
LEMMA StepKeeps ==
    ASSUME CardInv, NEW r \in Requests,
           Look(r) \/ SwitchedOff(r) \/ ReadForRefund(r) \/ Unrefundable(r) \/ Die(r)
    PROVE  CardInv'
<1>1. PICK step \in {"insert", "call", "end"} : pc' = [pc EXCEPT ![r] = step]
  BY DEF Look, SwitchedOff, ReadForRefund, Unrefundable, Die, Goto
<1>2. /\ UNCHANGED <<adapter, status, op, key, result, wire>>
      /\ cut' \in SUBSET Attempts
      /\ pc[r] \in Waiting
      /\ step = "insert" => pc[r] = "look"
      /\ step = "call" => pc[r] = "read" /\ status[key[r]] = "captured"
  BY <1>1 DEF Look, SwitchedOff, ReadForRefund, Unrefundable, Die, Goto, CardInv,
     TypeOK, RequestInv, Waiting
<1>3. TypeOK' /\ RequestInv'
  BY <1>1, <1>2 DEF CardInv, TypeOK, RequestInv, Spoken, Waiting
<1>4. \A q \in Requests : Claims(q)' => Claims(q)
  BY <1>1, <1>2 DEF CardInv, TypeOK, RequestInv, Claims
<1>5. ClaimInv' /\ ResultInv'
  BY <1>1, <1>2, <1>4 DEF CardInv, TypeOK, ClaimInv, ResultInv, Vouched
<1>6. HostedInv'
  BY <1>1, <1>2 DEF CardInv, TypeOK, RequestInv, HostedInv
<1>7. RowTellsTrue'
  BY <1>2, MoneyStays DEF CardInv, RowTellsTrue, MoneyKept
<1> QED  BY <1>3, <1>5, <1>6, <1>7 DEF CardInv

\* The first of those that would insert the row has it to itself.
LEMMA InsertKeeps ==
    ASSUME CardInv, NEW r \in Requests, Insert(r)
    PROVE  CardInv'
<1>1. CASE status[key[r]] # "none"
  <2>1. /\ pc' = [pc EXCEPT ![r] = "end"] /\ pc[r] = "insert"
        /\ UNCHANGED <<adapter, status, op, key, result, wire, cut>>
    BY <1>1 DEF Insert, Goto
  <2>2. TypeOK' /\ RequestInv' /\ ResultInv' /\ HostedInv'
    BY <2>1 DEF CardInv, TypeOK, RequestInv, Spoken, ResultInv, Vouched, HostedInv, Waiting
  <2>3. \A q \in Requests : Claims(q)' => Claims(q)
    BY <2>1 DEF CardInv, TypeOK, RequestInv, Claims
  <2>4. ClaimInv'
    BY <2>1, <2>3 DEF CardInv, ClaimInv
  <2>5. RowTellsTrue'
    BY <2>1, MoneyStays DEF CardInv, RowTellsTrue, MoneyKept
  <2> QED  BY <2>2, <2>4, <2>5 DEF CardInv
<1>2. CASE status[key[r]] = "none"
  <2>1. /\ pc' = [pc EXCEPT ![r] = "call"] /\ pc[r] = "insert" /\ key[r] \in Attempts
        /\ status' = [status EXCEPT ![key[r]] = "initiated"]
        /\ op[r] = "charge"
        /\ UNCHANGED <<adapter, op, key, result, wire, cut>>
    BY <1>2 DEF Insert, Goto, CardInv, RequestInv
  <2>2. TypeOK' /\ RequestInv' /\ ResultInv' /\ HostedInv'
    BY <2>1 DEF CardInv, TypeOK, RequestInv, Spoken, ResultInv, Vouched, HostedInv, Waiting,
       Statuses
  <2>3. \A q \in Requests : Claims(q) => key[q] # key[r]
    BY <1>2 DEF CardInv, ClaimInv
  <2>4. \A q \in Requests : Claims(q)' => q = r \/ Claims(q)
    BY <2>1 DEF CardInv, TypeOK, RequestInv, Claims
  <2>5. \A q \in Requests : Claims(q)' => status'[key'[q]] # "none"
    BY <2>1, <2>3, <2>4 DEF CardInv, ClaimInv, TypeOK
  <2>6. ClaimInv'
    BY <2>1, <2>3, <2>4, <2>5 DEF CardInv, ClaimInv
  <2>7. RowTellsTrue'
    BY <2>1, MoneyStays DEF CardInv, TypeOK, RowTellsTrue, MoneyKept
  <2> QED  BY <2>2, <2>6, <2>7 DEF CardInv
<1> QED  BY <1>1, <1>2

\* A call goes out or is acted on, by the handler or the provider.
LEMMA WireKeeps ==
    ASSUME CardInv, NEW r \in Requests, Call(r) \/ Decide(r) \/ PaidElsewhere(r)
    PROVE  CardInv'
<1>1. PICK w \in Answers \cup {"sent"} :
          /\ wire' = [wire EXCEPT ![r] = w]
          /\ w # "sent" => pc[r] = "end" \/ w \in Spoken(r)
          /\ w = "sent" => pc[r] = "call"
          /\ pc[r] \notin {"call", "write"} \/ w = "sent" \/ wire[r] = "sent"
          /\ wire[r] \notin Final
  <2>1. CASE Call(r)
    BY <2>1 DEF Call, Final, CardInv, RequestInv
  <2>2. CASE Decide(r)
    <3>1. PICK o \in Spoken(r) : wire' = [wire EXCEPT ![r] = o] /\ wire[r] = "sent"
      BY <2>2 DEF Decide, Spoken
    <3>2. op[r] \in {"charge", "refund"} /\ adapter[key[r]] \in Adapters
      BY <3>1 DEF CardInv, TypeOK, RequestInv
    <3>3. o \in Answers
      BY <3>1, <3>2, ChargeAnswers, RefundAnswers DEF Spoken, Words, Answers
    <3> QED  BY <3>1, <3>3 DEF Final, Answers
  <2>3. CASE PaidElsewhere(r)
    BY <2>3 DEF PaidElsewhere, Answers, Final
  <2> QED  BY <2>1, <2>2, <2>3
<1>2. /\ UNCHANGED <<adapter, status, op, key, result, cut>>
      /\ pc' = [pc EXCEPT ![r] = IF pc[r] = "call" THEN "answer" ELSE pc[r]]
      /\ pc[r] \in {"call", "answer", "write", "end"}
      /\ wire[r] = "none" => pc[r] = "call"
  BY DEF Call, Decide, PaidElsewhere, Goto, CardInv, TypeOK, RequestInv, Waiting
<1>3. TypeOK'
  BY <1>1, <1>2 DEF CardInv, TypeOK, Waiting
<1>4. RequestInv' /\ HostedInv'
  BY <1>1, <1>2 DEF CardInv, TypeOK, RequestInv, Spoken, HostedInv, Answers
<1>5. \A q \in Requests : Claims(q)' => Claims(q)
  BY <1>1, <1>2 DEF CardInv, TypeOK, Claims
<1>6. ClaimInv'
  BY <1>2, <1>5 DEF CardInv, ClaimInv
<1>7. ResultInv'
  BY <1>1, <1>2 DEF CardInv, TypeOK, ResultInv, Vouched, Final
<1>8. RowTellsTrue'
  <2>1. MoneyKept
    BY <1>1, <1>2, MoneyStays DEF CardInv, TypeOK
  <2> QED  BY <1>2, <2>1 DEF CardInv, RowTellsTrue, MoneyKept
<1> QED  BY <1>3, <1>4, <1>6, <1>7, <1>8 DEF CardInv

\* What is heard is put as the adapter puts it, and what is not heard reads failed.
LEMMA AnswerKeeps ==
    ASSUME CardInv, NEW r \in Requests, Answer(r)
    PROVE  CardInv'
<1>1. PICK res \in Statuses :
          /\ result' = [result EXCEPT ![r] = res]
          /\ Vouched(r)'
  <2>1. CASE Unreachable(r)
    BY <2>1 DEF Unreachable, Vouched, CardInv, TypeOK, Statuses
  <2>2. CASE Hears(r)
    <3> DEFINE a == adapter[key[r]]
    <3>1. /\ pc[r] = "answer" /\ op[r] \in {"charge", "refund"} /\ a \in Adapters
          /\ wire[r] \in DOMAIN Words(op[r], a)
          /\ op[r] = "refund" => a # "hosted"
      BY <2>2 DEF Hears, Spoken, HostedInv, CardInv, TypeOK, RequestInv
    <3>2. CASE op[r] = "charge"
      <4>1. /\ result' = [result EXCEPT ![r] = ChargeWords[a][wire[r]]]
            /\ wire[r] \in DOMAIN ChargeWords[a]
            /\ UNCHANGED <<adapter, op, key, wire>>
        BY <2>2, <3>1, <3>2 DEF Hears, Words
      <4> HIDE DEF a
      <4>2. /\ ChargeWords[a][wire[r]] \in Statuses
            /\ ChargeWords[a][wire[r]] = "captured" => wire[r] = "paid" /\ a # "hosted"
            /\ ChargeWords[a][wire[r]] = "refunded" => wire[r] = "reversed" /\ a # "hosted"
        BY <3>1, <4>1, ChargeAnswers
      <4> QED  BY <3>2, <4>1, <4>2 DEF Vouched, CardInv, TypeOK, a
    <3>3. CASE op[r] = "refund"
      <4>1. /\ result' = [result EXCEPT ![r] = RefundWords[a][wire[r]]]
            /\ wire[r] \in DOMAIN RefundWords[a]
            /\ UNCHANGED <<adapter, op, key, wire>>
        BY <2>2, <3>1, <3>3 DEF Hears, Words
      <4> HIDE DEF a
      <4>2. /\ RefundWords[a][wire[r]] \in {"refunded", "failed"}
            /\ RefundWords[a][wire[r]] = "refunded" =>
                  wire[r] = "returned" \/ (wire[r] \in {"accepted", "declined"} /\ a # "terminal")
        BY <3>1, <4>1, RefundAnswers
      <4> QED  BY <3>1, <3>3, <4>1, <4>2 DEF Vouched, CardInv, TypeOK, Statuses, a
    <3> QED  BY <3>1, <3>2, <3>3
  <2> QED  BY <2>1, <2>2 DEF Answer
<1>2. /\ pc[r] = "answer" /\ pc' = [pc EXCEPT ![r] = "write"]
      /\ UNCHANGED <<adapter, status, op, key, wire, cut>>
  BY DEF Answer, Hears, Unreachable, Goto
<1>3. TypeOK' /\ RequestInv' /\ HostedInv'
  BY <1>1, <1>2 DEF CardInv, TypeOK, RequestInv, Spoken, HostedInv, Waiting
<1>4. \A q \in Requests : Claims(q)' => Claims(q)
  BY <1>2 DEF CardInv, TypeOK, Claims
<1>5. ClaimInv'
  BY <1>2, <1>4 DEF CardInv, ClaimInv
<1>6. ResultInv'
  BY <1>1, <1>2 DEF CardInv, TypeOK, ResultInv, Vouched, Statuses
<1>7. RowTellsTrue'
  BY <1>2, MoneyStays DEF CardInv, RowTellsTrue, MoneyKept
<1> QED  BY <1>3, <1>5, <1>6, <1>7 DEF CardInv

\* The row takes the result, whatever it said before.
LEMMA WriteKeeps ==
    ASSUME CardInv, NEW r \in Requests, Write(r)
    PROVE  CardInv'
<1>1. /\ pc[r] = "write" /\ pc' = [pc EXCEPT ![r] = "end"]
      /\ status' = [status EXCEPT ![key[r]] = result[r]]
      /\ UNCHANGED <<adapter, op, key, result, wire, cut>>
  BY DEF Write, Goto
<1>2. key[r] \in Attempts /\ result[r] \in Statuses /\ op[r] \in {"charge", "refund"}
  BY <1>1 DEF CardInv, TypeOK, RequestInv, ResultInv
<1>3. TypeOK' /\ RequestInv' /\ ResultInv'
  BY <1>1, <1>2 DEF CardInv, TypeOK, RequestInv, Spoken, ResultInv, Vouched, Waiting
<1>4. \A q \in Requests : Claims(q)' => Claims(q)
  BY <1>1 DEF CardInv, TypeOK, Claims
<1>5. \A k \in Attempts : status[k] # "none" => status'[k] # "none"
  BY <1>1, <1>2 DEF CardInv, TypeOK, Statuses
<1>6. ClaimInv'
  BY <1>1, <1>4, <1>5 DEF CardInv, ClaimInv, TypeOK, RequestInv, Claims
<1>7. /\ result[r] = "captured" => Taken(key[r])
      /\ result[r] = "refunded" =>
             \/ Returned(key[r])
             \/ adapter[key[r]] \in {"moyasar", "tap"} /\ Heeded(key[r])
      /\ result[r] \in {"captured", "refunded"} => adapter[key[r]] # "hosted"
  <2>1. Vouched(r)
    BY <1>1 DEF CardInv, ResultInv
  <2>2. adapter[key[r]] \in {"moyasar", "tap", "terminal", "hosted"}
    BY <1>2 DEF CardInv, TypeOK, Adapters, ChargeWords
  <2> QED  BY <2>1, <2>2 DEF Vouched, Taken, Returned, Heeded, Charges, Refunds
<1>8. HostedInv'
  BY <1>1, <1>2, <1>7 DEF CardInv, TypeOK, HostedInv
<1>9. RowTellsTrue'
  <2>1. MoneyKept
    BY <1>1, MoneyStays
  <2> QED  BY <1>1, <1>2, <1>7, <2>1 DEF CardInv, TypeOK, RowTellsTrue, MoneyKept
<1> QED  BY <1>3, <1>6, <1>8, <1>9 DEF CardInv

-----------------------------------------------------------------------------
\* The invariant holds in every state of every behaviour.
THEOREM CardCorrect == Spec => []CardInv
<1>1. Init => CardInv
  BY InitCard
<1>2. CardInv /\ [Next]_vars => CardInv'
  <2> SUFFICES ASSUME CardInv, [Next]_vars PROVE CardInv'
    OBVIOUS
  <2>1. CASE UNCHANGED vars
    BY <2>1 DEF vars, CardInv, TypeOK, RequestInv, Spoken, ClaimInv, Claims, ResultInv,
       Vouched, HostedInv, RowTellsTrue, Taken, Returned, Heeded, Charges, Refunds
  <2>2. CASE Next
    BY <2>2, ArriveKeeps, StepKeeps, InsertKeeps, WireKeeps, AnswerKeeps, WriteKeeps
       DEF Next, Serve
  <2> QED  BY <2>1, <2>2
<1> QED  BY <1>1, <1>2, PTL DEF Spec

\* Types, for any number of attempts and requests (payments.go:584, 0102:126).
THEOREM CardTypeCorrect == Spec => []TypeOK
<1>1. CardInv => TypeOK
  BY DEF CardInv
<1> QED  BY <1>1, CardCorrect, PTL

\* However many retries race, a uuid is charged once (payments.go:606): the row
\* comes before the call, and its index lets one in.
THEOREM ChargedOnceHolds == Spec => []ChargedOnce
<1>1. CardInv => ChargedOnce
  <2> SUFFICES ASSUME CardInv, NEW k \in Attempts
               PROVE  Cardinality({r \in Charges(k) : wire[r] # "none"}) <= 1
    BY DEF ChargedOnce
  <2> DEFINE C == {r \in Charges(k) : wire[r] # "none"}
  <2>1. \A q, r \in C : q = r
    BY DEF Charges, CardInv, ClaimInv, Claims
  <2>2. CASE C = {}
    BY <2>2, FS_EmptySet
  <2>3. CASE C # {}
    <3>1. PICK r \in C : TRUE
      BY <2>3
    <3>2. C = {r}
      BY <2>1, <3>1
    <3> QED  BY <3>2, FS_Singleton
  <2> QED  BY <2>2, <2>3
<1> QED  BY <1>1, CardCorrect, PTL

\* A row says captured only of money that was taken (payments.go:687), and
\* refunded only of money sent back, or, where the adapter does not read its
\* provider's answer (adapters.go:308, 628), of a refund answered without an
\* error; whatever answers are lost, late or crossed.
THEOREM RowTellsTrueHolds == Spec => []RowTellsTrue
<1>1. CardInv => RowTellsTrue
  BY DEF CardInv
<1> QED  BY <1>1, CardCorrect, PTL
=============================================================================
