--------------------------- MODULE RefreshRotation ---------------------------
(***************************************************************************)
(* One user's sessions on the server and the rotation of their refresh     *)
(* tokens: backend/internal/identity/service.go.  A refresh is two         *)
(* transactions, one that reads the token and one that spends it; other    *)
(* refreshes, a logout or a revocation can come between.                   *)
(***************************************************************************)
EXTENDS Naturals

CONSTANTS
    MaxSessions,    \* bound: sign-ins
    MaxGeneration,  \* bound: the token of this generation is past its expiry
    Requests,       \* refreshes the server may be serving at one time
    NoToken

Sessions    == 1..MaxSessions
Token       == [session : Sessions, generation : 1..MaxGeneration]

ASSUME RotationAssumption ==
    MaxSessions \in Nat /\ MaxGeneration \in Nat \ {0} /\ NoToken \notin Token

FirstOf(s)  == [session |-> s, generation |-> 1]
After(tok)  == [tok EXCEPT !.generation = @ + 1]
Expired(tok) == tok.generation = MaxGeneration

VARIABLES
    started,    \* sessions opened so far
    issued,     \* session_refresh_token rows
    spent,      \* those with used_at set
    ended,      \* sessions with revoked_at set
    late,       \* history: tokens issued on a session that had ended
    request     \* the refreshes being served

serverVars == <<started, issued, spent, ended, late, request>>

Phases == {"free", "sent", "read", "replayed", "renewed", "refused"}
Free   == [phase |-> "free", token |-> NoToken]

ServerTypeOK ==
    /\ started \in 0..MaxSessions
    /\ issued \subseteq Token
    /\ spent \subseteq issued
    /\ ended \subseteq 1..started
    /\ late \subseteq issued
    /\ request \in [Requests -> [phase : Phases, token : Token \cup {NoToken}]]

ServerInit ==
    /\ started = 0
    /\ issued = {}
    /\ spent = {}
    /\ ended = {}
    /\ late = {}
    /\ request = [r \in Requests |-> Free]

Reach(r, phase) == request' = [request EXCEPT ![r].phase = phase]

\* Login: a session and the first token of its family.
OpenSession ==
    /\ started < MaxSessions
    /\ started' = started + 1
    /\ issued' = issued \cup {FirstOf(started + 1)}
    /\ UNCHANGED <<spent, ended, late, request>>

Receive(r, tok) ==
    /\ request[r] = Free
    /\ request' = [request EXCEPT ![r] = [phase |-> "sent", token |-> tok]]
    /\ UNCHANGED <<started, issued, spent, ended, late>>

\* A slip: whether the session still stands is not asked.
ReadUsedOnly(r) ==
    /\ request[r].phase = "sent"
    /\ Reach(r, IF request[r].token \in spent THEN "replayed"
                ELSE IF Expired(request[r].token) THEN "refused" ELSE "read")
    /\ UNCHANGED <<started, issued, spent, ended, late>>

\* The first transaction, and what follows from what it read.
ReadToken(r) ==
    LET tok == request[r].token
    IN  /\ request[r].phase = "sent"
        /\ Reach(r, IF tok \in spent THEN "replayed"
                    ELSE IF tok.session \in ended \/ Expired(tok) THEN "refused"
                    ELSE "read")
        /\ UNCHANGED <<started, issued, spent, ended, late>>

\* revokeFamily: a token that comes back ends every session of the user.
RevokeFamily(r) ==
    /\ request[r].phase = "replayed"
    /\ ended' = 1..started
    /\ spent' = issued
    /\ Reach(r, "refused")
    /\ UNCHANGED <<started, issued, late>>

Exchange(r) ==
    LET tok == request[r].token
    IN  /\ Reach(r, "renewed")
        /\ spent' = spent \cup {tok}
        /\ issued' = issued \cup {After(tok)}
        /\ late' = late \cup (IF tok.session \in ended THEN {After(tok)} ELSE {})

\* A slip: the token is spent without a look at used_at.
SpendUnseen(r) ==
    /\ request[r].phase = "read"
    /\ Exchange(r)
    /\ UNCHANGED <<started, ended>>

\* The second transaction: conditional on used_at still being null, and on
\* nothing else.
SpendToken(r) ==
    /\ request[r].phase = "read"
    /\ IF request[r].token \in spent
         THEN Reach(r, "refused") /\ UNCHANGED <<issued, spent, late>>
         ELSE Exchange(r)
    /\ UNCHANGED <<started, ended>>

\* Logout, and an administrator's RevokeAllForUser.
Revoke(S) ==
    /\ ended' = ended \cup S
    /\ UNCHANGED <<started, issued, spent, late, request>>

Serve(r) == ReadToken(r) \/ RevokeFamily(r) \/ SpendToken(r)

Forget(r) ==
    /\ request' = [request EXCEPT ![r] = Free]
    /\ UNCHANGED <<started, issued, spent, ended, late>>

-----------------------------------------------------------------------------
(* What rotation promises, whoever presents what.                          *)

\* A token is exchanged once, however many refreshes read it before one spent
\* it: "so two concurrent refreshes with the same token cannot both succeed".
ExchangedOnce ==
    [][\A r \in Requests :
          request[r].phase = "read" /\ request'[r].phase = "renewed"
          => After(request[r].token) \notin issued]_serverVars

\* A revocation between the two transactions of a refresh lets that refresh
\* through, and nothing after it: what it was given cannot be exchanged.
LateTokensAreDead == \A tok \in late : After(tok) \notin issued
=============================================================================
