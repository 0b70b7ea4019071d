---------------------------- MODULE BrowserSession ----------------------------
(***************************************************************************)
(* The back office in one browser: tabs with an access token each, in      *)
(* memory, and one refresh cookie between them (web-next/src/lib/api/      *)
(* client.ts), over the server's RefreshRotation.                          *)
(***************************************************************************)
EXTENDS RefreshRotation

CONSTANTS
    Tabs,
    NoTab,
    Lossy       \* can an answer be lost on its way?

ASSUME BrowserAssumption == NoTab \notin Tabs

VARIABLES
    cookie,     \* the refresh token the browser holds
    access,     \* the session of each tab's access token, 0 for none
    fresh,      \* is that token younger than its fifteen minutes?
    asker,      \* the tab that awaits a request's answer; NoTab: nobody any more
    doubt       \* history: tokens that more than one refresh may rightly carry

browserVars == <<cookie, access, fresh, asker, doubt>>
vars == <<serverVars, browserVars>>

TypeOK ==
    /\ ServerTypeOK
    /\ cookie \in issued \cup {NoToken}
    /\ access \in [Tabs -> 0..started]
    /\ fresh \in [Tabs -> BOOLEAN]
    /\ asker \in [Requests -> Tabs \cup {NoTab}]
    /\ doubt \subseteq issued

Init ==
    /\ ServerInit
    /\ cookie = NoToken
    /\ access = [t \in Tabs |-> 0]
    /\ fresh = [t \in Tabs |-> FALSE]
    /\ asker = [r \in Requests |-> NoTab]
    /\ doubt = {}

\* A slip: a refresh under way is not shared.
NeverShared(t) == FALSE

Refreshing(t) == \E r \in Requests : asker[r] = t

Waiting(t)    == {r \in Requests : asker[r] = t}
TokensOf(R)   == {request[r].token : r \in R}

SetAccess(t, s) ==
    /\ access' = [access EXCEPT ![t] = s]
    /\ fresh' = [fresh EXCEPT ![t] = s # 0]

-----------------------------------------------------------------------------

\* login: the answer sets the cookie for the browser, the token for the tab.
Login(t) ==
    /\ access[t] = 0
    /\ OpenSession
    /\ cookie' = FirstOf(started + 1)
    /\ SetAccess(t, started + 1)
    /\ UNCHANGED <<asker, doubt>>

Expire(t) ==
    /\ fresh[t]
    /\ fresh' = [fresh EXCEPT ![t] = FALSE]
    /\ UNCHANGED <<serverVars, cookie, access, asker, doubt>>

\* The request leaves with the cookie of the moment.  The token is in doubt
\* when another tab awaits its exchange, or this one has given it up.
Ask(t, r, givenUp) ==
    /\ cookie # NoToken
    /\ Receive(r, cookie)
    /\ doubt' = doubt \cup givenUp \cup
                  ({cookie} \cap UNION {TokensOf(Waiting(u)) : u \in Tabs \ {t}})
    /\ UNCHANGED cookie

\* A call came back 401.  A tab that is refreshing already joins that one.
Refresh(t, r) ==
    /\ access[t] # 0
    /\ ~fresh[t]
    /\ ~Refreshing(t)
    /\ Ask(t, r, {})
    /\ asker' = [asker EXCEPT ![r] = t]
    /\ UNCHANGED <<access, fresh>>

\* Without a cookie the refresh is refused out of hand.
RefreshBare(t) ==
    /\ access[t] # 0
    /\ ~fresh[t]
    /\ ~Refreshing(t)
    /\ cookie = NoToken
    /\ SetAccess(t, 0)
    /\ UNCHANGED <<serverVars, cookie, asker, doubt>>

\* bootstrap: a page load has lost what was in memory, also a refresh under
\* way, and asks for a session with the cookie.
Reload(t, r) ==
    /\ Lossy \/ ~Refreshing(t)
    /\ SetAccess(t, 0)
    /\ Ask(t, r, TokensOf(Waiting(t)))
    /\ asker' = [q \in Requests |-> IF q = r THEN t
                                    ELSE IF asker[q] = t THEN NoTab ELSE asker[q]]

\* The network drops under a refresh: the tab keeps the token it has.
Drop(t) ==
    /\ Lossy
    /\ Refreshing(t)
    /\ asker' = [q \in Requests |-> IF asker[q] = t THEN NoTab ELSE asker[q]]
    /\ doubt' = doubt \cup TokensOf(Waiting(t))
    /\ UNCHANGED <<serverVars, cookie, access, fresh>>

\* A slip: a refusal changes nothing in the browser.
AnswerUnheeded(r) ==
    /\ request[r].phase \in {"renewed", "refused"}
    /\ Forget(r)
    /\ asker' = [asker EXCEPT ![r] = NoTab]
    /\ IF asker[r] = NoTab \/ request[r].phase = "refused"
         THEN UNCHANGED <<cookie, access, fresh>>
         ELSE /\ cookie' = After(request[r].token)
              /\ SetAccess(asker[r], request[r].token.session)
    /\ UNCHANGED doubt

\* A refresh is answered.  A renewal brings the next cookie, a refusal clears
\* the cookie, whichever the browser holds by now.
Answer(r) ==
    /\ request[r].phase \in {"renewed", "refused"}
    /\ Forget(r)
    /\ asker' = [asker EXCEPT ![r] = NoTab]
    /\ IF asker[r] = NoTab
         THEN UNCHANGED <<cookie, access, fresh>>
         ELSE IF request[r].phase = "renewed"
         THEN /\ cookie' = After(request[r].token)
              /\ SetAccess(asker[r], request[r].token.session)
         ELSE /\ cookie' = NoToken
              /\ SetAccess(asker[r], 0)
    /\ UNCHANGED doubt

\* logout clears the tab's token whatever the server says.  The server ends
\* the session and the cookie only for a token that is still good: an expired
\* one is answered 401, and logout does not refresh.
Logout(t) ==
    /\ access[t] # 0
    /\ \/ /\ fresh[t]
          /\ Revoke({access[t]})
          /\ cookie' = NoToken
       \/ /\ Lossy
          /\ fresh[t]
          /\ Revoke({access[t]})
          /\ UNCHANGED cookie
       \/ /\ Lossy \/ ~fresh[t]
          /\ UNCHANGED <<serverVars, cookie>>
    /\ SetAccess(t, 0)
    /\ UNCHANGED <<asker, doubt>>

\* Somebody with the right ends the user's sessions.
RevokeAll ==
    /\ Revoke(1..started)
    /\ UNCHANGED browserVars

Next ==
    \/ \E t \in Tabs :
          \/ Login(t) \/ Expire(t) \/ RefreshBare(t) \/ Drop(t) \/ Logout(t)
          \/ \E r \in Requests : Refresh(t, r) \/ Reload(t, r)
    \/ \E r \in Requests : Answer(r) \/ (Serve(r) /\ UNCHANGED browserVars)
    \/ RevokeAll

Spec == Init /\ [][Next]_vars

-----------------------------------------------------------------------------

\* A token comes back only from two tabs that refresh at once, or from one
\* that never heard what became of its refresh: a tab alone whose answers
\* arrive never signs the person out everywhere ("one refresh at a time").
ReplayHasACause ==
    \A r \in Requests :
        request[r].phase = "replayed" =>
            request[r].token \in doubt \/ request[r].token.session \in ended

-----------------------------------------------------------------------------
(* The server serves, answers arrive or are given up, access tokens expire *)
(* and a tab in use finds out.                                             *)

Fairness ==
    /\ \A r \in Requests : WF_vars(Serve(r) /\ UNCHANGED browserVars) /\ WF_vars(Answer(r))
    /\ \A t \in Tabs :
          /\ WF_vars(Expire(t))
          /\ WF_vars(RefreshBare(t))
          /\ SF_vars(\E r \in Requests : Refresh(t, r))

Calm == <>[][~\E t \in Tabs : Drop(t) \/ \E r \in Requests : Reload(t, r)]_vars

LiveSpec == Spec /\ Fairness /\ Calm

\* A session that has ended is out of every tab in the end, though a refresh
\* that was under way when it ended may bring it back for a while.
EndedIsNoticed ==
    \A s \in Sessions : s \in ended ~> \A t \in Tabs : access[t] # s
=============================================================================
